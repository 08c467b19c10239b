------------------------ MODULE WildcardMatchProofs ------------------------
(***************************************************************************)
(* The matcher is right for every pattern and name, whatever their length: *)
(* it stays within both texts, it accepts nothing but matches, and of the  *)
(* names without '*' it accepts every match.                               *)
(*                                                                         *)
(* The first direction needs that the part walked through matches, up to   *)
(* here and up to the last star.  The second needs why only the last star  *)
(* is reconsidered: if the name matches at all, the rest matches from      *)
(* here, or the last star can still take more, with everything after it    *)
(* moved along.                                                            *)
(***************************************************************************)
EXTENDS WildcardMatch, TLAPS

\* The pattern from m on matches the text along cut.
CutsRest(cut, m) ==
  /\ cut \in [m .. Len(pattern) -> 0 .. Len(text)]
  /\ cut[Len(pattern)] = Len(text)
  /\ \A i \in m + 1 .. Len(pattern) :
       Piece(pattern, text, i, cut[i - 1], cut[i])

RestMatches(m, n) == \E cut : CutsRest(cut, m) /\ cut[m] = n

\* The last star can take more: the text from there on is cut later.
LaterMatch(cut) ==
  /\ CutsRest(cut, star_p + 1)
  /\ cut[star_p + 1] > star_t
  /\ cut[p] = cut[star_p + 1] + (t - star_t)

Walked ==
  /\ PrefixMatches(pattern, text, p, t)
  /\ star_p # npos =>
       /\ star_p < p
       /\ pattern[star_p + 1] = Star
       /\ PrefixMatches(pattern, text, star_p + 1, star_t)

StillPossible ==
  (StarFree(text) /\ Matches(pattern, text)) =>
    \/ RestMatches(p, t)
    \/ star_p # npos /\ t < Len(text) /\ \E cut : LaterMatch(cut)

MatchInv ==
  /\ TypeOK
  /\ star_p # npos => star_p < p
  /\ verdict = "none" => Walked /\ StillPossible
  /\ AcceptsOnlyMatches
  /\ RejectsOnlyMismatches

-----------------------------------------------------------------------------
(***************************************************************************)
(* Longer prefixes.                                                        *)
(***************************************************************************)

\* A piece more on both sides.
LEMMA ExtendPrefix ==
  ASSUME NEW pat, NEW txt, NEW m \in Nat, NEW n \in Nat, NEW k \in Nat,
         n <= k, PrefixMatches(pat, txt, m, n), Piece(pat, txt, m + 1, n, k)
  PROVE  PrefixMatches(pat, txt, m + 1, k)
<1>1. PICK cut \in [0 .. m -> 0 .. n] :
        /\ cut[0] = 0
        /\ cut[m] = n
        /\ \A i \in 1 .. m : Piece(pat, txt, i, cut[i - 1], cut[i])
  BY DEF PrefixMatches
<1> DEFINE longer == [i \in 0 .. m + 1 |-> IF i = m + 1 THEN k ELSE cut[i]]
<1>2. longer \in [0 .. m + 1 -> 0 .. k]
  BY <1>1
<1>3. longer[0] = 0 /\ longer[m + 1] = k
  BY <1>1
<1>4. ASSUME NEW i \in 1 .. m + 1
      PROVE  Piece(pat, txt, i, longer[i - 1], longer[i])
  <2>1. CASE i = m + 1
    <3>1. longer[i] = k /\ longer[i - 1] = n
      BY <1>1, <2>1
    <3> QED  BY <3>1, <2>1
  <2>2. CASE i # m + 1
    <3>1. i \in 1 .. m /\ longer[i] = cut[i] /\ longer[i - 1] = cut[i - 1]
      BY <2>2
    <3> QED  BY <3>1, <1>1
  <2> QED  BY <2>1, <2>2
<1> HIDE DEF longer
<1> QED  BY <1>2, <1>3, <1>4 DEF PrefixMatches

\* A star takes a character more.
LEMMA StretchStar ==
  ASSUME NEW pat, NEW txt, NEW m \in Nat, NEW n \in Nat,
         pat[m + 1] = Star, PrefixMatches(pat, txt, m + 1, n)
  PROVE  PrefixMatches(pat, txt, m + 1, n + 1)
<1>1. PICK cut \in [0 .. m + 1 -> 0 .. n] :
        /\ cut[0] = 0
        /\ cut[m + 1] = n
        /\ \A i \in 1 .. m + 1 : Piece(pat, txt, i, cut[i - 1], cut[i])
  BY DEF PrefixMatches
<1> DEFINE longer == [i \in 0 .. m + 1 |-> IF i = m + 1 THEN n + 1 ELSE cut[i]]
<1>2. longer \in [0 .. m + 1 -> 0 .. n + 1]
  BY <1>1
<1>3. longer[0] = 0 /\ longer[m + 1] = n + 1
  BY <1>1
<1>4. ASSUME NEW i \in 1 .. m + 1
      PROVE  Piece(pat, txt, i, longer[i - 1], longer[i])
  <2>1. CASE i = m + 1
    <3>1. longer[i] = n + 1 /\ longer[i - 1] \in 0 .. n
      BY <1>1, <2>1
    <3> QED  BY <3>1, <2>1 DEF Piece
  <2>2. CASE i # m + 1
    <3>1. i \in 1 .. m + 1 /\ longer[i] = cut[i] /\ longer[i - 1] = cut[i - 1]
      BY <2>2
    <3> QED  BY <3>1, <1>1
  <2> QED  BY <2>1, <2>2
<1> HIDE DEF longer
<1> QED  BY <1>2, <1>3, <1>4 DEF PrefixMatches

\* The empty prefix.
LEMMA EmptyPrefix ==
  ASSUME NEW pat, NEW txt
  PROVE  PrefixMatches(pat, txt, 0, 0)
<1> DEFINE cut == [i \in 0 .. 0 |-> 0]
<1>1. cut \in [0 .. 0 -> 0 .. 0] /\ cut[0] = 0
  OBVIOUS
<1>2. \A i \in 1 .. 0 : Piece(pat, txt, i, cut[i - 1], cut[i])
  OBVIOUS
<1> QED  BY <1>1, <1>2 DEF PrefixMatches

-----------------------------------------------------------------------------
(***************************************************************************)
(* Shorter rests.                                                          *)
(***************************************************************************)

\* A cut of the rest is a cut of every shorter rest.
LEMMA CutShorter ==
  ASSUME TypeOK, NEW m \in 0 .. Len(pattern), NEW k \in m .. Len(pattern),
         NEW cut, CutsRest(cut, m)
  PROVE  \E rest : CutsRest(rest, k) /\ \A i \in k .. Len(pattern) : rest[i] = cut[i]
<1> DEFINE rest == [i \in k .. Len(pattern) |-> cut[i]]
<1>1. Len(pattern) \in Nat
  BY DEF TypeOK
<1>2. rest \in [k .. Len(pattern) -> 0 .. Len(text)]
  BY <1>1 DEF CutsRest
<1>3. rest[Len(pattern)] = Len(text)
  BY <1>1 DEF CutsRest
<1>4. ASSUME NEW i \in k + 1 .. Len(pattern)
      PROVE  Piece(pattern, text, i, rest[i - 1], rest[i])
  <2>1. i \in m + 1 .. Len(pattern) /\ rest[i] = cut[i] /\ rest[i - 1] = cut[i - 1]
    BY <1>1
  <2> QED  BY <2>1 DEF CutsRest
<1>5. \A i \in k .. Len(pattern) : rest[i] = cut[i]
  OBVIOUS
<1> HIDE DEF rest
<1> QED  BY <1>2, <1>3, <1>4, <1>5 DEF CutsRest

\* A match of the whole is a match of the rest from the start.
LEMMA WholeIsRest ==
  ASSUME TypeOK, Matches(pattern, text)
  PROVE  RestMatches(0, 0)
<1>1. Len(pattern) \in Nat /\ Len(text) \in Nat
  BY DEF TypeOK
<1> QED  BY <1>1 DEF Matches, PrefixMatches, RestMatches, CutsRest

\* Where neither a character nor a star fits, the rest does not match.
LEMMA StuckRest ==
  ASSUME TypeOK, t < Len(text), ~Consumes, ~AtStar
  PROVE  ~RestMatches(p, t)
<1> SUFFICES ASSUME NEW cut, CutsRest(cut, p), cut[p] = t
             PROVE  FALSE
  BY DEF RestMatches
<1>1. Len(pattern) \in Nat /\ Len(text) \in Nat /\ p \in 0 .. Len(pattern)
  BY DEF TypeOK
<1>2. p < Len(pattern)
  BY <1>1 DEF CutsRest
<1>3. Piece(pattern, text, p + 1, cut[p], cut[p + 1])
  <2>1. p + 1 \in p + 1 .. Len(pattern) /\ (p + 1) - 1 = p
    BY <1>1, <1>2
  <2> QED  BY <2>1 DEF CutsRest
<1>4. pattern[p + 1] # Star
  BY <1>2 DEF AtStar, PatternLeft
<1>5. pattern[p + 1] \in {AnyChar, text[t + 1]}
  BY <1>3, <1>4 DEF Piece
<1> QED  BY <1>2, <1>5 DEF Consumes, PatternLeft

-----------------------------------------------------------------------------
(***************************************************************************)
(* The steps.                                                              *)
(***************************************************************************)
LEMMA InitMatchInv == Init => MatchInv
<1> SUFFICES ASSUME Init PROVE MatchInv
  OBVIOUS
<1>1. TypeOK
  BY WildcardAssumption DEF Init, TypeOK, npos
<1>2. Walked
  BY EmptyPrefix DEF Init, Walked
<1>3. StillPossible
  BY <1>1, WholeIsRest DEF Init, StillPossible
<1> QED
  BY <1>1, <1>2, <1>3
  DEF Init, MatchInv, AcceptsOnlyMatches, RejectsOnlyMismatches

LEMMA ConsumeStep ==
  ASSUME MatchInv, Consume
  PROVE  MatchInv'
<1>1. TypeOK /\ Len(pattern) \in Nat /\ Len(text) \in Nat
      /\ p \in Nat /\ t \in Nat /\ p < Len(pattern) /\ t < Len(text)
  BY DEF MatchInv, TypeOK, Consume, TextLeft, Consumes, PatternLeft
<1>2. TypeOK' /\ (star_p # npos => star_p < p)'
  BY <1>1 DEF MatchInv, TypeOK, Consume, TextLeft, npos
<1>3. verdict = "none" /\ Walked /\ StillPossible
  BY DEF MatchInv, Consume, TextLeft
<1>4. pattern[p + 1] \in {AnyChar, text[t + 1]}
  BY DEF Consume, Consumes
<1>5. Walked'
  <2>1. Piece(pattern, text, p + 1, t, t + 1)
    BY <1>1, <1>4 DEF Piece
  <2>2. PrefixMatches(pattern, text, p + 1, t + 1)
    BY <1>1, <1>3, <2>1, ExtendPrefix DEF Walked
  <2> QED
    BY <1>1, <1>3, <2>2 DEF Walked, Consume, TypeOK, npos
<1>6. StillPossible'
  <2> SUFFICES ASSUME StarFree(text), Matches(pattern, text)
               PROVE  \/ RestMatches(p, t)'
                      \/ (star_p # npos /\ t < Len(text)
                          /\ \E cut : LaterMatch(cut))'
    BY DEF StillPossible, Consume
  <2>1. pattern[p + 1] # Star
    BY <1>1, <1>4, WildcardAssumption DEF StarFree, TypeOK
  <2>2. CASE RestMatches(p, t)
    <3>1. PICK cut : CutsRest(cut, p) /\ cut[p] = t
      BY <2>2 DEF RestMatches
    <3>2. Piece(pattern, text, p + 1, cut[p], cut[p + 1])
      <4>1. p + 1 \in p + 1 .. Len(pattern) /\ (p + 1) - 1 = p
        BY <1>1
      <4> QED  BY <3>1, <4>1 DEF CutsRest
    <3>3. cut[p + 1] = t + 1
      BY <2>1, <3>1, <3>2 DEF Piece
    <3>4. PICK rest : CutsRest(rest, p + 1) /\ rest[p + 1] = cut[p + 1]
      BY <1>1, <3>1, CutShorter
    <3>5. RestMatches(p + 1, t + 1)
      BY <3>3, <3>4 DEF RestMatches
    <3> QED  BY <3>5 DEF Consume, RestMatches, CutsRest
  <2>3. CASE star_p # npos /\ t < Len(text) /\ \E cut : LaterMatch(cut)
    <3>1. PICK cut : LaterMatch(cut)
      BY <2>3
    <3>2. star_p \in Nat /\ star_p < p /\ star_t \in Nat
      BY <2>3, <1>3, <1>1 DEF Walked, TypeOK, npos
    <3>3. Piece(pattern, text, p + 1, cut[p], cut[p + 1])
      <4>1. p + 1 \in (star_p + 1) + 1 .. Len(pattern) /\ (p + 1) - 1 = p
        BY <1>1, <3>2
      <4> QED  BY <3>1, <4>1 DEF LaterMatch, CutsRest
    <3>4. cut[p + 1] = cut[p] + 1
      BY <2>1, <3>3 DEF Piece
    <3>5. cut[p + 1] \in 0 .. Len(text) /\ cut[star_p + 1] \in 0 .. Len(text)
      <4>1. cut \in [star_p + 1 .. Len(pattern) -> 0 .. Len(text)]
        BY <3>1 DEF LaterMatch, CutsRest
      <4>2. p + 1 \in star_p + 1 .. Len(pattern)
            /\ star_p + 1 \in star_p + 1 .. Len(pattern)
        BY <1>1, <3>2
      <4> QED  BY <4>1, <4>2
    <3>6. cut[p + 1] = cut[star_p + 1] + ((t + 1) - star_t)
      BY <1>1, <3>1, <3>2, <3>4, <3>5 DEF LaterMatch
    <3>7. t + 1 < Len(text)
      BY <1>1, <3>1, <3>2, <3>5, <3>6 DEF LaterMatch
    <3>8. LaterMatch(cut)'
      BY <3>1, <3>6 DEF LaterMatch, CutsRest, Consume
    <3> QED  BY <2>3, <3>7, <3>8 DEF Consume
  <2> QED  BY <1>3, <2>2, <2>3 DEF StillPossible
<1> QED
  BY <1>2, <1>3, <1>5, <1>6
  DEF MatchInv, AcceptsOnlyMatches, RejectsOnlyMismatches, Consume

LEMMA MeetStarStep ==
  ASSUME MatchInv, MeetStar
  PROVE  MatchInv'
<1>1. TypeOK /\ Len(pattern) \in Nat /\ Len(text) \in Nat
      /\ p \in Nat /\ t \in Nat /\ p < Len(pattern) /\ t < Len(text)
  BY DEF MatchInv, TypeOK, MeetStar, TextLeft, AtStar, PatternLeft
<1>2. TypeOK' /\ (star_p # npos => star_p < p)'
  BY <1>1 DEF MatchInv, TypeOK, MeetStar, npos
<1>3. verdict = "none" /\ Walked /\ StillPossible /\ pattern[p + 1] = Star
  BY DEF MatchInv, MeetStar, TextLeft, AtStar
<1>4. Walked'
  <2>1. Piece(pattern, text, p + 1, t, t)
    BY <1>1, <1>3 DEF Piece
  <2>2. PrefixMatches(pattern, text, p + 1, t)
    BY <1>1, <1>3, <2>1, ExtendPrefix DEF Walked
  <2> QED
    BY <1>1, <1>3, <2>2 DEF Walked, MeetStar
<1>5. StillPossible'
  <2> SUFFICES ASSUME StarFree(text), Matches(pattern, text)
               PROVE  \/ RestMatches(p, t)'
                      \/ (star_p # npos /\ t < Len(text)
                          /\ \E cut : LaterMatch(cut))'
    BY DEF StillPossible, MeetStar
  <2>1. ASSUME NEW cut, NEW m \in 0 .. p, CutsRest(cut, m), cut[p] >= t
        PROVE  \E n \in t .. Len(text) : \E rest :
                 CutsRest(rest, p + 1) /\ rest[p + 1] = n
    <3>1. Piece(pattern, text, p + 1, cut[p], cut[p + 1])
      <4>1. p + 1 \in m + 1 .. Len(pattern) /\ (p + 1) - 1 = p
        BY <1>1
      <4> QED  BY <2>1, <4>1 DEF CutsRest
    <3>2. cut[p] \in 0 .. Len(text) /\ cut[p + 1] \in 0 .. Len(text)
      <4>1. cut \in [m .. Len(pattern) -> 0 .. Len(text)]
        BY <2>1 DEF CutsRest
      <4>2. p \in m .. Len(pattern) /\ p + 1 \in m .. Len(pattern)
        BY <1>1
      <4> QED  BY <4>1, <4>2
    <3>3. cut[p + 1] \in t .. Len(text)
      BY <1>1, <1>3, <2>1, <3>1, <3>2 DEF Piece
    <3>4. PICK rest : CutsRest(rest, p + 1) /\ rest[p + 1] = cut[p + 1]
      BY <1>1, <2>1, CutShorter
    <3> QED  BY <3>3, <3>4
  <2>2. \E n \in t .. Len(text) : \E rest : CutsRest(rest, p + 1) /\ rest[p + 1] = n
    <3>1. CASE RestMatches(p, t)
      BY <1>1, <2>1, <3>1 DEF RestMatches
    <3>2. CASE star_p # npos /\ t < Len(text) /\ \E cut : LaterMatch(cut)
      <4>1. PICK cut : LaterMatch(cut)
        BY <3>2
      <4>2. star_p + 1 \in 0 .. p /\ star_t \in Nat
        BY <3>2, <1>3, <1>1 DEF Walked, TypeOK, npos
      <4>3. cut[star_p + 1] \in 0 .. Len(text)
        BY <1>1, <4>1, <4>2 DEF LaterMatch, CutsRest
      <4>4. CutsRest(cut, star_p + 1) /\ cut[p] >= t
        BY <1>1, <4>1, <4>2, <4>3 DEF LaterMatch
      <4> QED  BY <2>1, <4>2, <4>4
    <3> QED  BY <1>3, <3>1, <3>2 DEF StillPossible
  <2>3. PICK n \in t .. Len(text) : \E rest : CutsRest(rest, p + 1) /\ rest[p + 1] = n
    BY <2>2
  <2>4. PICK rest : CutsRest(rest, p + 1) /\ rest[p + 1] = n
    BY <2>3
  <2>5. CASE n = t
    BY <2>4, <2>5 DEF RestMatches, CutsRest, MeetStar
  <2>6. CASE n # t
    <3>1. n > t /\ n \in Nat
      BY <1>1, <2>6
    <3>2. LaterMatch(rest)'
      BY <1>1, <2>4, <3>1 DEF LaterMatch, CutsRest, MeetStar
    <3> QED  BY <1>1, <3>2 DEF MeetStar, npos
  <2> QED  BY <2>5, <2>6
<1> QED
  BY <1>2, <1>3, <1>4, <1>5
  DEF MatchInv, AcceptsOnlyMatches, RejectsOnlyMismatches, MeetStar

LEMMA BacktrackStep ==
  ASSUME MatchInv, Backtrack
  PROVE  MatchInv'
<1>1. TypeOK /\ Len(pattern) \in Nat /\ Len(text) \in Nat
      /\ p \in Nat /\ t \in Nat /\ t < Len(text)
      /\ star_p \in Nat /\ star_p < Len(pattern) /\ star_t \in 0 .. t
  BY DEF MatchInv, TypeOK, Backtrack, TextLeft, npos
<1>2. TypeOK' /\ (star_p # npos => star_p < p)'
  BY <1>1 DEF TypeOK, Backtrack, npos
<1>3. verdict = "none" /\ Walked /\ StillPossible
  BY DEF MatchInv, Backtrack, TextLeft
<1>4. Walked'
  <2>1. pattern[star_p + 1] = Star
        /\ PrefixMatches(pattern, text, star_p + 1, star_t)
    BY <1>3 DEF Walked, Backtrack
  <2>2. PrefixMatches(pattern, text, star_p + 1, star_t + 1)
    BY <1>1, <2>1, StretchStar
  <2> QED
    BY <1>1, <2>1, <2>2 DEF Walked, Backtrack
<1>5. StillPossible'
  <2> SUFFICES ASSUME StarFree(text), Matches(pattern, text)
               PROVE  \/ RestMatches(p, t)'
                      \/ (star_p # npos /\ t < Len(text)
                          /\ \E cut : LaterMatch(cut))'
    BY DEF StillPossible, Backtrack
  <2>1. ~RestMatches(p, t)
    BY <1>1, StuckRest DEF Backtrack
  <2>2. PICK cut : LaterMatch(cut)
    BY <1>3, <2>1 DEF StillPossible
  <2>3. cut[star_p + 1] \in star_t + 1 .. Len(text)
    BY <1>1, <2>2 DEF LaterMatch, CutsRest
  <2>4. CASE cut[star_p + 1] = star_t + 1
    BY <2>2, <2>4 DEF RestMatches, LaterMatch, CutsRest, Backtrack
  <2>5. CASE cut[star_p + 1] # star_t + 1
    <3>1. cut[star_p + 1] > star_t + 1 /\ star_t + 1 < Len(text)
      BY <1>1, <2>3, <2>5
    <3>2. LaterMatch(cut)'
      BY <1>1, <2>2, <2>3, <3>1 DEF LaterMatch, CutsRest, Backtrack
    <3> QED  BY <1>1, <3>1, <3>2 DEF Backtrack, npos
  <2> QED  BY <2>4, <2>5
<1> QED
  BY <1>2, <1>3, <1>4, <1>5
  DEF MatchInv, AcceptsOnlyMatches, RejectsOnlyMismatches, Backtrack

LEMMA MismatchStep ==
  ASSUME MatchInv, Mismatch
  PROVE  MatchInv'
<1>1. TypeOK /\ verdict = "none" /\ StillPossible /\ t < Len(text)
  BY DEF MatchInv, Mismatch, TextLeft
<1>2. ~RestMatches(p, t)
  BY <1>1, StuckRest DEF Mismatch
<1>3. StarFree(text) => ~Matches(pattern, text)
  BY <1>1, <1>2 DEF StillPossible, Mismatch
<1>4. TypeOK'
  BY <1>1 DEF TypeOK, Mismatch
<1> QED
  BY <1>3, <1>4
  DEF MatchInv, AcceptsOnlyMatches, RejectsOnlyMismatches, Mismatch

LEMMA SkipTrailingStarStep ==
  ASSUME MatchInv, SkipTrailingStar
  PROVE  MatchInv'
<1>1. TypeOK /\ Len(pattern) \in Nat /\ Len(text) \in Nat
      /\ p \in Nat /\ t = Len(text) /\ p < Len(pattern)
  BY DEF MatchInv, TypeOK, SkipTrailingStar, TextDone, AtStar, PatternLeft
<1>2. TypeOK' /\ (star_p # npos => star_p < p)'
  BY <1>1 DEF MatchInv, TypeOK, SkipTrailingStar, npos
<1>3. verdict = "none" /\ Walked /\ StillPossible /\ pattern[p + 1] = Star
  BY DEF MatchInv, SkipTrailingStar, TextDone, AtStar
<1>4. Walked'
  <2>1. Piece(pattern, text, p + 1, t, t)
    BY <1>1, <1>3 DEF Piece
  <2>2. PrefixMatches(pattern, text, p + 1, t)
    BY <1>1, <1>3, <2>1, ExtendPrefix DEF Walked
  <2> QED
    BY <1>1, <1>3, <2>2 DEF Walked, SkipTrailingStar, TypeOK, npos
<1>5. StillPossible'
  <2> SUFFICES ASSUME StarFree(text), Matches(pattern, text)
               PROVE  RestMatches(p + 1, t)
    BY DEF StillPossible, SkipTrailingStar, RestMatches, CutsRest
  <2>1. PICK cut : CutsRest(cut, p) /\ cut[p] = t
    BY <1>1, <1>3 DEF StillPossible, RestMatches
  <2>2. Piece(pattern, text, p + 1, cut[p], cut[p + 1])
    <3>1. p + 1 \in p + 1 .. Len(pattern) /\ (p + 1) - 1 = p
      BY <1>1
    <3> QED  BY <2>1, <3>1 DEF CutsRest
  <2>3. cut[p + 1] \in 0 .. Len(text)
    BY <1>1, <2>1 DEF CutsRest
  <2>4. cut[p + 1] = t
    BY <1>1, <1>3, <2>1, <2>2, <2>3 DEF Piece
  <2>5. PICK rest : CutsRest(rest, p + 1) /\ rest[p + 1] = cut[p + 1]
    <3>1. p \in 0 .. Len(pattern) /\ p + 1 \in p .. Len(pattern)
          /\ p + 1 \in p + 1 .. Len(pattern)
      BY <1>1
    <3> QED  BY <1>1, <2>1, <3>1, CutShorter
  <2> QED  BY <2>4, <2>5 DEF RestMatches
<1> QED
  BY <1>2, <1>3, <1>4, <1>5
  DEF MatchInv, AcceptsOnlyMatches, RejectsOnlyMismatches, SkipTrailingStar

LEMMA FinishStep ==
  ASSUME MatchInv, Finish
  PROVE  MatchInv'
<1>1. TypeOK /\ Len(pattern) \in Nat /\ Len(text) \in Nat
      /\ p \in 0 .. Len(pattern) /\ t = Len(text)
  BY DEF MatchInv, TypeOK, Finish, TextDone
<1>2. Walked /\ StillPossible
  BY DEF MatchInv, Finish, TextDone
<1>3. p = Len(pattern) => Matches(pattern, text)
  BY <1>1, <1>2 DEF Walked, Matches
<1>4. ASSUME p # Len(pattern), StarFree(text)
      PROVE  ~Matches(pattern, text)
  <2> SUFFICES ASSUME Matches(pattern, text) PROVE FALSE
    OBVIOUS
  <2>1. PICK cut : CutsRest(cut, p) /\ cut[p] = t
    BY <1>1, <1>2, <1>4 DEF StillPossible, RestMatches
  <2>2. Piece(pattern, text, p + 1, cut[p], cut[p + 1])
    <3>1. p + 1 \in p + 1 .. Len(pattern) /\ (p + 1) - 1 = p
      BY <1>1, <1>4
    <3> QED  BY <2>1, <3>1 DEF CutsRest
  <2>3. cut[p + 1] \in 0 .. Len(text)
    BY <1>1, <1>4, <2>1 DEF CutsRest
  <2>4. pattern[p + 1] # Star
    BY <1>1, <1>4 DEF Finish, AtStar, PatternLeft
  <2> QED  BY <1>1, <2>1, <2>2, <2>3, <2>4 DEF Piece
<1>5. TypeOK'
  BY <1>1 DEF TypeOK, Finish
<1> QED
  BY <1>3, <1>4, <1>5
  DEF MatchInv, AcceptsOnlyMatches, RejectsOnlyMismatches, Finish

LEMMA NextMatchInv == MatchInv /\ [Next]_vars => MatchInv'
<1> SUFFICES ASSUME MatchInv, [Next]_vars PROVE MatchInv'
  OBVIOUS
<1>1. CASE Consume           BY <1>1, ConsumeStep
<1>2. CASE MeetStar          BY <1>2, MeetStarStep
<1>3. CASE Backtrack         BY <1>3, BacktrackStep
<1>4. CASE Mismatch          BY <1>4, MismatchStep
<1>5. CASE SkipTrailingStar  BY <1>5, SkipTrailingStarStep
<1>6. CASE Finish            BY <1>6, FinishStep
<1>7. CASE UNCHANGED vars
  <2>1. TypeOK' /\ (star_p # npos => star_p < p)'
    BY <1>7 DEF MatchInv, TypeOK, vars
  <2>2. (verdict = "none" => Walked /\ StillPossible)'
    BY <1>7 DEF MatchInv, Walked, StillPossible, RestMatches, LaterMatch,
       CutsRest, vars
  <2> QED
    BY <1>7, <2>1, <2>2
    DEF MatchInv, AcceptsOnlyMatches, RejectsOnlyMismatches, vars
<1> QED
  BY <1>1, <1>2, <1>3, <1>4, <1>5, <1>6, <1>7 DEF Next, Returned

LEMMA MatchInvariant == Spec => []MatchInv
  BY InitMatchInv, NextMatchInv, PTL DEF Spec

-----------------------------------------------------------------------------
\* The two indices never leave the pattern and the name.
THEOREM IndicesInRange == Spec => []TypeOK
<1>1. MatchInv => TypeOK
  BY DEF MatchInv
<1> QED  BY <1>1, MatchInvariant, PTL

\* Nothing is accepted that does not match, whatever the name holds.
THEOREM MatcherSound == Spec => []AcceptsOnlyMatches
<1>1. MatchInv => AcceptsOnlyMatches
  BY DEF MatchInv
<1> QED  BY <1>1, MatchInvariant, PTL

\* No match of a name without '*' is refused: reconsidering the last star only
\* is enough.
THEOREM MatcherComplete == Spec => []RejectsOnlyMismatches
<1>1. MatchInv => RejectsOnlyMismatches
  BY DEF MatchInv
<1> QED  BY <1>1, MatchInvariant, PTL
=============================================================================
