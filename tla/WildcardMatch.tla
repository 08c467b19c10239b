--------------------------- MODULE WildcardMatch ---------------------------
(***************************************************************************)
(* wildcard_match of pcd_playlist.cpp: the matcher of pcd_glob against the *)
(* file names of pcd_directory.  It walks pattern and text with two        *)
(* indices and comes back to the last '*' when they disagree.  Each turn   *)
(* of its loops is a step; the indices count from 0, as in the code.       *)
(***************************************************************************)
EXTENDS Integers, Sequences

CONSTANTS
  Chars,        \* the characters of patterns and file names
  Star,         \* '*'
  AnyChar,      \* '?'
  Patterns,     \* the patterns tried
  Texts         \* the file names tried

ASSUME WildcardAssumption ==
  /\ Star # AnyChar
  /\ Patterns \subseteq Seq(Chars)
  /\ Texts \subseteq Seq(Chars)

VARIABLES pattern, text, p, t, star_p, star_t, verdict

vars == <<pattern, text, p, t, star_p, star_t, verdict>>

npos == -1

Init ==
  /\ pattern \in Patterns
  /\ text \in Texts
  /\ p = 0 /\ t = 0
  /\ star_p = npos /\ star_t = 0
  /\ verdict = "none"

TextLeft == verdict = "none" /\ t < Len(text)
PatternLeft == p < Len(pattern)
Consumes == PatternLeft /\ pattern[p + 1] \in {AnyChar, text[t + 1]}
AtStar == PatternLeft /\ pattern[p + 1] = Star

Consume ==
  /\ TextLeft
  /\ Consumes
  /\ p' = p + 1
  /\ t' = t + 1
  /\ UNCHANGED <<pattern, text, star_p, star_t, verdict>>

\* Slip: the star takes one character before it is met again.
StarTakesOne ==
  /\ TextLeft
  /\ ~Consumes /\ AtStar
  /\ star_p' = p
  /\ star_t' = t + 1
  /\ p' = p + 1
  /\ UNCHANGED <<pattern, text, t, verdict>>

MeetStar ==
  /\ TextLeft
  /\ ~Consumes /\ AtStar
  /\ star_p' = p
  /\ star_t' = t
  /\ p' = p + 1
  /\ UNCHANGED <<pattern, text, t, verdict>>

\* Slip: the text goes on from where it failed, not from the star's place.
BacktrackPatternOnly ==
  /\ TextLeft
  /\ ~Consumes /\ ~AtStar
  /\ star_p # npos
  /\ p' = star_p + 1
  /\ t' = t + 1
  /\ star_t' = t + 1
  /\ UNCHANGED <<pattern, text, star_p, verdict>>

\* Slip: the star's place in the text is not moved on.
BacktrackInPlace ==
  /\ TextLeft
  /\ ~Consumes /\ ~AtStar
  /\ star_p # npos
  /\ p' = star_p + 1
  /\ t' = star_t + 1
  /\ UNCHANGED <<pattern, text, star_p, star_t, verdict>>

\* The last star takes one more character.
Backtrack ==
  /\ TextLeft
  /\ ~Consumes /\ ~AtStar
  /\ star_p # npos
  /\ p' = star_p + 1
  /\ t' = star_t + 1
  /\ star_t' = star_t + 1
  /\ UNCHANGED <<pattern, text, star_p, verdict>>

Mismatch ==
  /\ TextLeft
  /\ ~Consumes /\ ~AtStar
  /\ star_p = npos
  /\ verdict' = "no"
  /\ UNCHANGED <<pattern, text, p, t, star_p, star_t>>

TextDone == verdict = "none" /\ t >= Len(text)

SkipTrailingStar ==
  /\ TextDone
  /\ AtStar
  /\ p' = p + 1
  /\ UNCHANGED <<pattern, text, t, star_p, star_t, verdict>>

\* Slip: the rest of the pattern is not looked at.
FinishAtTextEnd ==
  /\ TextDone
  /\ ~AtStar
  /\ verdict' = "yes"
  /\ UNCHANGED <<pattern, text, p, t, star_p, star_t>>

Finish ==
  /\ TextDone
  /\ ~AtStar
  /\ verdict' = IF p = Len(pattern) THEN "yes" ELSE "no"
  /\ UNCHANGED <<pattern, text, p, t, star_p, star_t>>

Returned == verdict # "none" /\ UNCHANGED vars

Next ==
  \/ Consume \/ MeetStar \/ Backtrack \/ Mismatch
  \/ SkipTrailingStar \/ Finish
  \/ Returned

Spec == Init /\ [][Next]_vars

FairSpec == Spec /\ WF_vars(Next)

-----------------------------------------------------------------------------
(***************************************************************************)
(* What a match is, without an algorithm: the text can be cut into one     *)
(* piece per character of the pattern.                                     *)
(***************************************************************************)
Piece(pat, txt, i, from, to) ==
  IF pat[i] = Star
  THEN from <= to
  ELSE to = from + 1 /\ pat[i] \in {AnyChar, txt[to]}

\* The first m characters of the pattern match the first n of the text.
PrefixMatches(pat, txt, m, n) ==
  \E cut \in [0 .. m -> 0 .. n] :
    /\ cut[0] = 0
    /\ cut[m] = n
    /\ \A i \in 1 .. m : Piece(pat, txt, i, cut[i - 1], cut[i])

Matches(pat, txt) == PrefixMatches(pat, txt, Len(pat), Len(txt))

StarFree(txt) == \A i \in DOMAIN txt : txt[i] # Star

-----------------------------------------------------------------------------
TypeOK ==
  /\ pattern \in Seq(Chars)
  /\ text \in Seq(Chars)
  /\ p \in 0 .. Len(pattern)
  /\ t \in 0 .. Len(text)
  /\ star_p \in npos .. Len(pattern) - 1
  /\ star_t \in 0 .. t
  /\ verdict \in {"none", "yes", "no"}

\* What the matcher accepts does match: '*' stands for any characters, '?' for
\* one, every other character for itself, and nothing is left over.
AcceptsOnlyMatches == verdict = "yes" => Matches(pattern, text)

\* And every match of a name without '*' is accepted, although only the last
\* star is ever reconsidered.
RejectsOnlyMismatches ==
  verdict = "no" /\ StarFree(text) => ~Matches(pattern, text)

\* The header, of any name: "`*` (any number of characters, including zero)".
StarMatchesAnything == verdict = "no" => ~Matches(pattern, text)

\* The matcher returns, for every pattern and name.
Terminates == <>(verdict # "none")
=============================================================================
