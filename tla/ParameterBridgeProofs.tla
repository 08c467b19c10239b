------------------------ MODULE ParameterBridgeProofs ------------------------
(***************************************************************************)
(* For any number of requests, every body and every detector behind the    *)
(* bridge: what ParameterBridge promises of its answers, and the           *)
(* detector's own promise about its settings when they come through it.    *)
(***************************************************************************)
EXTENDS ParameterBridge, VehicleDetectorProofs

-----------------------------------------------------------------------------
(***************************************************************************)
(* The inductive invariant                                                 *)
(***************************************************************************)

\* Where the handler waits that has sent a call.
PhaseOf(kind, r) ==
  IF kind = "describe" /\ IsGet(r) THEN "describe_get" ELSE kind

\* The names a handler may send: keys of its own body, none of them twice,
\* that the detector declares and whose values convert.
Settable(r, names) ==
  /\ IsInjective(names)
  /\ \A i \in DOMAIN names :
       /\ names[i] \in DOMAIN body[r].values
       /\ Convertible(body[r].values[names[i]], Type(names[i]))

\* How far set_parameters is with the names of a request: what is done, with
\* what success, and what is still to do are the names it sent, in their order.
Progress(r, todo, done) ==
  /\ done \in Seq(BOOLEAN)
  /\ Len(done) + Len(todo) = Len(to_set[r])
  /\ \A i \in DOMAIN todo : todo[i] = Assignment(r, to_set[r][Len(done) + i])
  /\ applied[r] =
       {Assignment(r, to_set[r][i]) : i \in {j \in DOMAIN done : done[j] = TRUE}}

\* Somebody waits for a call that is under way, or its handler has given up; one
\* that gave up on set_parameters said so.
CallOK(c) ==
  \/ /\ phase[c.req] = PhaseOf(c.kind, c.req)
     /\ future[c.req] = "pending"
     /\ c.kind = "set" => Progress(c.req, c.todo, c.done)
  \/ /\ phase[c.req] = "answered"
     /\ c.kind = "set" => answer[c.req].status = 504 /\ answer[c.req].during = "set"

UnderWay == ToSet(calls) \cup ({call} \ {NoCall})

CallsOK == \A c \in UnderWay : CallOK(c)

\* A handler calls one service after the other.
OneCall ==
  /\ \A i, j \in DOMAIN calls : calls[i].req = calls[j].req => i = j
  /\ \A i \in DOMAIN calls : calls[i].req # call.req

\* What a handler knows where it is.
HandlerOK(r) ==
  /\ phase[r] = "wait_service" => body[r].kind \in {"updates", "get"}
  /\ phase[r] \in {"list", "get", "describe_get"} => IsGet(r)
  /\ phase[r] \in {"describe", "set"} => body[r].kind = "updates"
  /\ phase[r] \notin {"set", "answered"} => applied[r] = {}
  /\ phase[r] # "answered" => answer[r] = NoAnswer
  /\ (phase[r] = "describe" /\ future[r] = "ready") =>
       DOMAIN reply[r] = {} \/ DOMAIN body[r].values \cap Undeclared = {}
  /\ phase[r] = "set" => Settable(r, to_set[r])
  /\ (phase[r] = "set" /\ future[r] = "ready") => Progress(r, <<>>, reply[r])

\* The halves of AnswersTruthful and ErrorsSetNothing about one request.
Truthful(r) ==
  LET set == {a[1] : a \in applied[r]}
  IN  /\ answer[r].updated = set
      /\ answer[r].rejected = DOMAIN body[r].values \ set
      /\ \A a \in applied[r] : AsAsked(body[r].values[a[1]], a[2], Type(a[1]))

AnswerOK(r) ==
  /\ (answer[r].status = 200 /\ ~IsGet(r)) => Truthful(r)
  /\ (/\ answer[r].status \notin {0, 200}
      /\ ~(answer[r].status = 504 /\ answer[r].during = "set")) => applied[r] = {}

BridgeInv ==
  /\ TypeOK
  /\ Inv
  /\ CallsOK
  /\ OneCall
  /\ \A r \in Requests : HandlerOK(r) /\ AnswerOK(r)

-----------------------------------------------------------------------------
(***************************************************************************)
(* Names and values                                                        *)
(***************************************************************************)

\* A function from 1 .. n is a sequence.
LEMMA SeqDef ==
  ASSUME NEW T, NEW n \in Nat, NEW s \in [1 .. n -> T]
  PROVE  s \in Seq(T)
OBVIOUS

\* Among finitely many positions there is one of each rank.
LEMMA EachRank ==
  ASSUME NEW S, S \subseteq Nat, IsFiniteSet(S), NEW k \in 1 .. Cardinality(S)
  PROVE  \E i \in S : Cardinality({j \in S : j <= i}) = k
<1> DEFINE n == Cardinality(S)
           UpTo(x) == {y \in S : y <= x}
           rank == [x \in S |-> Cardinality(UpTo(x))]
<1>1. n \in Nat
  BY FS_CardinalityType
<1>2. \A x \in S : IsFiniteSet(UpTo(x)) /\ Cardinality(UpTo(x)) \in 1 .. n
  <2> TAKE x \in S
  <2>1. IsFiniteSet(UpTo(x)) /\ Cardinality(UpTo(x)) <= n
    BY FS_Subset
  <2>2. Cardinality(UpTo(x)) \in Nat
    BY <2>1, FS_CardinalityType
  <2>3. UpTo(x) # {}
    BY SMT
  <2>4. Cardinality(UpTo(x)) # 0
    BY <2>1, <2>3, FS_EmptySet
  <2> QED
    BY <1>1, <2>1, <2>2, <2>4
<1>3. \A x, y \in S : x < y => Cardinality(UpTo(x)) < Cardinality(UpTo(y))
  <2> TAKE x, y \in S
  <2> HAVE x < y
  <2>0. x \in Nat /\ y \in Nat /\ x <= y /\ y <= y /\ ~(y <= x)
    OBVIOUS
  <2>1. UpTo(x) \subseteq UpTo(y) /\ y \in UpTo(y) /\ y \notin UpTo(x)
    <3>1. \A z \in S : z <= x => z <= y
      BY <2>0
    <3> QED
      BY <2>0, <3>1
  <2>2. Cardinality(UpTo(x)) <= Cardinality(UpTo(y))
    BY <1>2, <2>1, FS_Subset
  <2>3. Cardinality(UpTo(x)) # Cardinality(UpTo(y))
    BY <1>2, <2>1, FS_Subset
  <2> QED
    BY <1>1, <1>2, <2>2, <2>3
<1> HIDE DEF n, UpTo
<1>4. rank \in Injection(S, 1 .. n)
  BY <1>1, <1>2, <1>3 DEF Injection, IsInjective
<1>5. rank \in Surjection(S, 1 .. n)
  <2>1. IsFiniteSet(1 .. n) /\ Cardinality(1 .. n) = n
    BY <1>1, FS_Interval
  <2> QED
    BY <1>4, <2>1, FS_Injection DEF n
<1>6. PICK i \in S : rank[i] = k
  BY <1>5 DEF Surjection, n
<1> QED
  BY <1>6 DEF UpTo

\* Names in the order of NameOrder: some of those asked for, none of them twice.
LEMMA InOrderEnumerates ==
  ASSUME NEW names, names \subseteq AllNames
  PROVE  /\ InOrder[names] \in Seq(names)
         /\ IsInjective(InOrder[names])
<1> DEFINE at == {i \in DOMAIN NameOrder : NameOrder[i] \in names}
           Rank(i) == Cardinality({j \in at : j <= i})
           Nth(k) == CHOOSE i \in at : Rank(i) = k
           n == Cardinality(at)
           order == [k \in 1 .. n |-> NameOrder[Nth(k)]]
<1>1. InOrder[names] = order
  BY DEF InOrder
<1>2. at \subseteq Nat /\ at \subseteq 1 .. Len(NameOrder) /\ IsFiniteSet(at)
  <2>1. NameOrder \in Seq(AllNames)
    BY BridgeAssumption
  <2>2. Len(NameOrder) \in Nat /\ DOMAIN NameOrder = 1 .. Len(NameOrder)
    BY <2>1
  <2>3. IsFiniteSet(1 .. Len(NameOrder))
    BY <2>2, FS_Interval
  <2> QED
    BY <2>2, <2>3, FS_Subset
<1>3. n \in Nat
  BY <1>2, FS_CardinalityType
<1>4. \A k \in 1 .. n : Nth(k) \in at /\ Rank(Nth(k)) = k
  <2> TAKE k \in 1 .. n
  <2> HIDE DEF at
  <2>1. \E i \in at : Rank(i) = k
    BY <1>2, EachRank
  <2> HIDE DEF Rank
  <2> QED
    BY <2>1
<1>5. \A i \in at : i \in DOMAIN NameOrder /\ NameOrder[i] \in names
  OBVIOUS
<1>6. \A i, j \in DOMAIN NameOrder : NameOrder[i] = NameOrder[j] => i = j
  BY BridgeAssumption DEF IsInjective
<1> HIDE DEF at, Nth, Rank
<1>7. order \in [1 .. n -> names]
  BY <1>4, <1>5
<1>8. IsInjective(order)
  <2> SUFFICES ASSUME NEW i \in 1 .. n, NEW j \in 1 .. n, order[i] = order[j]
               PROVE  i = j
    BY DEF IsInjective
  <2>1. NameOrder[Nth(i)] = NameOrder[Nth(j)]
    OBVIOUS
  <2>2. Nth(i) = Nth(j)
    BY <1>4, <1>5, <1>6, <2>1
  <2> QED
    BY <1>4, <2>2
<1> HIDE DEF order
<1> QED
  BY <1>1, <1>3, <1>7, <1>8, SeqDef

\* The descriptors have three types, none of them an array.
LEMMA ScalarType ==
  ASSUME NEW name
  PROVE  Type(name) \in {"double", "integer", "string"} /\ Type(name) \notin DOMAIN ElementType
BY DEF Type, ElementType

\* What a whole multiple of One is divided by One comes back when multiplied.
LEMMA DivTimes ==
  ASSUME NEW d \in Nat \ {0}, NEW a \in Int
  PROVE  (a * d) \div d = a
OBVIOUS

LEMMA TimesDiv ==
  ASSUME NEW d \in Nat \ {0}, NEW a \in Int, a % d = 0
  PROVE  (a \div d) * d = a
OBVIOUS

\* A value that converts becomes the number or the text that was asked for.
LEMMA ConvertedAsAsked ==
  ASSUME NEW b \in Bodies, NEW name \in DOMAIN b, Convertible(b[name], Type(name))
  PROVE  AsAsked(b[name], Converted(b[name], Type(name)), Type(name))
<1> DEFINE raw == b[name]
<1>0. Converted(raw, Type(name)) = ScalarConverted(raw, Type(name))
  BY ScalarType DEF Converted
<1>1. CASE Type(name) = "double"
  BY <1>0, <1>1 DEF AsAsked, ScalarConverted
<1>2. CASE Type(name) = "string"
  BY <1>0, <1>2 DEF AsAsked, ScalarConverted
<1>3. CASE Type(name) = "integer"
  <2>1. One \in Nat \ {0} /\ One \in Int
    BY BridgeAssumption
  <2>2. IsNumber(raw) => Content(raw) \in Int
    BY BridgeAssumption
  <2>3. IsInt64(raw)
    BY <1>3, ScalarType DEF Convertible, ScalarConvertible
  <2>4. (ToDouble(raw) \div One) * One = ToDouble(raw)
    <3>1. CASE IsBool(raw)
      <4>1. ToDouble(raw) = 1 * One \/ ToDouble(raw) = 0 * One
        BY <2>1, <3>1 DEF ToDouble
      <4> QED
        BY <2>1, <4>1, DivTimes
    <3>2. CASE Kind(raw) = "float"
      <4>1. ToDouble(raw) = Content(raw)
        BY <3>2 DEF ToDouble, IsBool
      <4>2. Content(raw) % One = 0 /\ Content(raw) \in Int
        BY <2>2, <2>3, <3>2 DEF IsInt64, IsBool, IsNumber
      <4> QED
        BY <2>1, <4>1, <4>2, TimesDiv
    <3>3. CASE Kind(raw) \in {"unsigned", "integer"}
      <4>1. ToDouble(raw) = Content(raw) * One
        BY <3>3 DEF ToDouble, IsBool
      <4>2. Content(raw) \in Int
        BY <2>2, <3>3 DEF IsNumber
      <4> QED
        BY <2>1, <4>1, <4>2, DivTimes
    <3> QED
      BY <2>3, <3>1, <3>2, <3>3 DEF IsInt64
  <2> QED
    BY <1>0, <1>3, <2>4 DEF AsAsked, ScalarConverted
<1> QED
  BY <1>1, <1>2, <1>3, ScalarType

\* The sequence without its i-th element.
LEMMA Removed ==
  ASSUME NEW T, NEW s \in Seq(T), NEW i \in DOMAIN s
  PROVE  /\ RemoveAt(s, i) \in Seq(T)
         /\ DOMAIN RemoveAt(s, i) = 1 .. Len(s) - 1
         /\ \A j \in DOMAIN RemoveAt(s, i) :
              RemoveAt(s, i)[j] = IF j < i THEN s[j] ELSE s[j + 1]
<1>1. Len(s) \in Nat /\ i \in 1 .. Len(s)
  OBVIOUS
<1> DEFINE before == SubSeq(s, 1, i - 1)
           after == SubSeq(s, i + 1, Len(s))
<1>2. before \in Seq(T) /\ Len(before) = i - 1 /\ \A j \in 1 .. i - 1 : before[j] = s[j]
  BY <1>1
<1>3. /\ after \in Seq(T) /\ Len(after) = Len(s) - i
      /\ \A j \in 1 .. Len(s) - i : after[j] = s[i + j]
  BY <1>1
<1>0. RemoveAt(s, i) = before \o after
  BY DEF RemoveAt
<1> HIDE DEF before, after
<1>4. /\ before \o after \in Seq(T) /\ Len(before \o after) = Len(s) - 1
      /\ \A j \in 1 .. Len(s) - 1 :
           (before \o after)[j] = IF j < i THEN before[j] ELSE after[j - (i - 1)]
  BY <1>1, <1>2, <1>3
<1>5. \A j \in 1 .. Len(s) - 1 : (before \o after)[j] = IF j < i THEN s[j] ELSE s[j + 1]
  <2> TAKE j \in 1 .. Len(s) - 1
  <2>1. CASE j < i
    BY <1>1, <1>2, <1>4, <2>1
  <2>2. CASE ~(j < i)
    <3>1. j - (i - 1) \in 1 .. Len(s) - i /\ i + (j - (i - 1)) = j + 1
      BY <1>1, <2>2
    <3>2. (before \o after)[j] = after[j - (i - 1)]
      BY <1>4, <2>2
    <3>3. after[j - (i - 1)] = s[i + (j - (i - 1))]
      BY <1>3, <3>1
    <3> QED
      BY <2>2, <3>1, <3>2, <3>3
  <2> QED
    BY <2>1, <2>2
<1>6. DOMAIN (before \o after) = 1 .. Len(s) - 1
  BY <1>4
<1> QED
  BY <1>0, <1>4, <1>5, <1>6

\* A POST of updates carries one of the bodies.
LEMMA UpdatesBody ==
  ASSUME TypeOK, NEW r \in Requests, body[r].kind = "updates"
  PROVE  body[r].values \in Bodies
<1>1. body[r] \in Contents \cup {NoBody}
  BY DEF TypeOK
<1>2. body[r] # NoBody
  BY DEF NoBody
<1>3. CASE \E b \in Bodies : body[r] = [kind |-> "updates", values |-> b]
  BY <1>3
<1>4. CASE \E k \in {"get", "malformed", "other_node"} :
             body[r] = [kind |-> k, values |-> <<>>]
  BY <1>4
<1> QED
  BY <1>1, <1>2, <1>3, <1>4 DEF Contents

\* What is sent are values the detector can be asked to set.
LEMMA SettingsSent ==
  ASSUME TypeOK, NEW r \in Requests, body[r].kind = "updates",
         NEW names \in Seq(ParameterNames), Settable(r, names)
  PROVE  Assignments(r, names) \in Seq(Settings)
<1> DEFINE sent == Assignments(r, names)
<1>1. body[r].values \in Bodies
  BY UpdatesBody
<1>2. \A i \in DOMAIN names : Assignment(r, names[i]) \in Settings
  <2> TAKE i \in DOMAIN names
  <2>1. /\ names[i] \in ParameterNames /\ names[i] \in DOMAIN body[r].values
        /\ Convertible(body[r].values[names[i]], Type(names[i]))
    BY DEF Settable
  <2>2. Converted(body[r].values[names[i]], Type(names[i])) \in ValuesOf(names[i])
    BY <1>1, <2>1, BridgeAssumption
  <2> QED
    BY <2>1, <2>2 DEF Assignment, Settings
<1>3. Len(names) \in Nat /\ DOMAIN names = 1 .. Len(names)
  OBVIOUS
<1>4. sent \in [1 .. Len(names) -> Settings]
  BY <1>2, <1>3 DEF Assignments
<1> HIDE DEF sent
<1> QED
  BY <1>3, <1>4, SeqDef DEF sent

\* The truth of an answer: what was set are the values asked for.
LEMMA AssignmentsAsAsked ==
  ASSUME TypeOK, NEW r \in Requests, body[r].kind = "updates", Settable(r, to_set[r]),
         Progress(r, <<>>, reply[r])
  PROVE  /\ Results(r, TRUE) = {a[1] : a \in applied[r]}
         /\ (DOMAIN body[r].values \ ToSet(to_set[r])) \cup Results(r, FALSE)
              = DOMAIN body[r].values \ Results(r, TRUE)
         /\ \A a \in applied[r] : AsAsked(body[r].values[a[1]], a[2], Type(a[1]))
<1> DEFINE names == to_set[r]
<1>1. /\ names \in Seq(ParameterNames) /\ body[r].values \in Bodies
  BY UpdatesBody DEF TypeOK
<1>2. /\ reply[r] \in Seq(BOOLEAN) /\ Len(reply[r]) = Len(names)
      /\ applied[r] =
           {Assignment(r, names[i]) : i \in {j \in DOMAIN reply[r] : reply[r][j] = TRUE}}
  BY <1>1 DEF Progress
<1>3. DOMAIN reply[r] = DOMAIN names
  BY <1>1, <1>2
<1>4. \A i \in DOMAIN names : Assignment(r, names[i])[1] = names[i]
  BY DEF Assignment
<1>5. Results(r, TRUE) = {a[1] : a \in applied[r]}
  BY <1>2, <1>3, <1>4 DEF Results
<1>6. (DOMAIN body[r].values \ ToSet(names)) \cup Results(r, FALSE)
        = DOMAIN body[r].values \ Results(r, TRUE)
  <2>1. \A i \in DOMAIN names : reply[r][i] = TRUE \/ reply[r][i] = FALSE
    BY <1>2, <1>3
  <2>2. \A i, j \in DOMAIN names : names[i] = names[j] => i = j
    BY DEF Settable, IsInjective
  <2>3. ToSet(names) \subseteq DOMAIN body[r].values
    BY DEF Settable, ToSet
  <2>4. ToSet(names) = Results(r, TRUE) \cup Results(r, FALSE)
    BY <1>3, <2>1 DEF ToSet, Results
  <2>5. Results(r, TRUE) \cap Results(r, FALSE) = {}
    BY <1>3, <2>2 DEF Results
  <2> QED
    BY <2>3, <2>4, <2>5
<1>7. \A a \in applied[r] : AsAsked(body[r].values[a[1]], a[2], Type(a[1]))
  <2> TAKE a \in applied[r]
  <2>1. PICK i \in DOMAIN names : a = Assignment(r, names[i])
    BY <1>2, <1>3
  <2>2. /\ names[i] \in DOMAIN body[r].values
        /\ Convertible(body[r].values[names[i]], Type(names[i]))
    BY DEF Settable
  <2>3. a[1] = names[i] /\ a[2] = Converted(body[r].values[names[i]], Type(names[i]))
    BY <2>1 DEF Assignment
  <2> QED
    BY <1>1, <2>2, <2>3, ConvertedAsAsked
<1> QED
  BY <1>5, <1>6, <1>7

-----------------------------------------------------------------------------
(***************************************************************************)
(* Handlers                                                                *)
(***************************************************************************)

\* A call of a handler that is not waiting is one that nobody waits for.
LEMMA NoneUnderWay ==
  ASSUME BridgeInv, NEW r \in Requests, phase[r] # "answered", future[r] # "pending"
  PROVE  /\ \A i \in DOMAIN calls : calls[i].req # r
         /\ call.req # r
<1>1. \A c \in UnderWay : c.req # r
  BY DEF BridgeInv, CallsOK, CallOK
<1>2. NoCall.req # r
  BY BridgeAssumption DEF NoCall, Requests
<1> QED
  BY <1>1, <1>2 DEF UnderWay, ToSet

\* What does not concern the detector does not disturb it.
LEMMA DetectorKept == Inv /\ UNCHANGED detectorVars => Inv'
<1> SUFFICES ASSUME Inv, UNCHANGED detectorVars PROVE Inv'
  OBVIOUS
<1> QED
  BY DEF detectorVars, settingVars, frameVars, outputVars, Inv, DetectorTypeOK,
     SettingsAccepted, FrameHalfShown, BoxesMatchDetections, FrameComplete

\* All requests but one are as they were.
OthersKept(r) ==
  \A q \in Requests \ {r} :
    /\ phase'[q] = phase[q] /\ answer'[q] = answer[q] /\ future'[q] = future[q]
    /\ reply'[q] = reply[q] /\ to_set'[q] = to_set[q] /\ body'[q] = body[q]
    /\ applied'[q] = applied[q]

LEMMA ProgressKept ==
  ASSUME NEW q, to_set'[q] = to_set[q], body'[q] = body[q], applied'[q] = applied[q],
         NEW todo, NEW done
  PROVE  Progress(q, todo, done)' <=> Progress(q, todo, done)
<1> DEFINE names == to_set[q]
           set == {Assignment(q, names[i]) : i \in {j \in DOMAIN done : done[j] = TRUE}}
<1>1. /\ names' = names /\ body'[q] = body[q] /\ applied'[q] = applied[q]
  OBVIOUS
<1>2. set' = set
  BY <1>1 DEF Assignment
<1>3. \A i \in DOMAIN todo :
        Assignment(q, names[Len(done) + i])' = Assignment(q, names[Len(done) + i])
  BY <1>1 DEF Assignment
<1>4. Progress(q, todo, done) <=>
        /\ done \in Seq(BOOLEAN) /\ Len(done) + Len(todo) = Len(names)
        /\ \A i \in DOMAIN todo : todo[i] = Assignment(q, names[Len(done) + i])
        /\ applied[q] = set
  BY DEF Progress
<1>5. Progress(q, todo, done)' <=>
        /\ done \in Seq(BOOLEAN) /\ Len(done) + Len(todo) = Len(names')
        /\ \A i \in DOMAIN todo : todo[i] = Assignment(q, names[Len(done) + i])'
        /\ applied'[q] = set'
  BY DEF Progress
<1> HIDE DEF set
<1> QED
  BY <1>1, <1>2, <1>3, <1>4, <1>5

\* So are their calls and what they know.
LEMMA OtherCallKept ==
  ASSUME NEW r, OthersKept(r), NEW c, c.req \in Requests \ {r}, CallOK(c)
  PROVE  CallOK(c)'
<1>1. Progress(c.req, c.todo, c.done)' <=> Progress(c.req, c.todo, c.done)
  BY ProgressKept DEF OthersKept
<1> QED
  BY <1>1 DEF OthersKept, CallOK, PhaseOf, IsGet

LEMMA OtherHandlerKept ==
  ASSUME NEW r, OthersKept(r), NEW q \in Requests \ {r}, HandlerOK(q), AnswerOK(q)
  PROVE  HandlerOK(q)' /\ AnswerOK(q)'
<1>1. /\ phase'[q] = phase[q] /\ answer'[q] = answer[q] /\ future'[q] = future[q]
      /\ reply'[q] = reply[q] /\ to_set'[q] = to_set[q] /\ body'[q] = body[q]
      /\ applied'[q] = applied[q]
  BY DEF OthersKept
<1>2. Progress(q, <<>>, reply[q])' <=> Progress(q, <<>>, reply[q])
  <2> DEFINE names == to_set[q]
             done == reply[q]
             set == {Assignment(q, names[i]) : i \in {j \in DOMAIN done : done[j] = TRUE}}
  <2>1. set' = set
    BY <1>1 DEF Assignment
  <2>2. Progress(q, <<>>, reply[q]) <=>
          /\ done \in Seq(BOOLEAN) /\ Len(done) + Len(<<>>) = Len(names)
          /\ \A i \in DOMAIN <<>> : <<>>[i] = Assignment(q, names[Len(done) + i])
          /\ applied[q] = set
    BY DEF Progress
  <2>3. Progress(q, <<>>, reply[q])' <=>
          /\ done' \in Seq(BOOLEAN) /\ Len(done') + Len(<<>>) = Len(names')
          /\ \A i \in DOMAIN <<>> : <<>>[i] = Assignment(q, names[Len(done) + i])'
          /\ applied'[q] = set'
    BY DEF Progress
  <2>4. DOMAIN <<>> = {}
    OBVIOUS
  <2> HIDE DEF set
  <2> QED
    BY <1>1, <2>1, <2>2, <2>3, <2>4
<1>3. Settable(q, to_set[q])' <=> Settable(q, to_set[q])
  BY <1>1 DEF Settable
<1>4. HandlerOK(q)'
  BY <1>1, <1>2, <1>3 DEF HandlerOK, IsGet
<1>5. AnswerOK(q)'
  BY <1>1 DEF AnswerOK, Truthful, IsGet
<1> QED
  BY <1>4, <1>5

\* A handler that returns leaves the calls it does not wait for any more, and
\* an answer that is true of what has been set by then stays true.
LEMMA RespondStep ==
  ASSUME BridgeInv, NEW r \in Requests, phase[r] # "answered",
         NEW status, NEW updated, NEW rejected, NEW during,
         Answer(status, updated, rejected, during) \in Answers,
         Respond(r, status, updated, rejected, during),
         UNCHANGED othersVars,
         body' \in [Requests -> Contents \cup {NoBody}],
         \A q \in Requests \ {r} : body'[q] = body[q],
         (phase[r] = "set" /\ future[r] = "pending") =>
           status = 504 /\ during = "set",
         (status = 200 /\ body'[r].kind # "get") =>
           /\ updated = {a[1] : a \in applied[r]}
           /\ rejected = DOMAIN body'[r].values \ updated
           /\ \A a \in applied[r] : AsAsked(body'[r].values[a[1]], a[2], Type(a[1])),
         (status \notin {0, 200} /\ ~(status = 504 /\ during = "set")) => applied[r] = {}
  PROVE  BridgeInv'
<1> DEFINE its == Answer(status, updated, rejected, during)
<1>0. /\ its.status = status /\ its.updated = updated
      /\ its.rejected = rejected /\ its.during = during
  BY DEF Answer
<1>1. /\ phase' = [phase EXCEPT ![r] = "answered"] /\ answer' = [answer EXCEPT ![r] = its]
      /\ future' = [future EXCEPT ![r] = "none"]
      /\ reply' = [reply EXCEPT ![r] = <<>>] /\ to_set' = [to_set EXCEPT ![r] = <<>>]
      /\ UNCHANGED <<calls, call, applied, main, server, node>>
      /\ UNCHANGED detectorVars
  BY DEF Respond, othersVars, detectorVars
<1> HIDE DEF its
<1>2. TypeOK
  BY DEF BridgeInv
<1>3. /\ phase'[r] = "answered" /\ answer'[r] = its /\ future'[r] = "none"
      /\ OthersKept(r)
  BY <1>1, <1>2 DEF TypeOK, OthersKept
<1>4. Inv'
  BY <1>1, DetectorKept DEF BridgeInv
<1>5. TypeOK'
  <2>1. DetectorTypeOK'
    BY <1>4 DEF Inv
  <2>2. /\ phase' \in [Requests -> {"new", "wait_service", "answered"} \cup Waiting]
        /\ future' \in [Requests -> {"none", "pending", "ready"}]
        /\ answer' \in [Requests -> Answers] /\ DOMAIN reply' = Requests
        /\ to_set' \in [Requests -> Seq(ParameterNames)]
    BY <1>1, <1>2 DEF TypeOK, its
  <2>3. \A q \in Requests : future'[q] # "none" => phase'[q] \in Waiting
    BY <1>2, <1>3 DEF TypeOK, OthersKept
  <2> QED
    BY <1>1, <1>2, <2>1, <2>2, <2>3 DEF TypeOK
<1>6. CallsOK' /\ OneCall'
  <2>0. UnderWay' = UnderWay
    BY <1>1 DEF UnderWay, ToSet
  <2> SUFFICES ASSUME NEW c \in UnderWay PROVE CallOK(c)'
    BY <1>1, <2>0 DEF CallsOK, BridgeInv, OneCall
  <2>1. CallOK(c) /\ c.req \in Requests
    <3>1. c \in Calls
      BY <1>2 DEF UnderWay, ToSet, TypeOK
    <3> QED
      BY <3>1 DEF BridgeInv, CallsOK, Calls
  <2>2. CASE c.req = r
    <3>1. c.kind = "set" => status = 504 /\ during = "set"
      BY <2>1, <2>2 DEF CallOK, PhaseOf
    <3> QED
      BY <1>0, <1>3, <2>2, <3>1 DEF CallOK
  <2>3. CASE c.req # r
    BY <1>3, <2>1, <2>3, OtherCallKept
  <2> QED
    BY <2>2, <2>3
<1>7. ASSUME NEW q \in Requests
      PROVE  HandlerOK(q)' /\ AnswerOK(q)'
  <2>1. CASE q = r
    <3>1. HandlerOK(r)'
      BY <1>3 DEF HandlerOK
    <3>2. AnswerOK(r)'
      BY <1>0, <1>1, <1>3 DEF AnswerOK, Truthful, IsGet
    <3> QED
      BY <2>1, <3>1, <3>2
  <2>2. CASE q # r
    BY <1>3, <2>2, OtherHandlerKept DEF BridgeInv
  <2> QED
    BY <2>1, <2>2
<1> QED
  BY <1>4, <1>5, <1>6, <1>7 DEF BridgeInv

\* A handler that sends a call waits for no other, and the values it sends are
\* those of its own body.
LEMMA SendStep ==
  ASSUME BridgeInv, NEW r \in Requests,
         phase[r] \notin {"set", "answered"}, future[r] # "pending",
         NEW kind \in {"list", "get", "describe", "set"},
         NEW names \in Seq(ParameterNames),
         NEW where, where = PhaseOf(kind, r),
         Send(r, kind, names, where),
         UNCHANGED <<body, othersVars>>,
         kind \in {"list", "get"} => IsGet(r),
         kind = "describe" => body[r].kind \in {"updates", "get"},
         kind = "set" => body[r].kind = "updates" /\ Settable(r, names),
         kind # "set" => names = <<>>
  PROVE  BridgeInv'
<1> DEFINE new == [req |-> r, kind |-> kind, done |-> <<>>, todo |-> Assignments(r, names)]
<1>0. TypeOK /\ HandlerOK(r) /\ AnswerOK(r)
  BY DEF BridgeInv
<1>1. /\ calls' = Append(calls, new) /\ to_set' = [to_set EXCEPT ![r] = names]
      /\ future' = [future EXCEPT ![r] = "pending"]
      /\ phase' = [phase EXCEPT ![r] = where]
      /\ UNCHANGED <<reply, answer, body, call, applied, main, server, node>>
      /\ UNCHANGED detectorVars
  BY DEF Send, othersVars, detectorVars
<1>2. /\ applied[r] = {} /\ answer[r] = NoAnswer
      /\ where \in {"list", "get", "describe", "describe_get", "set"}
      /\ where = "set" <=> kind = "set"
  BY <1>0 DEF HandlerOK, PhaseOf
<1>3. /\ phase'[r] = where /\ future'[r] = "pending" /\ to_set'[r] = names
      /\ OthersKept(r)
  BY <1>0, <1>1 DEF TypeOK, OthersKept
<1>4. Assignments(r, names) \in Seq(Settings)
  <2>1. CASE kind = "set"
    BY <1>0, <2>1, SettingsSent
  <2>2. CASE kind # "set"
    <3>1. Assignments(r, names) \in [1 .. 0 -> Settings]
      BY <2>2 DEF Assignments
    <3> QED
      BY <3>1, SeqDef
  <2> QED
    BY <2>1, <2>2
<1>5. /\ new \in Calls
      /\ new.req = r /\ new.kind = kind /\ new.done = <<>>
      /\ new.todo = Assignments(r, names)
  BY <1>4 DEF Calls
<1> HIDE DEF new
<1>6. /\ calls \in Seq(Calls) /\ calls' \in Seq(Calls)
      /\ DOMAIN calls' = DOMAIN calls \cup {Len(calls) + 1}
      /\ \A i \in DOMAIN calls : calls'[i] = calls[i]
      /\ calls'[Len(calls) + 1] = new
      /\ Len(calls) + 1 \notin DOMAIN calls
  BY <1>0, <1>1, <1>5 DEF TypeOK
<1>7. Inv'
  BY <1>1, DetectorKept DEF BridgeInv
<1>8. TypeOK'
  <2>1. DetectorTypeOK'
    BY <1>7 DEF Inv
  <2>2. /\ phase' \in [Requests -> {"new", "wait_service", "answered"} \cup Waiting]
        /\ future' \in [Requests -> {"none", "pending", "ready"}]
        /\ to_set' \in [Requests -> Seq(ParameterNames)]
    BY <1>0, <1>1, <1>2 DEF TypeOK, Waiting
  <2>3. \A q \in Requests : future'[q] # "none" => phase'[q] \in Waiting
    BY <1>0, <1>2, <1>3 DEF TypeOK, OthersKept, Waiting
  <2> QED
    BY <1>0, <1>1, <1>6, <2>1, <2>2, <2>3 DEF TypeOK
<1>9. \A c \in UnderWay : c.req \in Requests \ {r}
  <2> TAKE c \in UnderWay
  <2>1. c \in Calls
    BY <1>0 DEF UnderWay, ToSet, TypeOK
  <2> QED
    BY <2>1, NoneUnderWay DEF UnderWay, ToSet, Calls
<1>10. ASSUME NEW c, c = new
       PROVE  CallOK(c)'
  <2>0. c.req = r /\ c.kind = kind /\ c.done = <<>> /\ c.todo = Assignments(r, names)
    BY <1>5, <1>10
  <2>1. kind = "set" => Progress(r, c.todo, c.done)'
    <3> HAVE kind = "set"
    <3>1. /\ Len(<<>>) = 0 /\ DOMAIN <<>> = {} /\ <<>> \in Seq(BOOLEAN)
          /\ Len(names) \in Nat /\ DOMAIN names = 1 .. Len(names)
      OBVIOUS
    <3>2. /\ DOMAIN Assignments(r, names) = DOMAIN names
          /\ Len(Assignments(r, names)) = Len(names)
          /\ \A i \in DOMAIN names : Assignments(r, names)[i] = Assignment(r, names[i])
      BY <3>1 DEF Assignments
    <3>3. body'[r] = body[r] /\ applied'[r] = {}
      BY <1>1, <1>2
    <3>4. /\ c.done = <<>> /\ DOMAIN c.todo = DOMAIN names /\ Len(c.todo) = Len(names)
          /\ \A i \in DOMAIN names : c.todo[i] = Assignment(r, names[i])
      BY <2>0, <3>2
    <3>5. \A i \in DOMAIN names : Assignment(r, names[i])' = Assignment(r, names[i])
      BY <3>3 DEF Assignment
    <3>6. \A i \in DOMAIN c.todo : c.todo[i] = Assignment(r, names[Len(c.done) + i])'
      BY <3>1, <3>4, <3>5
    <3> QED
      BY <1>3, <3>1, <3>3, <3>4, <3>6 DEF Progress
  <2> QED
    BY <1>1, <1>3, <2>0, <2>1 DEF CallOK, PhaseOf, IsGet
<1>11. CallsOK'
  <2>1. UnderWay' \subseteq UnderWay \cup {new}
    BY <1>1, <1>6 DEF UnderWay, ToSet
  <2> SUFFICES ASSUME NEW c \in UnderWay \cup {new} PROVE CallOK(c)'
    BY <2>1 DEF CallsOK
  <2>2. CASE c \in UnderWay
    BY <1>3, <1>9, <2>2, OtherCallKept DEF BridgeInv, CallsOK
  <2>3. CASE c = new
    BY <1>10, <2>3
  <2> QED
    BY <2>2, <2>3
<1>12. OneCall'
  BY <1>1, <1>5, <1>6, NoneUnderWay DEF BridgeInv, OneCall
<1>13. ASSUME NEW q \in Requests
       PROVE  HandlerOK(q)' /\ AnswerOK(q)'
  <2>1. CASE q = r
    <3>1. answer'[r] = NoAnswer /\ applied'[r] = {} /\ body'[r] = body[r]
      BY <1>1, <1>2
    <3>2. Settable(r, names)' <=> Settable(r, names)
      BY <3>1 DEF Settable
    <3>3. answer'[r].status = 0
      <4>1. NoAnswer.status = 0
        BY DEF NoAnswer
      <4> QED
        BY <3>1, <4>1
    <3>4. HandlerOK(r)'
      BY <1>2, <1>3, <3>1, <3>2 DEF HandlerOK, IsGet, PhaseOf, Settable
    <3>5. AnswerOK(r)'
      BY <3>3 DEF AnswerOK
    <3> QED
      BY <2>1, <3>4, <3>5
  <2>2. CASE q # r
    BY <1>3, <2>2, OtherHandlerKept DEF BridgeInv
  <2> QED
    BY <2>1, <2>2
<1> QED
  BY <1>7, <1>8, <1>11, <1>12, <1>13 DEF BridgeInv

\* An error that is met before set_parameters is called.
LEMMA ErrorStep ==
  ASSUME BridgeInv, NEW r \in Requests, phase[r] \notin {"set", "answered"},
         NEW status \in {400, 500, 502, 503, 504},
         NEW during \in {"names", "wait_service", "describe", "call"},
         RespondError(r, status, during),
         UNCHANGED <<body, othersVars>>
  PROVE  BridgeInv'
<1>1. Answer(status, {}, {}, during) \in Answers
  BY DEF Answer, Answers
<1>2. applied[r] = {}
  BY DEF BridgeInv, HandlerOK
<1>3. body' = body /\ body' \in [Requests -> Contents \cup {NoBody}]
  BY DEF BridgeInv, TypeOK
<1>4. Respond(r, status, {}, {}, during) /\ UNCHANGED othersVars
  BY DEF RespondError
<1> QED
  BY <1>1, <1>2, <1>3, <1>4, RespondStep

\* A GET is answered 200 in any case.
LEMMA GetAnswered ==
  ASSUME BridgeInv, NEW r \in Requests, phase[r] \notin {"set", "answered"}, IsGet(r),
         NEW during \in {"unavailable", "available"},
         Respond(r, 200, {}, {}, during),
         UNCHANGED <<body, othersVars>>
  PROVE  BridgeInv'
<1>1. Answer(200, {}, {}, during) \in Answers
  BY DEF Answer, Answers
<1>2. body' = body /\ body' \in [Requests -> Contents \cup {NoBody}] /\ body'[r].kind = "get"
  BY DEF BridgeInv, TypeOK, IsGet
<1>3. UNCHANGED othersVars
  OBVIOUS
<1> QED
  BY <1>1, <1>2, <1>3, RespondStep

\* The detector's declared names among the keys, and those whose values convert.
LEMMA KeysSettable ==
  ASSUME BridgeInv, NEW r \in Requests, phase[r] = "describe", future[r] = "ready"
  PROVE  SettableKeys(r) \in Seq(ParameterNames) /\ Settable(r, SettableKeys(r))
<1> DEFINE values == body[r].values
           convertible == {n \in DeclaredKeys(r) : Convertible(values[n], Type(n))}
<1>1. values \in Bodies /\ DOMAIN values \subseteq AllNames
  <2>1. values \in Bodies
    BY UpdatesBody DEF BridgeInv, HandlerOK
  <2> QED
    BY <2>1, BridgeAssumption
<1>2. Names(r) \in Seq(DOMAIN values)
  BY <1>1, InOrderEnumerates DEF Names
<1>3. DeclaredKeys(r) \subseteq DOMAIN values
  BY <1>2 DEF DeclaredKeys
<1>4. DeclaredKeys(r) \subseteq ParameterNames
  <2>1. DOMAIN reply[r] = {} \/ DOMAIN values \cap Undeclared = {}
    BY DEF BridgeInv, HandlerOK
  <2>2. CASE DOMAIN reply[r] = {}
    BY <2>2 DEF DeclaredKeys
  <2>3. CASE DOMAIN values \cap Undeclared = {}
    BY <1>1, <1>3, <2>3 DEF AllNames
  <2> QED
    BY <2>1, <2>2, <2>3
<1> HIDE DEF convertible
<1>5. convertible \subseteq DeclaredKeys(r)
  BY DEF convertible
<1>6. SettableKeys(r) \in Seq(convertible) /\ IsInjective(SettableKeys(r))
  <2>1. convertible \subseteq AllNames
    BY <1>4, <1>5 DEF AllNames
  <2> QED
    BY <2>1, InOrderEnumerates DEF SettableKeys, convertible
<1>7. SettableKeys(r) \in Seq(ParameterNames)
  BY <1>4, <1>5, <1>6
<1>8. \A i \in DOMAIN SettableKeys(r) :
        /\ SettableKeys(r)[i] \in DOMAIN values
        /\ Convertible(values[SettableKeys(r)[i]], Type(SettableKeys(r)[i]))
  <2> TAKE i \in DOMAIN SettableKeys(r)
  <2>1. SettableKeys(r)[i] \in convertible
    BY <1>6
  <2> QED
    BY <1>3, <1>5, <2>1 DEF convertible
<1> QED
  BY <1>6, <1>7, <1>8 DEF Settable

\* Each step of a handler.
LEMMA HandlerStepKeeps ==
  ASSUME BridgeInv, NEW r \in Requests, HandlerStep(r)
  PROVE  BridgeInv'
<1>0. TypeOK /\ HandlerOK(r) /\ UNCHANGED <<body, othersVars>>
  BY DEF BridgeInv, HandlerStep, ServiceReady, ServiceMissing, CallThrows,
     DescribeTimesOut, Described, SetTimesOut, WasSet, Listed, Got, GetTimesOut, GotAll
<1>1. <<>> \in Seq(ParameterNames)
  OBVIOUS
<1>2. CASE ServiceReady(r)
  <2>1. phase[r] = "wait_service" /\ body[r].kind \in {"updates", "get"}
    BY <1>0, <1>2 DEF ServiceReady, HandlerOK
  <2>2. future[r] # "pending"
    BY <1>0, <2>1 DEF TypeOK, Waiting
  <2>3. CASE IsGet(r)
    <3>1. Send(r, "list", <<>>, "list") /\ PhaseOf("list", r) = "list"
      BY <1>2, <2>3 DEF ServiceReady, PhaseOf
    <3> QED
      BY <1>0, <1>1, <2>1, <2>2, <2>3, <3>1, SendStep
  <2>4. CASE ~IsGet(r) /\ Names(r) = <<>>
    <3>1. RespondError(r, 400, "names")
      BY <1>2, <2>4 DEF ServiceReady
    <3> QED
      BY <1>0, <2>1, <3>1, ErrorStep
  <2>5. CASE ~IsGet(r) /\ Names(r) # <<>>
    <3>1. Send(r, "describe", <<>>, "describe") /\ PhaseOf("describe", r) = "describe"
      BY <1>2, <2>5 DEF ServiceReady, PhaseOf
    <3> QED
      BY <1>0, <1>1, <2>1, <2>2, <3>1, SendStep
  <2> QED
    BY <2>3, <2>4, <2>5
<1>3. CASE ServiceMissing(r) \/ CallThrows(r)
  <2>1. phase[r] = "wait_service"
    BY <1>3 DEF ServiceMissing, CallThrows
  <2>2. \/ IsGet(r) /\ Unavailable(r)
        \/ RespondError(r, 503, "wait_service")
        \/ RespondError(r, 500, "wait_service")
        \/ RespondError(r, 502, "describe")
    BY <1>3 DEF ServiceMissing, CallThrows
  <2>3. CASE IsGet(r) /\ Unavailable(r)
    BY <1>0, <2>1, <2>3, GetAnswered DEF Unavailable
  <2> QED
    BY <1>0, <2>1, <2>2, <2>3, ErrorStep
<1>4. CASE DescribeTimesOut(r)
  BY <1>0, <1>4, ErrorStep DEF DescribeTimesOut
<1>5. CASE Described(r)
  <2>1. phase[r] = "describe" /\ future[r] = "ready" /\ body[r].kind = "updates"
    BY <1>0, <1>5 DEF Described, HandlerOK
  <2>2. CASE SettableKeys(r) # <<>> /\ Send(r, "set", SettableKeys(r), "set")
    <3>1. PhaseOf("set", r) = "set"
      BY DEF PhaseOf
    <3> QED
      BY <1>0, <2>1, <2>2, <3>1, KeysSettable, SendStep
  <2>3. CASE RespondError(r, 502, "call")
    BY <1>0, <2>1, <2>3, ErrorStep
  <2>4. CASE SettableKeys(r) = <<>> /\ Respond(r, 200, {}, DOMAIN body[r].values, "set")
    <3>1. DOMAIN body[r].values \subseteq AllNames
      <4>1. body[r].values \in Bodies
        BY <1>0, <2>1, UpdatesBody
      <4> QED
        BY <4>1, BridgeAssumption
    <3>2. Answer(200, {}, DOMAIN body[r].values, "set") \in Answers
      BY <3>1 DEF Answer, Answers
    <3>3. applied[r] = {}
      BY <1>0, <2>1 DEF HandlerOK
    <3>4. body' = body /\ body' \in [Requests -> Contents \cup {NoBody}]
      BY <1>0 DEF TypeOK
    <3>5. UNCHANGED othersVars
      BY <1>0
    <3> QED
      BY <2>1, <2>4, <3>2, <3>3, <3>4, <3>5, RespondStep
  <2> QED
    BY <1>5, <2>2, <2>3, <2>4 DEF Described
<1>6. CASE SetTimesOut(r)
  <2>1. Answer(504, {}, {}, "set") \in Answers
    BY DEF Answer, Answers
  <2>2. body' = body /\ body' \in [Requests -> Contents \cup {NoBody}] /\ UNCHANGED othersVars
    BY <1>0 DEF TypeOK
  <2>3. phase[r] = "set" /\ Respond(r, 504, {}, {}, "set")
    BY <1>6 DEF SetTimesOut, RespondError
  <2> QED
    BY <2>1, <2>2, <2>3, RespondStep
<1>7. CASE WasSet(r)
  <2> DEFINE updated == Results(r, TRUE)
             rejected == (DOMAIN body[r].values \ ToSet(to_set[r])) \cup Results(r, FALSE)
  <2>1. phase[r] = "set" /\ future[r] = "ready" /\ Respond(r, 200, updated, rejected, "set")
    BY <1>7 DEF WasSet
  <2>2. /\ body[r].kind = "updates" /\ Settable(r, to_set[r])
        /\ Progress(r, <<>>, reply[r])
    BY <1>0, <2>1 DEF HandlerOK
  <2>3. /\ updated = {a[1] : a \in applied[r]}
        /\ rejected = DOMAIN body[r].values \ updated
        /\ \A a \in applied[r] : AsAsked(body[r].values[a[1]], a[2], Type(a[1]))
    BY <1>0, <2>2, AssignmentsAsAsked
  <2> HIDE DEF rejected
  <2>4. updated \subseteq AllNames /\ rejected \subseteq AllNames
    <3>1. updated \subseteq AllNames
      <4>1. applied[r] \subseteq Settings
        BY <1>0 DEF TypeOK
      <4>2. \A a \in Settings : a[1] \in ParameterNames
        BY DEF Settings
      <4> HIDE DEF updated
      <4> QED
        BY <2>3, <4>1, <4>2 DEF AllNames
    <3>2. body[r].values \in Bodies
      BY <1>0, <2>2, UpdatesBody
    <3> QED
      BY <2>3, <3>1, <3>2, BridgeAssumption
  <2> HIDE DEF updated
  <2>5. Answer(200, updated, rejected, "set") \in Answers
    BY <2>4 DEF Answer, Answers
  <2>6. body' = body /\ body' \in [Requests -> Contents \cup {NoBody}] /\ UNCHANGED othersVars
    BY <1>0 DEF TypeOK
  <2> QED
    BY <2>1, <2>3, <2>5, <2>6, RespondStep
<1>8. CASE Listed(r)
  <2>1. phase[r] = "list" /\ future[r] = "ready" /\ IsGet(r)
    BY <1>0, <1>8 DEF Listed, HandlerOK
  <2>2. CASE Send(r, "get", <<>>, "get")
    <3>1. PhaseOf("get", r) = "get"
      BY DEF PhaseOf
    <3> QED
      BY <1>0, <1>1, <2>1, <2>2, <3>1, SendStep
  <2>3. CASE Unavailable(r)
    BY <1>0, <2>1, <2>3, GetAnswered DEF Unavailable
  <2> QED
    BY <1>8, <2>2, <2>3 DEF Listed
<1>9. CASE Got(r)
  <2>1. phase[r] = "get" /\ future[r] = "ready" /\ IsGet(r) /\ body[r].kind = "get"
    BY <1>0, <1>9 DEF Got, HandlerOK, IsGet
  <2>2. CASE Send(r, "describe", <<>>, "describe_get")
    <3>1. PhaseOf("describe", r) = "describe_get"
      BY <2>1 DEF PhaseOf
    <3> QED
      BY <1>0, <1>1, <2>1, <2>2, <3>1, SendStep
  <2>3. CASE Unavailable(r)
    BY <1>0, <2>1, <2>3, GetAnswered DEF Unavailable
  <2> QED
    BY <1>9, <2>2, <2>3 DEF Got
<1>10. CASE GetTimesOut(r)
  <2>1. phase[r] \in {"list", "get"} /\ IsGet(r)
    BY <1>0, <1>10 DEF GetTimesOut, HandlerOK
  <2> QED
    BY <1>0, <1>10, <2>1, GetAnswered DEF GetTimesOut, Unavailable
<1>11. CASE GotAll(r)
  <2>1. phase[r] = "describe_get" /\ IsGet(r)
    BY <1>0, <1>11 DEF GotAll, HandlerOK
  <2> QED
    BY <1>0, <1>11, <2>1, GetAnswered DEF GotAll
<1> QED
  BY <1>2, <1>3, <1>4, <1>5, <1>6, <1>7, <1>8, <1>9, <1>10, <1>11 DEF HandlerStep

\* A request is new until it arrives, and then it is what it is.
LEMMA ArriveKeeps ==
  ASSUME BridgeInv, NEW r \in Requests, Arrive(r)
  PROVE  BridgeInv'
<1>0. TypeOK /\ HandlerOK(r) /\ phase[r] = "new" /\ UNCHANGED othersVars
  BY DEF BridgeInv, Arrive
<1>1. applied[r] = {} /\ answer[r] = NoAnswer /\ future[r] # "pending"
  BY <1>0 DEF HandlerOK, TypeOK, Waiting
<1> PICK b \in Contents :
      /\ body' = [body EXCEPT ![r] = b]
      /\ CASE b.kind = "malformed"  -> RespondError(r, 400, "parse")
           [] b.kind = "other_node" -> RespondError(r, 503, "lookup")
           [] OTHER -> /\ phase' = [phase EXCEPT ![r] = "wait_service"]
                       /\ UNCHANGED <<future, reply, to_set, answer, calls>>
  BY DEF Arrive
<1>2. /\ body' \in [Requests -> Contents \cup {NoBody}] /\ body'[r] = b
      /\ \A q \in Requests \ {r} : body'[q] = body[q]
  BY <1>0 DEF TypeOK
<1>3. CASE b.kind \in {"malformed", "other_node"}
  <2>1. PICK status \in {400, 503}, during \in {"parse", "lookup"} :
          Respond(r, status, {}, {}, during)
    BY <1>3 DEF RespondError
  <2>2. Answer(status, {}, {}, during) \in Answers
    BY DEF Answer, Answers
  <2> QED
    BY <1>0, <1>1, <1>2, <2>1, <2>2, RespondStep
<1>4. CASE b.kind \notin {"malformed", "other_node"}
  <2>1. /\ phase' = [phase EXCEPT ![r] = "wait_service"]
        /\ UNCHANGED <<future, reply, to_set, answer, calls, call, applied, main, server, node>>
        /\ UNCHANGED detectorVars
    BY <1>0, <1>4 DEF othersVars, detectorVars
  <2>2. phase'[r] = "wait_service" /\ OthersKept(r)
    BY <1>0, <1>2, <2>1 DEF TypeOK, OthersKept
  <2>3. Inv'
    BY <2>1, DetectorKept DEF BridgeInv
  <2>4. TypeOK'
    <3>1. DetectorTypeOK'
      BY <2>3 DEF Inv
    <3>2. phase' \in [Requests -> {"new", "wait_service", "answered"} \cup Waiting]
      BY <1>0, <2>1 DEF TypeOK
    <3>3. \A q \in Requests : future'[q] # "none" => phase'[q] \in Waiting
      BY <1>0, <2>1, <2>2 DEF TypeOK, OthersKept, Waiting
    <3> QED
      BY <1>0, <1>2, <2>1, <3>1, <3>2, <3>3 DEF TypeOK
  <2>5. CallsOK' /\ OneCall'
    <3>1. UnderWay' = UnderWay
      BY <2>1 DEF UnderWay, ToSet
    <3>2. \A c \in UnderWay : c.req \in Requests \ {r}
      <4> TAKE c \in UnderWay
      <4>1. c \in Calls
        BY <1>0 DEF UnderWay, ToSet, TypeOK
      <4> QED
        BY <1>0, <1>1, <4>1, NoneUnderWay DEF UnderWay, ToSet, Calls
    <3>3. CallsOK'
      BY <2>2, <3>1, <3>2, OtherCallKept DEF BridgeInv, CallsOK
    <3> QED
      BY <2>1, <3>3 DEF BridgeInv, OneCall
  <2>6. ASSUME NEW q \in Requests
        PROVE  HandlerOK(q)' /\ AnswerOK(q)'
    <3>1. CASE q = r
      <4>1. b.kind \in {"updates", "get"}
        BY <1>4 DEF Contents
      <4>2. answer'[r].status = 0
        <5>1. NoAnswer.status = 0
          BY DEF NoAnswer
        <5> QED
          BY <1>1, <2>1, <5>1
      <4>3. HandlerOK(r)'
        BY <1>1, <1>2, <2>1, <2>2, <4>1 DEF HandlerOK
      <4>4. AnswerOK(r)'
        BY <4>2 DEF AnswerOK
      <4> QED
        BY <3>1, <4>3, <4>4
    <3>2. CASE q # r
      BY <2>2, <3>2, OtherHandlerKept DEF BridgeInv
    <3> QED
      BY <3>1, <3>2
  <2> QED
    BY <2>3, <2>4, <2>5, <2>6 DEF BridgeInv
<1> QED
  BY <1>3, <1>4

-----------------------------------------------------------------------------
(***************************************************************************)
(* The detector's services                                                 *)
(***************************************************************************)

\* What is known of the requests as long as nothing of theirs changes.
LEMMA RequestsKept ==
  ASSUME BridgeInv, UNCHANGED <<handlerVars, applied>>
  PROVE  /\ \A c \in UnderWay : CallOK(c)'
         /\ \A q \in Requests : HandlerOK(q)' /\ AnswerOK(q)'
<1>1. \A r : OthersKept(r)
  BY DEF handlerVars, OthersKept
<1>2. ASSUME NEW c \in UnderWay
      PROVE  CallOK(c)'
  <2>1. c \in Calls /\ CallOK(c)
    BY DEF BridgeInv, CallsOK, UnderWay, ToSet, TypeOK
  <2>2. c.req \in Requests \ {0}
    BY <2>1, BridgeAssumption DEF Calls, Requests
  <2> QED
    BY <1>1, <2>1, <2>2, OtherCallKept
<1>3. ASSUME NEW q \in Requests
      PROVE  HandlerOK(q)' /\ AnswerOK(q)'
  <2>1. q \in Requests \ {0}
    BY BridgeAssumption DEF Requests
  <2> QED
    BY <1>1, <2>1, OtherHandlerKept DEF BridgeInv
<1> QED
  BY <1>2, <1>3

\* A call that is taken is under way as before.
LEMMA TakeCallKeeps == BridgeInv /\ TakeCall => BridgeInv'
<1> SUFFICES ASSUME BridgeInv, TakeCall PROVE BridgeInv'
  OBVIOUS
<1>0. TypeOK
  BY DEF BridgeInv
<1> PICK i \in DOMAIN calls : call' = calls[i] /\ calls' = RemoveAt(calls, i)
  BY DEF TakeCall
<1>1. /\ calls \in Seq(Calls) /\ calls[i] \in Calls /\ Len(calls) \in Nat
      /\ DOMAIN calls = 1 .. Len(calls)
  BY <1>0 DEF TypeOK
<1>2. /\ calls' \in Seq(Calls) /\ DOMAIN calls' = 1 .. Len(calls) - 1
      /\ \A j \in DOMAIN calls' : calls'[j] = IF j < i THEN calls[j] ELSE calls[j + 1]
  BY <1>1, Removed
<1>3. UNCHANGED <<handlerVars, applied, main, server, settingVars, frameVars>>
  BY DEF TakeCall, bridgeVars
<1>4. node = "idle" /\ node' = "serving" /\ call' # NoCall
  <2>1. \A c \in Calls : c.req # 0
    BY BridgeAssumption DEF Calls, Requests
  <2> QED
    BY <1>1, <2>1 DEF TakeCall, NoCall
<1>5. Inv'
  BY <1>3, <1>4 DEF settingVars, frameVars, outputVars, BridgeInv, Inv, DetectorTypeOK,
     SettingsAccepted, FrameHalfShown, BoxesMatchDetections, FrameComplete
<1>6. TypeOK'
  BY <1>0, <1>1, <1>2, <1>3, <1>4, <1>5 DEF TypeOK, Inv, handlerVars
<1>7. UnderWay' \subseteq UnderWay
  <2>1. \A j \in DOMAIN calls' : calls'[j] \in ToSet(calls)
    BY <1>1, <1>2 DEF ToSet
  <2> QED
    BY <2>1 DEF UnderWay, ToSet
<1>8. CallsOK'
  BY <1>3, <1>7, RequestsKept DEF CallsOK
<1>9. OneCall'
  <2>1. \A j \in DOMAIN calls' :
          \E k \in DOMAIN calls : k # i /\ calls'[j] = calls[k] /\ (k = IF j < i THEN j ELSE j + 1)
    BY <1>1, <1>2
  <2>2. \A j \in DOMAIN calls' : calls'[j].req # call'.req
    BY <2>1 DEF BridgeInv, OneCall
  <2>3. ASSUME NEW j \in DOMAIN calls', NEW k \in DOMAIN calls', calls'[j].req = calls'[k].req
        PROVE  j = k
    <3>1. PICK jj \in DOMAIN calls : calls'[j] = calls[jj] /\ jj = IF j < i THEN j ELSE j + 1
      BY <2>1
    <3>2. PICK kk \in DOMAIN calls : calls'[k] = calls[kk] /\ kk = IF k < i THEN k ELSE k + 1
      BY <2>1
    <3>3. jj = kk
      BY <2>3, <3>1, <3>2 DEF BridgeInv, OneCall
    <3> QED
      BY <1>1, <1>2, <3>1, <3>2, <3>3
  <2> QED
    BY <2>2, <2>3 DEF OneCall
<1> QED
  BY <1>3, <1>5, <1>6, <1>8, <1>9, RequestsKept DEF BridgeInv

\* One parameter that is set or refused leaves settings that are accepted.
LEMMA SetParameterKeeps ==
  ASSUME DetectorTypeOK, SettingsAccepted,
         NEW name \in ParameterNames, NEW value \in ValuesOf(name),
         SetParameter(name, value), UNCHANGED <<node, frameVars>>
  PROVE  DetectorTypeOK' /\ SettingsAccepted'
<1>1. Candidate(name, value) \in Parameters
  BY CandidateTyped DEF DetectorTypeOK
<1>2. snapshot' \in Parameters /\ parameters' = snapshot' /\ Accepts(snapshot')
  BY <1>1 DEF SetParameter, settingVars, DetectorTypeOK, SettingsAccepted, Candidate
<1>3. DetectorTypeOK'
  BY <1>2 DEF DetectorTypeOK, frameVars, outputVars
<1> QED
  BY <1>2, <1>3 DEF SettingsAccepted

\* One more of the names is done, and if it was set it is among those applied.
LEMMA ServeSetKeeps == BridgeInv /\ ServeSet => BridgeInv'
<1> SUFFICES ASSUME BridgeInv, ServeSet PROVE BridgeInv'
  OBVIOUS
<1> DEFINE name == Head(call.todo)[1]
           value == Head(call.todo)[2]
           ok == Accepts(Candidate(name, value))
           c2 == [call EXCEPT !.todo = Tail(@), !.done = Append(@, ok)]
<1>0. TypeOK /\ call # NoCall /\ call \in Calls /\ CallOK(call)
  <2>1. TypeOK /\ call # NoCall /\ call \in Calls
    BY DEF BridgeInv, TypeOK, ServeSet
  <2> QED
    BY <2>1 DEF BridgeInv, CallsOK, UnderWay
<1> PICK r \in Requests : r = call.req
  BY <1>0 DEF Calls
<1>1. /\ SetParameter(name, value) /\ call' = c2
      /\ applied' = [applied EXCEPT ![r] = IF ok THEN @ \cup {<<name, value>>} ELSE @]
      /\ call.kind = "set" /\ call.todo # <<>>
      /\ UNCHANGED <<node, frameVars, bridgeVars, calls>>
  BY DEF ServeSet
<1>2. /\ call.todo \in Seq(Settings) /\ call.done \in Seq(BOOLEAN)
      /\ Head(call.todo) \in Settings /\ Head(call.todo) = call.todo[1]
      /\ 1 \in DOMAIN call.todo
      /\ Tail(call.todo) \in Seq(Settings) /\ Len(Tail(call.todo)) = Len(call.todo) - 1
      /\ \A i \in DOMAIN Tail(call.todo) :
           i + 1 \in DOMAIN call.todo /\ Tail(call.todo)[i] = call.todo[i + 1]
  BY <1>0, <1>1 DEF Calls
<1>3. /\ name \in ParameterNames /\ value \in ValuesOf(name)
      /\ Head(call.todo) = <<name, value>>
  BY <1>2 DEF Settings
<1>4. ok \in BOOLEAN
  BY DEF Accepts
<1> HIDE DEF name, value, ok
<1>5. /\ c2 \in Calls /\ c2.req = r /\ c2.kind = "set" /\ c2.todo = Tail(call.todo)
      /\ c2.done = Append(call.done, ok)
  <2>1. Append(call.done, ok) \in Seq(BOOLEAN)
    BY <1>2, <1>4
  <2>2. c2 \in Calls
    BY <1>0, <1>2, <2>1 DEF Calls
  <2>3. c2.req = call.req /\ c2.kind = call.kind
    BY <1>0 DEF Calls
  <2>4. c2.todo = Tail(call.todo)
    BY <1>0 DEF Calls
  <2>5. c2.done = Append(call.done, ok)
    BY <1>0 DEF Calls
  <2> QED
    BY <1>1, <2>2, <2>3, <2>4, <2>5
<1> HIDE DEF c2
<1>6. c2 # NoCall
  BY <1>5 DEF NoCall
<1> PICK c : c = c2
  OBVIOUS
<1>7. DetectorTypeOK' /\ SettingsAccepted'
  BY <1>1, <1>3, SetParameterKeeps DEF BridgeInv, Inv
<1>8. Inv'
  BY <1>1, <1>7 DEF BridgeInv, Inv, frameVars, outputVars,
     FrameHalfShown, BoxesMatchDetections, FrameComplete
<1>9. /\ applied' \in [Requests -> SUBSET Settings]
      /\ \A q \in Requests \ {r} : applied'[q] = applied[q]
      /\ applied'[r] = IF ok THEN applied[r] \cup {<<name, value>>} ELSE applied[r]
  BY <1>0, <1>1, <1>2, <1>3 DEF TypeOK
<1>10. TypeOK'
  BY <1>0, <1>1, <1>5, <1>6, <1>7, <1>9 DEF TypeOK, bridgeVars, handlerVars
<1>11. OthersKept(r)
  BY <1>1, <1>9 DEF OthersKept, bridgeVars, handlerVars
<1>12. phase[r] = "set" => Progress(r, c.todo, c.done)'
  <2> HAVE phase[r] = "set"
  <2> DEFINE names == to_set[r]
             done == call.done
             n == Len(done)
             its == {Assignment(r, names[i]) : i \in {j \in DOMAIN done : done[j] = TRUE}}
             their == {Assignment(r, names[i]) : i \in {j \in DOMAIN c.done : c.done[j] = TRUE}}
  <2>1. Progress(r, call.todo, done)
    BY <1>0, <1>1 DEF CallOK
  <2>2. /\ n \in Nat /\ n + Len(call.todo) = Len(names) /\ applied[r] = its
        /\ \A i \in DOMAIN call.todo : call.todo[i] = Assignment(r, names[n + i])
    <3>1. n \in Nat
      BY <1>2
    <3> QED
      BY <2>1, <3>1 DEF Progress
  <2>3. /\ c.done \in Seq(BOOLEAN) /\ Len(c.done) = n + 1
        /\ DOMAIN c.done = DOMAIN done \cup {n + 1}
        /\ \A j \in DOMAIN done : c.done[j] = done[j]
        /\ c.done[n + 1] = ok
    BY <1>2, <1>4, <1>5
  <2>4. <<name, value>> = Assignment(r, names[n + 1])
    BY <1>2, <1>3, <2>2
  <2>5. applied'[r] = their
    <3>1. CASE ok
      <4>1. their = its \cup {Assignment(r, names[n + 1])}
        BY <2>3, <3>1
      <4> QED
        BY <1>9, <2>2, <2>4, <3>1, <4>1
    <3>2. CASE ~ok
      <4>1. c.done[n + 1] # TRUE
        BY <2>3, <3>2
      <4>2. their = its
        BY <2>3, <4>1
      <4> QED
        BY <1>9, <2>2, <3>2, <4>2
    <3> QED
      BY <1>4, <3>1, <3>2
  <2>6. /\ Len(c.done) + Len(c.todo) = Len(names)
        /\ \A i \in DOMAIN c.todo : c.todo[i] = Assignment(r, names[Len(c.done) + i])
    <3>1. /\ Len(call.todo) \in Nat /\ DOMAIN call.todo = 1 .. Len(call.todo)
          /\ DOMAIN Tail(call.todo) = 1 .. Len(call.todo) - 1
      BY <1>2
    <3>2. c.todo = Tail(call.todo)
      BY <1>5
    <3>3. ASSUME NEW i \in DOMAIN c.todo
          PROVE  c.todo[i] = Assignment(r, names[Len(c.done) + i])
      <4>1. i \in Nat /\ n \in Nat
        BY <2>2, <3>1, <3>2
      <4>2. c.todo[i] = call.todo[i + 1] /\ i + 1 \in DOMAIN call.todo
        BY <1>2, <3>2
      <4>3. call.todo[i + 1] = Assignment(r, names[n + (i + 1)])
        BY <2>2, <4>2
      <4> HIDE DEF n
      <4>4. n + (i + 1) = (n + 1) + i
        BY <4>1
      <4> QED
        BY <2>3, <4>2, <4>3, <4>4 DEF n
    <3>4. Len(c.todo) = Len(call.todo) - 1
      BY <1>2, <3>2
    <3> HIDE DEF n
    <3>5. Len(c.done) + Len(c.todo) = Len(names)
      <4>1. n \in Nat /\ n + Len(call.todo) = Len(names)
        BY <2>2
      <4>2. Len(c.done) = n + 1
        BY <2>3
      <4>3. \A m \in Nat : (n + 1) + (m - 1) = n + m
        BY <4>1
      <4>4. (n + 1) + (Len(call.todo) - 1) = n + Len(call.todo)
        BY <3>1, <4>3
      <4> QED
        BY <3>4, <4>1, <4>2, <4>4
    <3> QED
      BY <3>3, <3>5
  <2>7. /\ to_set'[r] = names /\ body'[r] = body[r]
    BY <1>1 DEF bridgeVars, handlerVars
  <2>8. their' = their
    BY <2>7 DEF Assignment
  <2>9. \A i \in DOMAIN c.todo :
          Assignment(r, names[Len(c.done) + i])' = Assignment(r, names[Len(c.done) + i])
    BY <2>7 DEF Assignment
  <2> HIDE DEF n
  <2> QED
    <3>1. Progress(r, c.todo, c.done)' <=>
            /\ c.done \in Seq(BOOLEAN) /\ Len(c.done) + Len(c.todo) = Len(to_set'[r])
            /\ \A i \in DOMAIN c.todo : c.todo[i] = Assignment(r, names[Len(c.done) + i])'
            /\ applied'[r] = their'
      BY DEF Progress
    <3> HIDE DEF their, its
    <3> QED
      BY <2>3, <2>5, <2>6, <2>7, <2>8, <2>9, <3>1
<1>13. CallOK(c)'
  <2>1. phase' = phase /\ future' = future /\ answer' = answer /\ body' = body
    BY <1>1 DEF bridgeVars, handlerVars
  <2>2. c.req = r /\ c.kind = "set"
    BY <1>5
  <2> QED
    BY <1>0, <1>1, <1>12, <2>1, <2>2 DEF CallOK, PhaseOf, IsGet
<1>14. CallsOK' /\ OneCall'
  <2>1. UnderWay' \subseteq (UnderWay \ {call}) \cup {c}
    <3>1. \A i \in DOMAIN calls : calls[i] # call
      BY DEF BridgeInv, OneCall
    <3> QED
      BY <1>1, <3>1 DEF UnderWay, ToSet
  <2>2. ASSUME NEW d \in UnderWay \ {call}
        PROVE  CallOK(d)'
    <3>1. d.req \in Requests \ {r}
      <4>1. PICK i \in DOMAIN calls : d = calls[i]
        BY DEF UnderWay, ToSet
      <4>2. calls[i] \in Calls
        BY <1>0 DEF TypeOK
      <4> QED
        BY <4>1, <4>2 DEF BridgeInv, OneCall, Calls
    <3> QED
      BY <1>11, <3>1, OtherCallKept DEF BridgeInv, CallsOK
  <2>3. CallsOK'
    BY <1>13, <2>1, <2>2 DEF CallsOK
  <2>4. OneCall'
    BY <1>1, <1>5 DEF BridgeInv, OneCall
  <2> QED
    BY <2>3, <2>4
<1>15. ASSUME NEW q \in Requests
       PROVE  HandlerOK(q)' /\ AnswerOK(q)'
  <2>1. CASE q = r
    <3>1. /\ phase' = phase /\ future' = future /\ answer' = answer /\ body' = body
          /\ reply' = reply /\ to_set' = to_set
      BY <1>1 DEF bridgeVars, handlerVars
    <3>2. \/ phase[r] = "set" /\ future[r] = "pending"
          \/ /\ phase[r] = "answered"
             /\ answer[r].status = 504 /\ answer[r].during = "set"
      BY <1>0, <1>1 DEF CallOK, PhaseOf
    <3>3. HandlerOK(r) /\ AnswerOK(r)
      BY DEF BridgeInv
    <3>4. Settable(r, to_set[r])' <=> Settable(r, to_set[r])
      BY <3>1 DEF Settable
    <3>5. HandlerOK(r)'
      BY <3>1, <3>2, <3>3, <3>4 DEF HandlerOK, IsGet
    <3>6. AnswerOK(r)'
      <4>1. phase[r] = "set" => answer[r].status = 0
        <5>1. NoAnswer.status = 0
          BY DEF NoAnswer
        <5> QED
          BY <3>3, <5>1 DEF HandlerOK
      <4> QED
        BY <3>1, <3>2, <4>1 DEF AnswerOK
    <3> QED
      BY <2>1, <3>5, <3>6
  <2>2. CASE q # r
    BY <1>11, <2>2, OtherHandlerKept DEF BridgeInv
  <2> QED
    BY <2>1, <2>2
<1> QED
  BY <1>8, <1>10, <1>14, <1>15 DEF BridgeInv

\* The results of a call are those of all the names, and they have been set or
\* refused by then.
LEMMA ResultsComplete ==
  ASSUME NEW r, NEW done, Progress(r, <<>>, done), reply'[r] = done,
         UNCHANGED <<to_set, body, applied>>
  PROVE  Progress(r, <<>>, reply[r])'
<1> DEFINE names == to_set[r]
           got == reply[r]
           set == {Assignment(r, names[i]) : i \in {j \in DOMAIN got : got[j] = TRUE}}
           its == {Assignment(r, names[i]) : i \in {j \in DOMAIN done : done[j] = TRUE}}
<1>1. set' = its
  BY DEF Assignment
<1>2. done \in Seq(BOOLEAN) /\ Len(done) + Len(<<>>) = Len(names) /\ applied[r] = its
  BY DEF Progress
<1>3. Progress(r, <<>>, reply[r])' <=>
        /\ got' \in Seq(BOOLEAN) /\ Len(got') + Len(<<>>) = Len(names')
        /\ \A i \in DOMAIN <<>> : <<>>[i] = Assignment(r, names[Len(got) + i])'
        /\ applied'[r] = set'
  BY DEF Progress
<1>4. DOMAIN <<>> = {}
  OBVIOUS
<1> HIDE DEF set, its
<1> QED
  BY <1>1, <1>2, <1>3, <1>4

\* An answer tells the handler that waits for it what has been done.
LEMMA FinishCallKeeps == BridgeInv /\ FinishCall => BridgeInv'
<1> SUFFICES ASSUME BridgeInv, FinishCall PROVE BridgeInv'
  OBVIOUS
<1>0. TypeOK /\ call # NoCall /\ call \in Calls /\ CallOK(call)
  <2>1. TypeOK /\ call # NoCall /\ call \in Calls
    BY DEF BridgeInv, TypeOK, FinishCall
  <2> QED
    BY <2>1 DEF BridgeInv, CallsOK, UnderWay
<1> PICK r \in Requests : r = call.req
  BY <1>0 DEF Calls
<1>1. /\ node = "serving" /\ node' = "idle" /\ call' = NoCall /\ call.todo = <<>>
      /\ UNCHANGED <<settingVars, frameVars, main, server, phase, body, to_set, answer,
                     calls, applied>>
      /\ \/ /\ future[r] = "pending"
            /\ future' = [future EXCEPT ![r] = "ready"]
            /\ reply' = [reply EXCEPT ![r] = ServiceReply]
         \/ UNCHANGED <<future, reply>>
  BY DEF FinishCall
<1>2. OthersKept(r)
  BY <1>0, <1>1 DEF TypeOK, OthersKept
<1>3. Inv'
  BY <1>1 DEF settingVars, frameVars, outputVars, BridgeInv, Inv, DetectorTypeOK,
     SettingsAccepted, FrameHalfShown, BoxesMatchDetections, FrameComplete
<1>4. TypeOK'
  <2>1. DetectorTypeOK'
    BY <1>3 DEF Inv
  <2>2. future' \in [Requests -> {"none", "pending", "ready"}] /\ DOMAIN reply' = Requests
    BY <1>0, <1>1 DEF TypeOK
  <2>3. \A q \in Requests : future'[q] # "none" => phase'[q] \in Waiting
    BY <1>0, <1>1 DEF TypeOK
  <2> QED
    BY <1>0, <1>1, <2>1, <2>2, <2>3 DEF TypeOK
<1>5. CallsOK' /\ OneCall'
  <2>1. UnderWay' \subseteq ToSet(calls)
    BY <1>1 DEF UnderWay, ToSet
  <2>2. ASSUME NEW c \in ToSet(calls)
        PROVE  CallOK(c)'
    <3>1. c.req \in Requests \ {r}
      <4>1. PICK i \in DOMAIN calls : c = calls[i]
        BY DEF ToSet
      <4>2. calls[i] \in Calls
        BY <1>0 DEF TypeOK
      <4> QED
        BY <4>1, <4>2 DEF BridgeInv, OneCall, Calls
    <3> QED
      BY <1>2, <3>1, OtherCallKept DEF BridgeInv, CallsOK, UnderWay
  <2>3. OneCall'
    <3>1. \A i \in DOMAIN calls : calls[i].req # 0
      <4>1. \A i \in DOMAIN calls : calls[i] \in Calls
        BY <1>0 DEF TypeOK
      <4>2. 0 \notin Requests
        BY BridgeAssumption DEF Requests
      <4> QED
        BY <4>1, <4>2 DEF Calls
    <3> QED
      BY <1>1, <3>1 DEF BridgeInv, OneCall, NoCall
  <2> QED
    BY <2>1, <2>2, <2>3 DEF CallsOK
<1>6. ASSUME NEW q \in Requests
      PROVE  HandlerOK(q)' /\ AnswerOK(q)'
  <2>0. HandlerOK(q) /\ AnswerOK(q)
    BY DEF BridgeInv
  <2>1. CASE q = r /\ future' = [future EXCEPT ![r] = "ready"] /\ future[r] = "pending"
             /\ reply' = [reply EXCEPT ![r] = ServiceReply]
    <3>1. future'[r] = "ready" /\ reply'[r] = ServiceReply
      BY <1>0, <2>1 DEF TypeOK
    <3>2. phase[r] # "answered" /\ phase[r] = PhaseOf(call.kind, r)
      BY <1>0, <2>1 DEF CallOK, TypeOK, Waiting
    <3>3. phase[r] = "describe" =>
            DOMAIN reply'[r] = {} \/ DOMAIN body[r].values \cap Undeclared = {}
      <4> HAVE phase[r] = "describe"
      <4>1. call.kind = "describe"
        BY <3>2 DEF PhaseOf
      <4>2. ServiceReply = Descriptors(r)
        BY <4>1 DEF ServiceReply
      <4> QED
        BY <3>1, <4>2 DEF Descriptors
    <3>4. phase[r] = "set" => Progress(r, <<>>, reply[r])'
      <4> HAVE phase[r] = "set"
      <4>1. call.kind = "set"
        BY <3>2 DEF PhaseOf
      <4>2. reply'[r] = call.done
        BY <3>1, <4>1 DEF ServiceReply
      <4>3. Progress(r, <<>>, call.done)
        BY <1>0, <1>1, <3>2, <4>1 DEF CallOK
      <4> PICK done : done = call.done
        OBVIOUS
      <4> QED
        BY <1>1, <4>2, <4>3, ResultsComplete
    <3>5. Settable(r, to_set[r])' <=> Settable(r, to_set[r])
      BY <1>1 DEF Settable
    <3>6. HandlerOK(r)'
      BY <1>1, <2>0, <2>1, <3>3, <3>4, <3>5 DEF HandlerOK, IsGet
    <3>7. AnswerOK(r)'
      BY <1>1, <2>0, <2>1 DEF AnswerOK, Truthful, IsGet
    <3> QED
      BY <2>1, <3>6, <3>7
  <2>2. CASE q # r
    BY <1>2, <2>2, OtherHandlerKept DEF BridgeInv
  <2>3. CASE UNCHANGED <<future, reply>>
    BY <1>1, <2>3, RequestsKept DEF handlerVars
  <2> QED
    BY <1>1, <2>1, <2>2, <2>3
<1> QED
  BY <1>3, <1>4, <1>5, <1>6 DEF BridgeInv

\* The detector by itself changes its settings and its node, and takes the
\* calls with it when it ends.
LEMMA DetectorStepKeeps == BridgeInv /\ DetectorStep => BridgeInv'
<1> SUFFICES ASSUME BridgeInv, DetectorStep PROVE BridgeInv'
  OBVIOUS
<1>0. TypeOK /\ Inv /\ UNCHANGED <<bridgeVars, applied>>
  BY DEF BridgeInv, DetectorStep, serviceVars
<1>1. Inv'
  BY <1>0, SetByOtherStep, StartStopStep DEF DetectorStep
<1>2. \A q \in Requests : HandlerOK(q)' /\ AnswerOK(q)'
  BY <1>0, RequestsKept DEF bridgeVars
<1>3. CASE UNCHANGED <<calls, call>> /\ (SetByOther \/ StartDetector)
  <2>1. node' = "serving" <=> node = "serving"
    BY <1>3 DEF SetByOther, StartDetector
  <2>2. TypeOK'
    BY <1>0, <1>1, <1>3, <2>1 DEF TypeOK, Inv, bridgeVars, handlerVars
  <2>3. UnderWay' = UnderWay
    BY <1>3 DEF UnderWay, ToSet
  <2>4. CallsOK'
    BY <1>0, <2>3, RequestsKept DEF CallsOK, bridgeVars
  <2>5. OneCall'
    BY <1>3 DEF BridgeInv, OneCall
  <2> QED
    BY <1>1, <1>2, <2>2, <2>4, <2>5 DEF BridgeInv
<1>4. CASE StopDetector /\ calls' = <<>> /\ call' = NoCall
  <2>1. TypeOK'
    <3>1. <<>> \in Seq(Calls) /\ node' = "down"
      BY <1>4 DEF StopDetector
    <3> QED
      BY <1>0, <1>1, <1>4, <3>1 DEF TypeOK, Inv, bridgeVars, handlerVars
  <2>2. UnderWay' = {}
    BY <1>4 DEF UnderWay, ToSet
  <2>3. OneCall'
    BY <1>4 DEF OneCall
  <2> QED
    BY <1>1, <1>2, <2>1, <2>2, <2>3 DEF BridgeInv, CallsOK
<1> QED
  BY <1>3, <1>4 DEF DetectorStep, serviceVars

-----------------------------------------------------------------------------
(***************************************************************************)
(* The theorems                                                            *)
(***************************************************************************)

LEMMA BridgeInitInv == Init => BridgeInv
<1> SUFFICES ASSUME Init PROVE BridgeInv
  OBVIOUS
<1>1. Inv
  BY InitInv DEF Init
<1>2. TypeOK
  <2>1. node # "serving" /\ call = NoCall /\ calls \in Seq(Calls)
    BY DEF Init, DetectorInit
  <2>2. /\ to_set \in [Requests -> Seq(ParameterNames)]
        /\ applied \in [Requests -> SUBSET Settings]
    BY DEF Init
  <2>3. answer \in [Requests -> Answers]
    BY DEF Init, NoAnswer, Answers
  <2> QED
    BY <1>1, <2>1, <2>2, <2>3 DEF Init, TypeOK, Inv
<1>3. CallsOK /\ OneCall
  BY DEF Init, CallsOK, UnderWay, ToSet, OneCall
<1>4. \A r \in Requests : HandlerOK(r) /\ AnswerOK(r)
  <2>1. NoAnswer.status = 0
    BY DEF NoAnswer
  <2> QED
    BY <2>1 DEF Init, HandlerOK, AnswerOK
<1> QED
  BY <1>1, <1>2, <1>3, <1>4 DEF BridgeInv

\* The server thread and main() stay away from requests and from the detector.
LEMMA ServerStepKeeps ==
  ASSUME BridgeInv, UNCHANGED exceptMain,
         main' \in {"spin", "stop", "join", "exited"},
         server' \in {"starting", "listening", "draining", "ended"}
  PROVE  BridgeInv'
<1>1. UNCHANGED <<detectorVars, calls, call, applied, handlerVars>>
  BY DEF exceptMain, serviceVars
<1>2. Inv'
  BY <1>1, DetectorKept DEF BridgeInv
<1>3. TypeOK'
  BY <1>1, <1>2 DEF BridgeInv, TypeOK, Inv, handlerVars, detectorVars
<1>4. UnderWay' = UnderWay /\ OneCall'
  BY <1>1 DEF UnderWay, ToSet, BridgeInv, OneCall
<1> QED
  BY <1>1, <1>2, <1>3, <1>4, RequestsKept DEF BridgeInv, CallsOK

\* The invariant holds always.
LEMMA BridgeInvariant == Spec => []BridgeInv
<1>1. BridgeInv /\ [Next]_vars => BridgeInv'
  <2> SUFFICES ASSUME BridgeInv, [Next]_vars PROVE BridgeInv'
    OBVIOUS
  <2>1. CASE \E r \in Requests : Arrive(r) \/ HandlerStep(r)
    BY <2>1, ArriveKeeps, HandlerStepKeeps
  <2>2. CASE ServiceStep
    BY <2>2, TakeCallKeeps, ServeSetKeeps, FinishCallKeeps DEF ServiceStep
  <2>3. CASE DetectorStep
    BY <2>3, DetectorStepKeeps
  <2>4. CASE ServerStep \/ SpinReturns \/ UNCHANGED vars
    <3>1. main \in {"spin", "stop", "join", "exited"}
          /\ server \in {"starting", "listening", "draining", "ended"}
      BY DEF BridgeInv, TypeOK
    <3>2. UNCHANGED exceptMain
      BY <2>4 DEF ServerStep, SpinReturns, Listen, Drain, StopServer, JoinServer,
         exceptMain, vars, bridgeVars
    <3>3. /\ main' \in {"spin", "stop", "join", "exited"}
          /\ server' \in {"starting", "listening", "draining", "ended"}
      BY <2>4, <3>1 DEF ServerStep, SpinReturns, Listen, Drain, StopServer, JoinServer,
         vars, bridgeVars
    <3> QED
      BY <3>2, <3>3, ServerStepKeeps
  <2> QED
    BY <2>1, <2>2, <2>3, <2>4 DEF Next
<1> QED
  BY <1>1, BridgeInitInv, PTL DEF Spec

\* The bridge and the calls it sends keep their types, and the detector serves a
\* call exactly when it has one.
THEOREM BridgeTyped == Spec => []TypeOK
<1>1. BridgeInv => TypeOK
  BY DEF BridgeInv
<1> QED
  BY <1>1, BridgeInvariant, PTL

\* Whatever the timeouts, the restarts of the detector and the other requests:
\* an answer 200 to a POST names exactly what the detector set, and the values
\* are those that were asked for.
THEOREM AnswersAlwaysTruthful == Spec => []AnswersTruthful
<1>1. BridgeInv => AnswersTruthful
  BY DEF BridgeInv, AnswerOK, Truthful, AnswersTruthful
<1> QED
  BY <1>1, BridgeInvariant, PTL

\* Any other answer, but for the timeout of set_parameters, means that nothing
\* was set and that no call is left that could set something.
THEOREM ErrorsNeverSet == Spec => []ErrorsSetNothing
<1>1. BridgeInv => ErrorsSetNothing
  <2> SUFFICES ASSUME BridgeInv, NEW r \in Requests,
                      answer[r].status \notin {0, 200},
                      ~(answer[r].status = 504 /\ answer[r].during = "set")
               PROVE  /\ applied[r] = {}
                      /\ \A c \in {call} \cup ToSet(calls) : ~(c.req = r /\ c.kind = "set")
    BY DEF ErrorsSetNothing
  <2>1. applied[r] = {}
    BY DEF BridgeInv, AnswerOK
  <2>2. phase[r] = "answered"
    <3>1. NoAnswer.status = 0
      BY DEF NoAnswer
    <3> QED
      BY <3>1 DEF BridgeInv, HandlerOK
  <2>3. ASSUME NEW c \in UnderWay, c.req = r, c.kind = "set"
        PROVE  FALSE
    BY <2>2, <2>3 DEF BridgeInv, CallsOK, CallOK, PhaseOf
  <2>4. NoCall.kind # "set"
    BY DEF NoCall
  <2> QED
    BY <2>1, <2>3, <2>4 DEF UnderWay
<1> QED
  BY <1>1, BridgeInvariant, PTL

\* The detector's settings stay sound when requests, of any number and in any
\* order, change them name by name through the bridge.
THEOREM SettingsSoundThroughBridge == Spec => []SettingsSound
<1>1. BridgeInv => SettingsSound
  BY AcceptedIsSound DEF BridgeInv, Inv, DetectorTypeOK, SettingsAccepted, SettingsSound
<1> QED
  BY <1>1, BridgeInvariant, PTL
=============================================================================
