------------------------- MODULE ParameterPageProofs -------------------------
(***************************************************************************)
(* For any nodes, parameters and values, any number of loads and updates   *)
(* under way and whatever other clients set: what ParameterPage promises   *)
(* of a reload that overlaps with no other, and of what an update sends.   *)
(***************************************************************************)
EXTENDS ParameterPage, WellFoundedInduction, TLAPS

-----------------------------------------------------------------------------
(***************************************************************************)
(* The inductive invariant                                                 *)
(***************************************************************************)

\* A sequence, of whatever.
IsSequence(s) == s \in Seq(ToSet(s))

\* A load that is not under way is as if it had never been, and the nodes keep
\* the parameters they have declared.
LoadsTyped ==
  /\ DOMAIN loads = Loads
  /\ \A l \in Loads :
       /\ DOMAIN loads[l] = {"stage", "read"}
       /\ IsSequence(loads[l].read)
       /\ loads[l].stage = "free" => loads[l].read = <<>>

ValuesTyped ==
  /\ DOMAIN values = Nodes
  /\ \A node \in Nodes : DOMAIN values[node] = Names(node)

\* What is shown of a node, or has been read from it, is what it holds now, but
\* for what the page has not been told of.
Current(node, shownValues) ==
  /\ node \in Nodes
  /\ DOMAIN shownValues \subseteq Names(node)
  /\ \A n \in DOMAIN shownValues :
       <<node, n>> \in told =>
         shownValues[n] = ToJson(values[node][n], Declared[node][n])

OneLoad == \A l, k \in LoadsUnderWay : l = k

\* The nodes a load has read, in their order.
ReadsCurrent ==
  \A l \in LoadsUnderWay :
    /\ Len(loads[l].read) <= Len(TargetNodes)
    /\ \A i \in DOMAIN loads[l].read :
         /\ loads[l].read[i].node = TargetNodes[i]
         /\ Current(TargetNodes[i], loads[l].read[i].values)

\* The cards, one of each node, in their order.
CardsCurrent ==
  /\ IsSequence(shown) /\ Len(shown) = Len(TargetNodes)
  /\ \A i \in DOMAIN shown :
       /\ {"node", "original"} \subseteq DOMAIN shown[i]
       /\ shown[i].node = TargetNodes[i]
       /\ Current(TargetNodes[i], shown[i].original)

\* A page that is being loaded is empty; one that has been loaded shows
\* everything, or that it could not be loaded.
PageCurrent ==
  /\ LoadsUnderWay # {} => shown = <<>>
  /\ (started /\ LoadsUnderWay = {}) =>
       (shown = <<>> /\ status = "error") \/ CardsCurrent

Inv ==
  /\ LoadsTyped /\ ValuesTyped
  /\ ~overlapped => OneLoad /\ ReadsCurrent /\ PageCurrent

-----------------------------------------------------------------------------
(***************************************************************************)
(* Sequences and values                                                    *)
(***************************************************************************)

\* A function from 1 .. n is a sequence.
LEMMA SeqDef ==
  ASSUME NEW T, NEW n \in Nat, NEW s \in [1 .. n -> T]
  PROVE  s \in Seq(T) /\ Len(s) = n
OBVIOUS

\* A sequence over some set is a sequence.
LEMMA SequenceOf ==
  ASSUME NEW T, NEW s \in Seq(T)
  PROVE  IsSequence(s)
<1> DEFINE S == ToSet(s)
<1>1. Len(s) \in Nat /\ s \in [1 .. Len(s) -> T] /\ DOMAIN s = 1 .. Len(s)
  OBVIOUS
<1>2. \A i \in 1 .. Len(s) : s[i] \in S
  BY <1>1 DEF ToSet
<1> HIDE DEF S
<1>3. s \in [1 .. Len(s) -> S]
  BY <1>1, <1>2
<1> QED
  BY <1>1, <1>3, SeqDef DEF IsSequence, S

LEMMA EmptySequence == IsSequence(<<>>)
<1>1. <<>> \in Seq({})
  OBVIOUS
<1> QED
  BY <1>1, SequenceOf

\* One more element makes a sequence again.
LEMMA Appended ==
  ASSUME NEW s, IsSequence(s), NEW e
  PROVE  /\ IsSequence(Append(s, e))
         /\ Len(s) \in Nat /\ DOMAIN s = 1 .. Len(s)
         /\ DOMAIN Append(s, e) = 1 .. Len(s) + 1 /\ Len(Append(s, e)) = Len(s) + 1
         /\ \A i \in DOMAIN s : Append(s, e)[i] = s[i]
         /\ Append(s, e)[Len(s) + 1] = e
<1> DEFINE T == ToSet(s) \cup {e}
<1>1. s \in Seq(T) /\ e \in T
  <2> DEFINE S == ToSet(s)
  <2>1. s \in Seq(S)
    BY DEF IsSequence
  <2>2. S \subseteq T /\ e \in T
    OBVIOUS
  <2> HIDE DEF S, T
  <2>3. Len(s) \in Nat /\ s \in [1 .. Len(s) -> S]
    BY <2>1
  <2>4. s \in [1 .. Len(s) -> T]
    BY <2>2, <2>3
  <2> QED
    BY <2>2, <2>3, <2>4, SeqDef
<1> HIDE DEF T
<1>2. /\ Append(s, e) \in Seq(T) /\ Len(s) \in Nat /\ DOMAIN s = 1 .. Len(s)
      /\ DOMAIN Append(s, e) = 1 .. Len(s) + 1 /\ Len(Append(s, e)) = Len(s) + 1
      /\ \A i \in DOMAIN s : Append(s, e)[i] = s[i]
      /\ Append(s, e)[Len(s) + 1] = e
  BY <1>1
<1> QED
  BY <1>2, SequenceOf

\* So does a function from 1 .. n.
LEMMA Listed ==
  ASSUME NEW n \in Nat, NEW s, s = [i \in 1 .. n |-> s[i]]
  PROVE  IsSequence(s) /\ Len(s) = n /\ DOMAIN s = 1 .. n
<1> DEFINE S == ToSet(s)
<1>1. DOMAIN s = 1 .. n
  OBVIOUS
<1>2. \A i \in 1 .. n : s[i] \in S
  BY <1>1 DEF ToSet
<1> HIDE DEF S
<1>3. s \in [1 .. n -> S]
  BY <1>2
<1> QED
  BY <1>1, <1>3, SeqDef DEF IsSequence, S

\* A value that is set is one the page has not been told of.
LEMMA SetValueCurrent ==
  ASSUME ValuesTyped, NEW a, NEW b, NEW value, NEW u,
         SetValue(<<a, b>>, value, u)
  PROVE  /\ ValuesTyped'
         /\ \A node, old : Current(node, old) => Current(node, old)'
<1>1. /\ values' = [values EXCEPT ![a][b] = value]
      /\ told' = told \ {<<a, b>>}
  BY DEF SetValue
<1>2. ValuesTyped'
  BY <1>1 DEF ValuesTyped
<1>3. ASSUME NEW node, NEW old, Current(node, old)
      PROVE  Current(node, old)'
  <2> SUFFICES ASSUME NEW n \in DOMAIN old, <<node, n>> \in told'
               PROVE  old[n] = ToJson(values'[node][n], Declared[node][n])
    BY <1>3 DEF Current
  <2>1. node \in Nodes /\ n \in DOMAIN values[node] /\ node \in DOMAIN values
    BY <1>3 DEF Current, ValuesTyped
  <2>2. <<node, n>> # <<a, b>> /\ <<node, n>> \in told
    BY <1>1
  <2>3. values'[node][n] = values[node][n]
    <3>1. CASE node # a
      BY <1>1, <2>1, <3>1
    <3>2. CASE node = a /\ n # b
      BY <1>1, <2>1, <3>2
    <3>3. CASE node = a /\ n = b
      BY <1>1, <2>1, <2>2, <3>3
    <3> QED
      BY <3>1, <3>2, <3>3
  <2> QED
    BY <1>3, <2>2, <2>3 DEF Current
<1> QED
  BY <1>2, <1>3

-----------------------------------------------------------------------------
(***************************************************************************)
(* The steps                                                               *)
(***************************************************************************)
LEMMA InitInv == Init => Inv
<1> SUFFICES ASSUME Init PROVE Inv
  OBVIOUS
<1> USE DEF Init, NoLoad
<1>1. LoadsUnderWay = {}
  BY DEF LoadsUnderWay
<1>3. LoadsTyped
  BY EmptySequence DEF LoadsTyped
<1>4. ValuesTyped
  BY PageAssumption DEF ValuesTyped
<1> QED
  BY <1>1, <1>3, <1>4 DEF Inv, OneLoad, ReadsCurrent, PageCurrent

\* A load that begins finds an empty page and has read nothing; if another one
\* is under way, that is remembered.
LEMMA BeginLoadKeeps ==
  ASSUME Inv, NEW l \in Loads, NEW rest, BeginLoad(l, rest), UNCHANGED values
  PROVE  Inv'
<1>1. /\ loads[l].stage = "free" /\ loads' = [loads EXCEPT ![l].stage = "reading"]
      /\ overlapped' = (LoadsUnderWay # {}) /\ shown' = <<>>
  BY DEF BeginLoad
<1>2. loads[l].read = <<>> /\ DOMAIN loads[l] = {"stage", "read"}
  BY <1>1 DEF Inv, LoadsTyped
<1>3. /\ DOMAIN loads' = Loads /\ DOMAIN loads'[l] = {"stage", "read"}
      /\ loads'[l].stage = "reading" /\ loads'[l].read = <<>>
      /\ \A k \in Loads \ {l} : loads'[k] = loads[k]
  BY <1>1, <1>2 DEF Inv, LoadsTyped
<1>4. LoadsTyped'
  <2>1. \A k \in Loads : /\ DOMAIN loads'[k] = {"stage", "read"}
                         /\ IsSequence(loads'[k].read)
                         /\ loads'[k].stage = "free" => loads'[k].read = <<>>
    BY <1>3, EmptySequence DEF Inv, LoadsTyped
  <2> QED
    BY <1>3, <2>1 DEF LoadsTyped
<1>5. ValuesTyped'
  BY DEF Inv, ValuesTyped
<1>6. LoadsUnderWay' = LoadsUnderWay \cup {l}
  BY <1>3 DEF LoadsUnderWay
<1>7. ~overlapped' => OneLoad' /\ ReadsCurrent' /\ PageCurrent'
  <2> HAVE ~overlapped'
  <2>1. LoadsUnderWay' = {l}
    BY <1>1, <1>6
  <2>2. ReadsCurrent'
    <3>1. Len(TargetNodes) \in Nat /\ Len(<<>>) = 0 /\ DOMAIN <<>> = {}
      BY PageAssumption
    <3> QED
      BY <1>3, <2>1, <3>1 DEF ReadsCurrent
  <2> QED
    BY <1>1, <2>1, <2>2 DEF OneLoad, PageCurrent
<1> QED
  BY <1>4, <1>5, <1>7 DEF Inv

\* What becomes of the fields and the button of a card: it stays the card of its
\* node, with the values it was made of.
CardsKept ==
  /\ shown' = [i \in DOMAIN shown |-> shown'[i]]
  /\ \A i \in DOMAIN shown :
       {"node", "original"} \subseteq DOMAIN shown[i] =>
         /\ {"node", "original"} \subseteq DOMAIN shown'[i]
         /\ shown'[i].node = shown[i].node /\ shown'[i].original = shown[i].original

LEMMA CardsKeptKeeps ==
  ASSUME Inv, CardsKept, UNCHANGED <<started, loads, values, told, overlapped>>,
         status' = status \/ status' = "error" \/ shown # <<>>
  PROVE  Inv'
<1>1. LoadsUnderWay' = LoadsUnderWay
  BY DEF LoadsUnderWay
<1>2. \A node, old : Current(node, old)' <=> Current(node, old)
  BY DEF Current
<1>3. LoadsTyped' /\ ValuesTyped'
  BY DEF Inv, LoadsTyped, ValuesTyped, IsSequence
<1>4. ReadsCurrent => ReadsCurrent'
  BY <1>1 DEF ReadsCurrent, Current
<1>5. shown = <<>> => shown' = <<>>
  <2> HAVE shown = <<>>
  <2>1. shown' = [i \in 1 .. 0 |-> shown'[i]]
    BY DEF CardsKept
  <2>2. shown' \in Seq(ToSet(shown')) /\ Len(shown') = 0
    BY <2>1, Listed DEF IsSequence
  <2> QED
    BY <2>2
<1>6. CardsCurrent => CardsCurrent'
  <2> HAVE CardsCurrent
  <2>1. Len(shown) \in Nat /\ DOMAIN shown = 1 .. Len(shown)
    BY DEF CardsCurrent, IsSequence
  <2>2. shown' = [i \in 1 .. Len(shown) |-> shown'[i]]
    BY <2>1 DEF CardsKept
  <2>3. IsSequence(shown') /\ Len(shown') = Len(shown) /\ DOMAIN shown' = DOMAIN shown
    BY <2>1, <2>2, Listed
  <2>4. \A i \in DOMAIN shown :
          /\ {"node", "original"} \subseteq DOMAIN shown'[i]
          /\ shown'[i].node = TargetNodes[i] /\ shown'[i].original = shown[i].original
          /\ Current(TargetNodes[i], shown[i].original)
    BY DEF CardsCurrent, CardsKept
  <2> QED
    BY <2>3, <2>4 DEF CardsCurrent, Current, IsSequence
<1>7. OneLoad => OneLoad'
  BY <1>1 DEF OneLoad
<1>8. (~overlapped /\ PageCurrent) => PageCurrent'
  BY <1>1, <1>5, <1>6 DEF PageCurrent, CardsCurrent
<1> QED
  BY <1>3, <1>4, <1>7, <1>8 DEF Inv

\* What the user types, a click, and an error of an update.
LEMMA CardStepKeeps ==
  Inv /\ (Edit \/ UpdateNode \/ \E u \in Updates : UpdateFailed(u)) => Inv'
<1> SUFFICES ASSUME Inv, Edit \/ UpdateNode \/ \E u \in Updates : UpdateFailed(u)
             PROVE  Inv'
  OBVIOUS
<1>1. CASE Edit
  <2>1. PICK i \in DOMAIN shown : \E n, text :
          shown' = [shown EXCEPT ![i].field[n] = text, ![i].edited = @ \cup {n}]
    BY <1>1 DEF Edit
  <2>2. CardsKept
    <3>1. PICK n, text :
            shown' = [shown EXCEPT ![i].field[n] = text, ![i].edited = @ \cup {n}]
      BY <2>1
    <3> QED
      BY <3>1 DEF CardsKept
  <2> QED
    BY <1>1, <2>2, CardsKeptKeeps DEF Edit
<1>2. CASE UpdateNode
  <2>1. PICK i \in DOMAIN shown :
          shown' = shown \/ shown' = [shown EXCEPT ![i].disabled = TRUE]
    BY <1>2 DEF UpdateNode
  <2>2. CASE shown' = [shown EXCEPT ![i].disabled = TRUE]
    <3>1. CardsKept
      BY <2>2 DEF CardsKept
    <3>2. shown # <<>>
      OBVIOUS
    <3> QED
      BY <1>2, <3>1, <3>2, CardsKeptKeeps DEF UpdateNode
  <2>3. CASE shown' = shown
    <3>1. UNCHANGED <<started, shown, loads, values, told, overlapped>>
      BY <1>2, <2>3 DEF UpdateNode
    <3>2. LoadsUnderWay' = LoadsUnderWay
      BY <3>1 DEF LoadsUnderWay
    <3>3. shown # <<>>
      OBVIOUS
    <3> QED
      BY <3>1, <3>2, <3>3 DEF Inv, LoadsTyped, IsSequence, ValuesTyped, OneLoad, ReadsCurrent,
         PageCurrent, CardsCurrent, Current
  <2> QED
    BY <2>1, <2>2, <2>3
<1>3. ASSUME NEW u \in Updates, UpdateFailed(u)
      PROVE  Inv'
  <2>1. /\ UNCHANGED <<started, loads, values, told, overlapped>> /\ status' = "error"
        /\ \/ shown' = shown
           \/ shown' = [shown EXCEPT ![updates[u].card].disabled = FALSE]
    BY <1>3 DEF UpdateFailed
  <2>2. CASE shown' = [shown EXCEPT ![updates[u].card].disabled = FALSE]
    <3>1. CardsKept
      BY <2>2 DEF CardsKept
    <3> QED
      BY <2>1, <3>1, CardsKeptKeeps
  <2>3. CASE shown' = shown
    <3>1. LoadsUnderWay' = LoadsUnderWay
      BY <2>1 DEF LoadsUnderWay
    <3> QED
      BY <2>1, <2>3, <3>1 DEF Inv, LoadsTyped, IsSequence, ValuesTyped, OneLoad, ReadsCurrent,
         PageCurrent, CardsCurrent, Current
  <2> QED
    BY <2>1, <2>2, <2>3
<1> QED
  BY <1>1, <1>2, <1>3

\* A parameter that is set, by whomever, is told no more.
LEMMA SetKeeps ==
  ASSUME Inv, NEW a, NEW b, NEW value, NEW u, SetValue(<<a, b>>, value, u),
         UNCHANGED <<started, shown, status, loads, overlapped>>
  PROVE  Inv'
<1>1. /\ ValuesTyped'
      /\ \A node, old : Current(node, old) => Current(node, old)'
  BY SetValueCurrent DEF Inv
<1>2. LoadsUnderWay' = LoadsUnderWay
  BY DEF LoadsUnderWay
<1>3. LoadsTyped'
  BY DEF Inv, LoadsTyped, IsSequence
<1>4. ReadsCurrent => ReadsCurrent'
  <2> SUFFICES ASSUME ReadsCurrent, NEW l \in LoadsUnderWay, NEW i \in DOMAIN loads[l].read
               PROVE  Current(TargetNodes[i], loads[l].read[i].values)'
    BY <1>2 DEF ReadsCurrent
  <2>1. Current(TargetNodes[i], loads[l].read[i].values)
    BY DEF ReadsCurrent
  <2> PICK node, old : node = TargetNodes[i] /\ old = loads[l].read[i].values
    OBVIOUS
  <2>2. Current(node, old)'
    BY <1>1, <2>1
  <2> QED
    BY <2>2 DEF Current
<1>5. CardsCurrent => CardsCurrent'
  <2> HAVE CardsCurrent
  <2>1. ASSUME NEW i \in DOMAIN shown
        PROVE  Current(TargetNodes[i], shown[i].original)'
    <3>1. Current(TargetNodes[i], shown[i].original)
      BY DEF CardsCurrent
    <3> PICK node, old : node = TargetNodes[i] /\ old = shown[i].original
      OBVIOUS
    <3>2. Current(node, old)'
      BY <1>1, <3>1
    <3> QED
      BY <3>2 DEF Current
  <2> QED
    BY <2>1 DEF CardsCurrent, IsSequence
<1>6. OneLoad => OneLoad'
  BY <1>2 DEF OneLoad
<1>7. PageCurrent => PageCurrent'
  BY <1>2, <1>5 DEF PageCurrent
<1> QED
  BY <1>1, <1>3, <1>4, <1>6, <1>7 DEF Inv

\* One more node is read, with the values it holds.
LEMMA ReadNodeKeeps ==
  ASSUME Inv, NEW l \in Loads, ReadNode(l)
  PROVE  Inv'
<1> DEFINE read == loads[l].read
           node == TargetNodes[Len(read) + 1]
           json == [n \in Names(node) |-> ToJson(values[node][n], Declared[node][n])]
<1>0. /\ loads[l].stage = "reading" /\ Len(read) < Len(TargetNodes)
      /\ UNCHANGED <<started, shown, status, updates, values, told, overlapped>>
  BY DEF ReadNode
<1>1. PICK entry \in {[node |-> node, available |-> TRUE, values |-> json],
                      [node |-> node, available |-> FALSE, values |-> <<>>]} :
        loads' = [loads EXCEPT ![l].read = Append(@, entry)]
  BY DEF ReadNode
<1>2. /\ DOMAIN loads = Loads /\ DOMAIN loads[l] = {"stage", "read"} /\ IsSequence(read)
  BY DEF Inv, LoadsTyped
<1>3. /\ IsSequence(Append(read, entry)) /\ Len(read) \in Nat
      /\ DOMAIN read = 1 .. Len(read)
      /\ DOMAIN Append(read, entry) = 1 .. Len(read) + 1
      /\ Len(Append(read, entry)) = Len(read) + 1
      /\ \A i \in DOMAIN read : Append(read, entry)[i] = read[i]
      /\ Append(read, entry)[Len(read) + 1] = entry
  BY <1>2, Appended
<1>4. /\ DOMAIN loads' = Loads /\ DOMAIN loads'[l] = {"stage", "read"}
      /\ loads'[l].stage = "reading" /\ loads'[l].read = Append(read, entry)
      /\ \A k \in Loads \ {l} : loads'[k] = loads[k]
  BY <1>0, <1>1, <1>2
<1>5. /\ node \in Nodes /\ Len(TargetNodes) \in Nat /\ Len(read) + 1 <= Len(TargetNodes)
  BY <1>0, <1>3, PageAssumption
<1>6. entry.node = node /\ Current(node, entry.values)
  <2>1. CASE entry = [node |-> node, available |-> TRUE, values |-> json]
    <3>1. entry.node = node /\ entry.values = json
      BY <2>1
    <3> HIDE DEF node
    <3>2. /\ DOMAIN json = Names(node)
          /\ \A n \in Names(node) : json[n] = ToJson(values[node][n], Declared[node][n])
      OBVIOUS
    <3> QED
      BY <1>5, <3>1, <3>2 DEF Current
  <2>2. CASE entry = [node |-> node, available |-> FALSE, values |-> <<>>]
    <3>1. entry.node = node /\ DOMAIN entry.values = {}
      BY <2>2
    <3> QED
      BY <1>5, <3>1 DEF Current
  <2> QED
    BY <2>1, <2>2
<1> HIDE DEF read, node, json
<1>7. LoadsTyped'
  <2>1. \A k \in Loads : /\ DOMAIN loads'[k] = {"stage", "read"}
                         /\ IsSequence(loads'[k].read)
                         /\ loads'[k].stage = "free" => loads'[k].read = <<>>
    BY <1>3, <1>4 DEF Inv, LoadsTyped
  <2> QED
    BY <1>4, <2>1 DEF LoadsTyped
<1>8. LoadsUnderWay' = LoadsUnderWay
  BY <1>0, <1>4 DEF LoadsUnderWay
<1>9. ReadsCurrent => ReadsCurrent'
  <2> SUFFICES ASSUME ReadsCurrent, NEW k \in LoadsUnderWay
               PROVE  /\ Len(loads'[k].read) <= Len(TargetNodes)
                      /\ \A i \in DOMAIN loads'[k].read :
                           /\ loads'[k].read[i].node = TargetNodes[i]
                           /\ Current(TargetNodes[i], loads'[k].read[i].values)
    BY <1>0, <1>8 DEF ReadsCurrent, Current
  <2>1. k \in Loads
    BY DEF LoadsUnderWay
  <2>2. CASE k = l
    <3>1. \A i \in DOMAIN read :
            read[i].node = TargetNodes[i] /\ Current(TargetNodes[i], read[i].values)
      BY <2>2 DEF ReadsCurrent, read
    <3> QED
      BY <1>3, <1>4, <1>5, <1>6, <2>2, <3>1 DEF node
  <2>3. CASE k # l
    BY <1>4, <2>1, <2>3 DEF ReadsCurrent
  <2> QED
    BY <2>2, <2>3
<1>10. ValuesTyped' /\ (OneLoad => OneLoad') /\ (PageCurrent => PageCurrent')
  BY <1>0, <1>8 DEF Inv, ValuesTyped, OneLoad, PageCurrent, CardsCurrent, IsSequence, Current
<1> QED
  BY <1>0, <1>7, <1>9, <1>10 DEF Inv

\* A load that ends leaves no other; what it has read becomes the page.
LEMMA LoadEndsKeeps ==
  ASSUME Inv, NEW l \in Loads, LoadAnswered(l) \/ LoadFails(l)
  PROVE  Inv'
<1>0. /\ loads[l].stage = "reading" /\ loads' = [loads EXCEPT ![l] = NoLoad]
      /\ UNCHANGED <<started, updates, values, told, overlapped>>
  BY DEF LoadAnswered, LoadFails
<1>1. /\ DOMAIN loads' = Loads /\ loads'[l] = NoLoad
      /\ \A k \in Loads \ {l} : loads'[k] = loads[k]
  BY <1>0 DEF Inv, LoadsTyped
<1>2. /\ DOMAIN NoLoad = {"stage", "read"} /\ NoLoad.stage = "free" /\ NoLoad.read = <<>>
  BY DEF NoLoad
<1>3. LoadsTyped' /\ ValuesTyped'
  <2>1. \A k \in Loads : /\ DOMAIN loads'[k] = {"stage", "read"}
                         /\ IsSequence(loads'[k].read)
                         /\ loads'[k].stage = "free" => loads'[k].read = <<>>
    BY <1>1, <1>2, EmptySequence DEF Inv, LoadsTyped
  <2> QED
    BY <1>0, <1>1, <2>1 DEF LoadsTyped, Inv, ValuesTyped
<1>4. LoadsUnderWay' = LoadsUnderWay \ {l} /\ l \in LoadsUnderWay
  BY <1>0, <1>1, <1>2 DEF LoadsUnderWay
<1>5. ~overlapped => OneLoad' /\ ReadsCurrent' /\ PageCurrent'
  <2> HAVE ~overlapped
  <2>1. OneLoad /\ ReadsCurrent /\ shown = <<>>
    BY <1>4 DEF Inv, PageCurrent
  <2>2. LoadsUnderWay' = {}
    BY <1>4, <2>1 DEF OneLoad
  <2>3. OneLoad' /\ ReadsCurrent'
    BY <2>2 DEF OneLoad, ReadsCurrent
  <2>4. (shown' = <<>> /\ status' = "error") \/ CardsCurrent'
    <3>1. CASE LoadFails(l)
      BY <2>1, <3>1 DEF LoadFails
    <3>2. CASE LoadAnswered(l)
      <4> DEFINE read == loads[l].read
                 cards == [i \in DOMAIN TargetNodes |-> RenderNode(read[i])]
                 N == Len(TargetNodes)
      <4>1. /\ Len(read) = N /\ shown' = shown \o cards
        BY <3>2 DEF LoadAnswered
      <4>2. /\ N \in Nat /\ DOMAIN TargetNodes = 1 .. N /\ IsSequence(read)
            /\ DOMAIN read = 1 .. N
        BY <4>1, PageAssumption DEF Inv, LoadsTyped, IsSequence
      <4>3. IsSequence(cards) /\ Len(cards) = N /\ DOMAIN cards = 1 .. N
        <5>1. cards = [i \in 1 .. N |-> cards[i]]
          BY <4>2
        <5> HIDE DEF cards
        <5> QED
          BY <4>2, <5>1, Listed
      <4>4. \A i \in 1 .. N :
              /\ read[i].node = TargetNodes[i]
              /\ Current(TargetNodes[i], read[i].values)
        BY <1>4, <2>1, <4>2 DEF ReadsCurrent
      <4>5. \A i \in 1 .. N :
              /\ {"node", "original"} \subseteq DOMAIN cards[i]
              /\ cards[i].node = read[i].node /\ cards[i].original = read[i].values
        BY <4>2 DEF RenderNode
      <4> HIDE DEF cards, N, read
      <4>6. shown' = cards
        <5>1. cards \in Seq(ToSet(cards))
          BY <4>3 DEF IsSequence
        <5> QED
          BY <2>1, <4>1, <5>1
      <4>7. \A i \in DOMAIN shown' :
              /\ {"node", "original"} \subseteq DOMAIN shown'[i]
              /\ shown'[i].node = TargetNodes[i]
              /\ Current(TargetNodes[i], shown'[i].original)
        BY <4>3, <4>4, <4>5, <4>6
      <4> QED
        BY <1>0, <4>3, <4>6, <4>7 DEF CardsCurrent, IsSequence, Current, N
    <3> QED
      BY <3>1, <3>2
  <2> QED
    BY <2>2, <2>3, <2>4 DEF PageCurrent
<1> QED
  BY <1>0, <1>3, <1>5 DEF Inv

\* The invariant holds always.
LEMMA Invariant == Spec => []Inv
<1>1. Inv /\ [Next]_vars => Inv'
  <2> SUFFICES ASSUME Inv, [Next]_vars PROVE Inv'
    OBVIOUS
  <2>1. CASE Startup \/ Reload \/ \E u \in Updates : UpdateAnswered(u)
    BY <2>1, BeginLoadKeeps DEF Startup, Reload, UpdateAnswered
  <2>2. CASE Edit \/ UpdateNode \/ \E u \in Updates : UpdateFailed(u)
    BY <2>2, CardStepKeeps
  <2>3. CASE SetByOther \/ \E u \in Updates : SetOne(u)
    BY <2>3, SetKeeps DEF SetByOther, SetOne
  <2>4. CASE \E l \in Loads : LoadStep(l)
    BY <2>4, ReadNodeKeeps, LoadEndsKeeps DEF LoadStep
  <2>5. CASE (\E u \in Updates : RefuseOne(u)) \/ UNCHANGED vars
    <3>1. UNCHANGED <<started, shown, status, loads, values, told, overlapped>>
      BY <2>5 DEF RefuseOne, vars, pageVars
    <3>2. LoadsUnderWay' = LoadsUnderWay
      BY <3>1 DEF LoadsUnderWay
    <3> QED
      BY <3>1, <3>2 DEF Inv, LoadsTyped, IsSequence, ValuesTyped, OneLoad, ReadsCurrent,
         PageCurrent, CardsCurrent, Current
  <2> QED
    BY <2>1, <2>2, <2>3, <2>4, <2>5 DEF Next, UpdateStep
<1> QED
  BY <1>1, InitInv, PTL DEF Spec

-----------------------------------------------------------------------------
(***************************************************************************)
(* The texts of an array.  JoinedTexts is a recursive function: that it is *)
(* defined, and what it gives, is shown with the least number for which it *)
(* would not be so.                                                        *)
(***************************************************************************)
LEMMA Least ==
  ASSUME NEW S, S \subseteq Nat, S # {}
  PROVE  \E n \in S : \A m \in S : n <= m
<1> DEFINE R == OpToRel(<, Nat)
<1>1. IsWellFoundedOn(R, Nat)
  BY NatLessThanWellFounded
<1>2. R = {ss \in Nat \X Nat : ss[1] < ss[2]}
  BY DEF OpToRel
<1> HIDE DEF R
<1>3. PICK n \in S : \A m \in S : <<m, n>> \notin R
  BY <1>1, WFMin
<1>4. ASSUME NEW m \in S PROVE n <= m
  <2>1. <<m, n>> \notin R /\ m \in Nat /\ n \in Nat
    BY <1>3
  <2>2. ~(m < n)
    BY <1>2, <2>1
  <2> QED
    BY <2>1, <2>2
<1> QED
  BY <1>4

\* One more element is joined to the texts of those before it.
Longer(texts, elements, k) == texts \o ElementTexts(elements[k])

\* The texts up to the k-th element, for every k.
Joins(f, elements, S, n) ==
  /\ f \in [0 .. n -> Seq(S)]
  /\ f[0] = <<>>
  /\ \A k \in 1 .. n : f[k] = Longer(f[k - 1], elements, k)

LEMMA JoinExists ==
  ASSUME NEW elements, NEW S, NEW n \in Nat,
         \A k \in 1 .. n : ElementTexts(elements[k]) \in Seq(S)
  PROVE  \E f : Joins(f, elements, S, n)
<1> DEFINE bad == {k \in 0 .. n : ~\E f : Joins(f, elements, S, k)}
<1> SUFFICES ASSUME bad # {} PROVE FALSE
  OBVIOUS
<1>1. PICK k \in bad : \A j \in bad : k <= j
  <2>1. bad \subseteq Nat
    OBVIOUS
  <2> HIDE DEF bad
  <2> QED
    BY <2>1, Least
<1>0. k \in 0 .. n /\ ~\E f : Joins(f, elements, S, k)
  OBVIOUS
<1>2. k # 0
  <2> DEFINE f == [i \in 0 .. 0 |-> <<>>]
  <2>1. f \in [0 .. 0 -> Seq(S)] /\ f[0] = <<>>
    OBVIOUS
  <2> HIDE DEF f
  <2>2. Joins(f, elements, S, 0)
    BY <2>1 DEF Joins
  <2> QED
    BY <1>0, <2>2
<1>3. k \in 1 .. n /\ k - 1 \in 0 .. n
  BY <1>0, <1>2
<1>4. PICK f : Joins(f, elements, S, k - 1)
  <2>1. ~(k <= k - 1)
    BY <1>3
  <2>2. k - 1 \notin bad
    <3> HIDE DEF bad
    <3> QED
      BY <1>1, <2>1
  <2> QED
    BY <1>3, <2>2
<1> HIDE DEF bad
<1> DEFINE g == [i \in 0 .. k |-> IF i = k THEN Longer(f[k - 1], elements, k) ELSE f[i]]
<1>5. f[k - 1] \in Seq(S) /\ ElementTexts(elements[k]) \in Seq(S)
  BY <1>3, <1>4 DEF Joins
<1>6. Longer(f[k - 1], elements, k) \in Seq(S)
  BY <1>5 DEF Longer
<1>7. Joins(g, elements, S, k)
  <2>1. g \in [0 .. k -> Seq(S)]
    BY <1>3, <1>4, <1>6 DEF Joins
  <2>2. g[0] = <<>>
    BY <1>3, <1>4 DEF Joins
  <2>3. ASSUME NEW i \in 1 .. k
        PROVE  g[i] = Longer(g[i - 1], elements, i)
    <3>1. i - 1 \in 0 .. k /\ i - 1 # k /\ i \in 0 .. k /\ g[i - 1] = f[i - 1]
      BY <1>3
    <3>2. CASE i = k
      BY <3>1, <3>2
    <3>3. CASE i # k
      <4>1. i \in 1 .. k - 1
        BY <1>3, <3>3
      <4>2. f[i] = Longer(f[i - 1], elements, i)
        BY <1>4, <4>1 DEF Joins
      <4> QED
        BY <3>1, <3>3, <4>2
    <3> QED
      BY <3>2, <3>3
  <2> HIDE DEF g
  <2> QED
    BY <2>1, <2>2, <2>3 DEF Joins
<1> QED
  BY <1>0, <1>7

\* JoinedTexts of n elements is the n-th of them.
LEMMA Joined ==
  ASSUME NEW E, NEW S, NEW elements \in Seq(E),
         \A k \in DOMAIN elements : ElementTexts(elements[k]) \in Seq(S)
  PROVE  \E f : /\ Joins(f, elements, S, Len(elements))
                /\ JoinedTexts(elements) = f[Len(elements)]
<1> DEFINE n == Len(elements)
           step(f) == [k \in 0 .. n |->
                         IF k = 0 THEN <<>> ELSE Longer(f[k - 1], elements, k)]
           upTo == CHOOSE f : f = step(f)
<1>1. JoinedTexts(elements) = upTo[n]
  BY DEF JoinedTexts, Longer
<1>2. n \in Nat /\ DOMAIN elements = 1 .. n
  OBVIOUS
<1>3. PICK f : Joins(f, elements, S, n)
  <2> HIDE DEF n
  <2> QED
    BY <1>2, JoinExists
<1>4. f = step(f)
  <2>1. ASSUME NEW k \in 0 .. n PROVE f[k] = step(f)[k]
    BY <1>2, <1>3 DEF Joins
  <2>2. f = [k \in 0 .. n |-> f[k]]
    BY <1>3 DEF Joins
  <2> HIDE DEF n
  <2> QED
    BY <2>1, <2>2
<1>5. upTo = step(upTo)
  <2> HIDE DEF step, n
  <2> QED
    BY <1>4
<1> HIDE DEF upTo
<1>6. ASSUME NEW k \in 0 .. n PROVE upTo[k] = f[k]
  <2> DEFINE bad == {j \in 0 .. n : upTo[j] # f[j]}
  <2> SUFFICES ASSUME bad # {} PROVE FALSE
    OBVIOUS
  <2>1. PICK j \in bad : \A i \in bad : j <= i
    <3>1. bad \subseteq Nat
      BY <1>2
    <3> HIDE DEF bad
    <3> QED
      BY <3>1, Least
  <2>2. step(upTo)[0] = <<>> /\ step(f)[0] = <<>>
    BY <1>2
  <2>3. j # 0
    BY <1>4, <1>5, <2>1, <2>2
  <2>4. j \in 1 .. n /\ j - 1 \in 0 .. n /\ j - 1 \notin bad
    BY <1>2, <2>1, <2>3
  <2>5. upTo[j - 1] = f[j - 1]
    BY <2>4
  <2>6. step(upTo)[j] = Longer(upTo[j - 1], elements, j)
    BY <1>2, <2>4
  <2>7. step(f)[j] = Longer(f[j - 1], elements, j)
    BY <1>2, <2>4
  <2>8. upTo[j] = step(upTo)[j] /\ f[j] = step(f)[j]
    <3> HIDE DEF step
    <3> QED
      BY <1>4, <1>5
  <2> QED
    BY <2>1, <2>5, <2>6, <2>7, <2>8
<1> QED
  BY <1>1, <1>2, <1>3, <1>6

\* Whatever the texts of the elements, what is joined is a sequence of texts.
LEMMA JoinedTyped ==
  ASSUME NEW E, NEW S, NEW elements \in Seq(E),
         \A k \in DOMAIN elements : ElementTexts(elements[k]) \in Seq(S)
  PROVE  JoinedTexts(elements) \in Seq(S)
<1>1. PICK f : /\ Joins(f, elements, S, Len(elements))
               /\ JoinedTexts(elements) = f[Len(elements)]
  BY Joined
<1>2. Len(elements) \in 0 .. Len(elements)
  OBVIOUS
<1> QED
  BY <1>1, <1>2 DEF Joins

\* If each element makes one text, these are the texts.
LEMMA JoinedSingles ==
  ASSUME NEW E, NEW S, NEW elements \in Seq(E), NEW text, text \in [DOMAIN elements -> S],
         \A k \in DOMAIN elements : ElementTexts(elements[k]) = <<text[k]>>
  PROVE  JoinedTexts(elements) = text
<1> DEFINE n == Len(elements)
<1>1. n \in Nat /\ DOMAIN elements = 1 .. n /\ text \in [1 .. n -> S]
  OBVIOUS
<1>2. \A k \in 1 .. n : ElementTexts(elements[k]) \in Seq(S)
  <2> TAKE k \in 1 .. n
  <2>1. text[k] \in S /\ ElementTexts(elements[k]) = <<text[k]>>
    BY <1>1
  <2>2. <<text[k]>> \in Seq(S)
    BY <2>1
  <2> QED
    BY <2>1, <2>2
<1>3. PICK f : Joins(f, elements, S, n) /\ JoinedTexts(elements) = f[n]
  BY <1>1, <1>2, Joined
<1> HIDE DEF n
<1> DEFINE prefix(k) == [i \in 1 .. k |-> text[i]]
           bad == {k \in 0 .. n : f[k] # prefix(k)}
<1>4. bad = {}
  <2> SUFFICES ASSUME bad # {} PROVE FALSE
    OBVIOUS
  <2>1. PICK k \in bad : \A j \in bad : k <= j
    <3>1. bad \subseteq Nat
      BY <1>1
    <3> HIDE DEF bad
    <3> QED
      BY <3>1, Least
  <2>2. k \in 0 .. n /\ f[k] # prefix(k)
    OBVIOUS
  <2>3. k # 0
    <3>1. f[0] = <<>>
      BY <1>3 DEF Joins
    <3>2. prefix(0) = <<>>
      OBVIOUS
    <3> QED
      BY <2>2, <3>1, <3>2
  <2>4. k \in 1 .. n /\ k - 1 \in 0 .. n /\ ~(k <= k - 1)
    BY <1>1, <2>2, <2>3
  <2>5. f[k - 1] = prefix(k - 1)
    <3>1. k - 1 \notin bad
      <4> HIDE DEF bad
      <4> QED
        BY <2>1, <2>4
    <3> QED
      BY <2>4, <3>1
  <2>6. f[k] = f[k - 1] \o <<text[k]>>
    BY <1>1, <1>3, <2>4 DEF Joins, Longer
  <2>7. prefix(k - 1) \in Seq(S) /\ Len(prefix(k - 1)) = k - 1 /\ text[k] \in S
    <3>1. k - 1 \in Nat /\ prefix(k - 1) \in [1 .. k - 1 -> S] /\ text[k] \in S
      BY <1>1, <2>4
    <3> HIDE DEF prefix
    <3> QED
      BY <3>1, SeqDef
  <2>8. prefix(k - 1) \o <<text[k]>> = prefix(k)
    BY <1>1, <2>4, <2>7
  <2> QED
    BY <2>2, <2>5, <2>6, <2>8
<1>5. f[n] = prefix(n)
  BY <1>1, <1>4
<1> QED
  BY <1>1, <1>3, <1>5

-----------------------------------------------------------------------------
(***************************************************************************)
(* Values through JSON, fields and back                                    *)
(***************************************************************************)

\* Elements of an array, as they come from the bridge.
ElementJson(type) ==
  CASE type = "double"  -> {"number"} \X Int \cup {<<"null", 0>>}
    [] type = "integer" -> {"number"} \X Int
    [] type = "bool"    -> {"bool"} \X BOOLEAN
    [] type = "string"  -> {"string"} \X Texts

JsonTyped(json, type) ==
  IF type \in DOMAIN ElementType
  THEN json \in {"array"} \X Seq(ElementJson(ElementType[type]))
  ELSE json[1] \in {"null", "number", "bool", "string"}

\* Texts of an element in a field, and elements of an array as they are sent.
FieldTexts ==
  {"string"} \X (Texts \cup {"true", "false"}) \cup {"number"} \X Int

SentElements == FieldTexts \cup {"bool"} \X BOOLEAN

SentTyped(json, type) ==
  type \in DOMAIN ElementType =>
    /\ json[2] \in Seq(SentElements)
    /\ type = "string_array" => json[2] \in Seq({"string"} \X Texts)

LEMMA ArrayTypes ==
  /\ DOMAIN ElementType = {"double_array", "integer_array", "bool_array", "string_array"}
  /\ ElementType["double_array"] = "double" /\ ElementType["integer_array"] = "integer"
  /\ ElementType["bool_array"] = "bool" /\ ElementType["string_array"] = "string"
BY DEF ElementType

\* A function on the positions of a sequence is a sequence.
LEMMA Mapped ==
  ASSUME NEW S, NEW T, NEW s \in Seq(S), NEW t, t \in [DOMAIN s -> T]
  PROVE  t \in Seq(T) /\ DOMAIN t = DOMAIN s
<1>1. Len(s) \in Nat /\ t \in [1 .. Len(s) -> T]
  OBVIOUS
<1> QED
  BY <1>1, SeqDef

\* What the bridge answers of a parameter.
LEMMA ToJsonTyped ==
  ASSUME NEW v, NEW type \in Types, ValueTyped(v, type)
  PROVE  JsonTyped(ToJson(v, type), type)
<1> DEFINE e == ElementType[type]
           json == [i \in DOMAIN v |-> ScalarToJson(v[i], e)]
<1>1. CASE type \in DOMAIN ElementType
  <2>1. PICK S : v \in Seq(S) /\ \A x \in S : ScalarToJson(x, e) \in ElementJson(e)
    <3>1. CASE type = "double_array"
      <4>1. v \in Seq(Int \cup {NaN})
        BY <3>1 DEF ValueTyped
      <4>2. \A x \in Int \cup {NaN} : ScalarToJson(x, "double") \in ElementJson("double")
        BY DEF ScalarToJson, ElementJson
      <4> QED
        BY <3>1, <4>1, <4>2, ArrayTypes
    <3>2. CASE type = "integer_array"
      <4>1. v \in Seq(Int)
        BY <3>2 DEF ValueTyped
      <4>2. \A x \in Int : ScalarToJson(x, "integer") \in ElementJson("integer")
        BY PageAssumption DEF ScalarToJson, ElementJson
      <4> QED
        BY <3>2, <4>1, <4>2, ArrayTypes
    <3>3. CASE type = "bool_array"
      <4>1. v \in Seq(BOOLEAN)
        BY <3>3 DEF ValueTyped
      <4>2. \A x \in BOOLEAN : ScalarToJson(x, "bool") \in ElementJson("bool")
        BY DEF ScalarToJson, ElementJson
      <4> QED
        BY <3>3, <4>1, <4>2, ArrayTypes
    <3>4. CASE type = "string_array"
      <4>1. v \in Seq(Texts)
        BY <3>4 DEF ValueTyped
      <4>2. \A x \in Texts : ScalarToJson(x, "string") \in ElementJson("string")
        BY DEF ScalarToJson, ElementJson
      <4> QED
        BY <3>4, <4>1, <4>2, ArrayTypes
    <3> QED
      BY <1>1, <3>1, <3>2, <3>3, <3>4, ArrayTypes
  <2>2. json \in [DOMAIN v -> ElementJson(e)]
    <3>1. \A i \in DOMAIN v : v[i] \in S
      BY <2>1
    <3> HIDE DEF e
    <3> QED
      BY <2>1, <3>1
  <2>3. json \in Seq(ElementJson(e))
    <3> HIDE DEF json, e
    <3> QED
      BY <2>1, <2>2, Mapped
  <2> QED
    BY <1>1, <2>3 DEF JsonTyped, ToJson
<1>2. CASE type \notin DOMAIN ElementType
  <2>1. type \in {"double", "integer", "bool", "string"}
    BY <1>2 DEF Types
  <2> QED
    BY <1>2, <2>1 DEF JsonTyped, ToJson, ScalarToJson
<1> QED
  BY <1>1, <1>2

\* The texts each element makes in a field.
LEMMA ElementTextsTyped ==
  ASSUME NEW type \in DOMAIN ElementType, NEW json \in ElementJson(ElementType[type])
  PROVE  /\ ElementTexts(json) \in Seq(FieldTexts)
         /\ type = "string_array" => ElementTexts(json) \in Seq({"string"} \X Texts)
<1>1. CASE type = "string_array"
  <2>1. json[1] = "string" /\ json[2] \in Texts
    BY <1>1, ArrayTypes DEF ElementJson
  <2>2. Pieces[json[2]] \in Seq(Texts)
    BY <2>1, PageAssumption
  <2> DEFINE pieces == Pieces[json[2]]
             texts == [i \in DOMAIN pieces |-> <<"string", pieces[i]>>]
  <2>3. ElementTexts(json) = texts
    BY <2>1 DEF ElementTexts
  <2>4. texts \in [DOMAIN pieces -> {"string"} \X Texts]
    <3>1. \A i \in DOMAIN pieces : pieces[i] \in Texts
      BY <2>2
    <3> HIDE DEF pieces
    <3> QED
      BY <3>1
  <2>5. texts \in [DOMAIN pieces -> FieldTexts]
    <3>1. {"string"} \X Texts \subseteq FieldTexts
      BY DEF FieldTexts
    <3> HIDE DEF texts, pieces
    <3> QED
      BY <2>4, <3>1
  <2> HIDE DEF texts
  <2> QED
    BY <2>2, <2>3, <2>4, <2>5, Mapped
<1>2. CASE type = "bool_array"
  <2>1. json[1] = "bool"
    BY <1>2, ArrayTypes DEF ElementJson
  <2> DEFINE text == <<"string", IF json[2] THEN "true" ELSE "false">>
  <2>2. ElementTexts(json) = <<text>> /\ text \in FieldTexts
    BY <2>1 DEF ElementTexts, FieldTexts
  <2> HIDE DEF text
  <2> QED
    BY <1>2, <2>2
<1>3. CASE type \in {"double_array", "integer_array"}
  <2>1. json \in {"number"} \X Int \/ json = <<"null", 0>>
    BY <1>3, ArrayTypes DEF ElementJson
  <2>2. CASE json = <<"null", 0>>
    <3>1. ElementTexts(json) = <<>>
      BY <2>2 DEF ElementTexts
    <3> QED
      BY <1>3, <3>1
  <2>3. CASE json \in {"number"} \X Int
    <3>1. ElementTexts(json) = <<json>> /\ json \in FieldTexts
      BY <2>3 DEF ElementTexts, FieldTexts
    <3> QED
      BY <1>3, <3>1
  <2> QED
    BY <2>1, <2>2, <2>3
<1> QED
  BY <1>1, <1>2, <1>3, ArrayTypes

\* What a card puts into a field is what a field holds.
LEMMA InputTyped ==
  ASSUME NEW type \in Types, NEW json, JsonTyped(json, type)
  PROVE  FieldTyped(InputForParameter(json, type), type)
<1> SUFFICES ASSUME type \in DOMAIN ElementType
             PROVE  FieldTyped(InputForParameter(json, type), type)
  BY DEF FieldTyped
<1>1. json[1] = "array" /\ json[2] \in Seq(ElementJson(ElementType[type]))
  BY DEF JsonTyped
<1>2. \A k \in DOMAIN json[2] : json[2][k] \in ElementJson(ElementType[type])
  BY <1>1
<1>3. JoinedTexts(json[2]) \in Seq(FieldTexts)
  <2>1. \A k \in DOMAIN json[2] : ElementTexts(json[2][k]) \in Seq(FieldTexts)
    BY <1>2, ElementTextsTyped
  <2> QED
    BY <1>1, <2>1, JoinedTyped
<1>4. type = "string_array" => JoinedTexts(json[2]) \in Seq({"string"} \X Texts)
  <2> HAVE type = "string_array"
  <2>1. \A k \in DOMAIN json[2] : ElementTexts(json[2][k]) \in Seq({"string"} \X Texts)
    BY <1>2, ElementTextsTyped
  <2> QED
    BY <1>1, <2>1, JoinedTyped
<1> QED
  BY <1>1, <1>3, <1>4 DEF InputForParameter, FieldTyped, FieldTexts

\* What is read from a field can be sent.
LEMMA ReadTyped ==
  ASSUME NEW type \in Types, NEW field, FieldTyped(field, type)
  PROVE  SentTyped(ReadInput(field, type), type)
<1> SUFFICES ASSUME type \in DOMAIN ElementType
             PROVE  SentTyped(ReadInput(field, type), type)
  BY DEF SentTyped
<1>1. /\ field[1] = "array" /\ field[2] \in Seq(FieldTexts)
      /\ type = "string_array" => field[2] \in Seq({"string"} \X Texts)
  BY DEF FieldTyped, FieldTexts
<1>2. CASE type # "bool_array"
  <2>1. ReadInput(field, type) = field
    BY <1>1, <1>2 DEF ReadInput
  <2>2. FieldTexts \subseteq SentElements
    BY DEF SentElements
  <2>3. Len(field[2]) \in Nat /\ field[2] \in [1 .. Len(field[2]) -> FieldTexts]
    BY <1>1
  <2>4. field[2] \in [1 .. Len(field[2]) -> SentElements]
    BY <2>2, <2>3
  <2>5. field[2] \in Seq(SentElements)
    BY <2>3, <2>4, SeqDef
  <2> QED
    BY <1>1, <2>1, <2>5 DEF SentTyped
<1>3. CASE type = "bool_array"
  <2> DEFINE content == [i \in DOMAIN field[2] |-> <<"bool", field[2][i][2] \in TrueTexts>>]
  <2>1. ReadInput(field, type)[2] = content
    BY <1>1, <1>3 DEF ReadInput
  <2>2. content \in [DOMAIN field[2] -> SentElements]
    <3>1. \A text : (text \in TrueTexts) \in BOOLEAN
      OBVIOUS
    <3>2. \A b \in BOOLEAN : <<"bool", b>> \in SentElements
      BY DEF SentElements
    <3>3. \A i \in DOMAIN field[2] : content[i] \in SentElements
      BY <3>1, <3>2
    <3> QED
      BY <3>3
  <2> HIDE DEF content
  <2>3. content \in Seq(SentElements)
    BY <1>1, <2>2, Mapped
  <2> QED
    BY <1>3, <2>1, <2>3 DEF SentTyped
<1> QED
  BY <1>2, <1>3

\* What the bridge makes of it, and a node holds then.
LEMMA ScalarTyped ==
  ASSUME NEW json \in SentElements, NEW type \in {"double", "integer", "bool"},
         ScalarConvertible(ScalarParsed(json), type)
  PROVE  /\ type \in {"double", "integer"} =>
              ScalarConverted(ScalarParsed(json), type) \in Int
         /\ type = "bool" => ScalarConverted(ScalarParsed(json), type) \in BOOLEAN
<1> DEFINE raw == ScalarParsed(json)
<1>1. type = "bool" => ScalarConverted(raw, type) \in BOOLEAN
  <2>1. \A text : (text \in TrueTexts) \in BOOLEAN
    OBVIOUS
  <2>2. \A x : (x # 0) \in BOOLEAN
    OBVIOUS
  <2> HIDE DEF raw
  <2> QED
    BY <2>1, <2>2 DEF ScalarConverted
<1>2. type \in {"double", "integer"} => ToDouble(raw) \in Int
  <2> HAVE type \in {"double", "integer"}
  <2>1. One \in Nat \ {0}
    BY PageAssumption
  <2>2. CASE json \in {"bool"} \X BOOLEAN
    <3>1. raw = json
      BY <2>2 DEF ScalarParsed
    <3> QED
      BY <2>1, <2>2, <3>1 DEF ToDouble, IsBool, Kind, Content
  <2>3. CASE json \in {"number"} \X Int
    <3>1. json[1] = "number" /\ json[2] \in Int
      BY <2>3
    <3>2. json[2] \div One \in Int
      BY <2>1, <3>1
    <3>3. raw = <<"float", json[2]>> \/ raw \in {"integer", "unsigned"} \X Int
      BY <3>1, <3>2 DEF ScalarParsed
    <3> HIDE DEF raw
    <3>4. \A x, y \in Int : x * y \in Int
      OBVIOUS
    <3> QED
      BY <2>1, <3>1, <3>3, <3>4 DEF ToDouble, IsBool, Kind, Content
  <2>4. CASE json[1] = "string"
    <3>1. raw = json
      BY <2>4 DEF ScalarParsed
    <3>2. FALSE
      BY <2>4, <3>1 DEF ScalarConvertible, IsNumber, IsBool, IsInt64, Kind
    <3> QED
      BY <3>2
  <2>5. json[1] = "string" \/ json \in {"number"} \X Int \/ json \in {"bool"} \X BOOLEAN
    BY DEF SentElements, FieldTexts
  <2> QED
    BY <2>2, <2>3, <2>4, <2>5
<1>3. type \in {"double", "integer"} => ScalarConverted(raw, type) \in Int
  <2>1. One \in Nat \ {0} /\ \A x \in Int : x \div One \in Int
    BY PageAssumption
  <2> HIDE DEF raw
  <2> QED
    BY <1>2, <2>1 DEF ScalarConverted
<1> QED
  BY <1>1, <1>3

LEMMA ConvertedTyped ==
  ASSUME NEW type \in Types, NEW json, SentTyped(json, type),
         Convertible(Parsed(json), type)
  PROVE  ValueTyped(Converted(Parsed(json), type), type)
<1> SUFFICES ASSUME type \in DOMAIN ElementType
             PROVE  ValueTyped(Converted(Parsed(json), type), type)
  BY ArrayTypes DEF ValueTyped
<1> DEFINE e == ElementType[type]
           v == [i \in DOMAIN json[2] |-> ScalarConverted(ScalarParsed(json[2][i]), e)]
<1>1. json[1] = "array"
  BY DEF Convertible, Parsed, ScalarParsed, Kind
<1>2. Parsed(json)[1] = "array" /\ Parsed(json)[2] = [i \in DOMAIN json[2] |-> ScalarParsed(json[2][i])]
  BY <1>1 DEF Parsed
<1>3. Converted(Parsed(json), type) = v
  BY <1>2 DEF Converted, Content
<1>4. \A i \in DOMAIN json[2] : ScalarConvertible(ScalarParsed(json[2][i]), e)
  BY <1>2 DEF Convertible, Content
<1>5. json[2] \in Seq(SentElements) /\ \A i \in DOMAIN json[2] : json[2][i] \in SentElements
  BY DEF SentTyped
<1>6. CASE type \in {"double_array", "integer_array"}
  <2>1. \A i \in DOMAIN json[2] : v[i] \in Int
    BY <1>4, <1>5, <1>6, ScalarTyped, ArrayTypes
  <2>2. v \in [DOMAIN json[2] -> Int] /\ v \in [DOMAIN json[2] -> Int \cup {NaN}]
    BY <2>1
  <2> HIDE DEF v
  <2>3. v \in Seq(Int) /\ v \in Seq(Int \cup {NaN})
    BY <1>5, <2>2, Mapped
  <2> QED
    BY <1>3, <1>6, <2>3 DEF ValueTyped
<1>7. CASE type = "bool_array"
  <2>1. \A i \in DOMAIN json[2] : v[i] \in BOOLEAN
    BY <1>4, <1>5, <1>7, ScalarTyped, ArrayTypes
  <2>2. v \in [DOMAIN json[2] -> BOOLEAN]
    BY <2>1
  <2> HIDE DEF v
  <2>3. v \in Seq(BOOLEAN)
    BY <1>5, <2>2, Mapped
  <2> QED
    BY <1>3, <1>7, <2>3 DEF ValueTyped
<1>8. CASE type = "string_array"
  <2>1. json[2] \in Seq({"string"} \X Texts)
    BY <1>8 DEF SentTyped
  <2>2. \A i \in DOMAIN json[2] : json[2][i][1] = "string" /\ json[2][i][2] \in Texts
    BY <2>1
  <2>3. \A i \in DOMAIN json[2] : v[i] \in Texts
    BY <1>8, <2>2, ArrayTypes DEF ScalarParsed, ScalarConverted, IsString, Kind, Content
  <2>4. v \in [DOMAIN json[2] -> Texts]
    BY <2>3
  <2> HIDE DEF v
  <2>5. v \in Seq(Texts)
    BY <1>5, <2>4, Mapped
  <2> QED
    BY <1>3, <1>8, <2>5 DEF ValueTyped
<1> QED
  BY <1>6, <1>7, <1>8, ArrayTypes

\* A value that a field can hold comes back from it as it was.
LEMMA RoundTrip ==
  ASSUME NEW type \in Types, NEW json, JsonTyped(json, type), ~Unshowable(json)
  PROVE  ReadInput(InputForParameter(json, type), type) = json
<1>1. CASE type \notin DOMAIN ElementType
  <2>1. json[1] \in {"number", "bool", "string"}
    BY <1>1 DEF JsonTyped, Unshowable
  <2>2. InputForParameter(json, type) = json
    BY <2>1 DEF InputForParameter, Unshowable
  <2> QED
    BY <1>1, <2>1, <2>2, ArrayTypes DEF ReadInput
<1>2. CASE type \in DOMAIN ElementType
  <2> DEFINE e == ElementType[type]
             elements == json[2]
             text == [k \in DOMAIN elements |-> ElementTexts(elements[k])[1]]
             field == InputForParameter(json, type)
  <2>1. json = <<"array", elements>> /\ elements \in Seq(ElementJson(e))
    BY <1>2 DEF JsonTyped
  <2>2. ASSUME NEW k \in DOMAIN elements
        PROVE  /\ ElementTexts(elements[k]) = <<text[k]>>
               /\ type # "bool_array" => text[k] = elements[k]
               /\ type = "bool_array" =>
                    <<"bool", text[k][2] \in TrueTexts>> = elements[k]
    <3> DEFINE x == elements[k]
    <3>1. x \in ElementJson(e)
      BY <2>1
    <3>2. x[1] # "null" /\ (x[1] = "string" => Pieces[x[2]] = <<x[2]>>)
      <4>1. json[1] = "array"
        BY <2>1
      <4> QED
        BY <4>1 DEF Unshowable
    <3>3. text[k] = ElementTexts(x)[1]
      OBVIOUS
    <3> HIDE DEF x, text
    <3>4. CASE type = "bool_array"
      <4>1. x[1] = "bool" /\ x[2] \in BOOLEAN /\ x = <<x[1], x[2]>>
        BY <3>1, <3>4, ArrayTypes DEF ElementJson
      <4>2. ElementTexts(x) = <<<<"string", IF x[2] THEN "true" ELSE "false">>>>
        BY <4>1 DEF ElementTexts
      <4>3. text[k] = <<"string", IF x[2] THEN "true" ELSE "false">>
        BY <3>3, <4>2
      <4>4. (text[k][2] \in TrueTexts) = x[2]
        BY <4>1, <4>3 DEF TrueTexts
      <4> QED
        BY <3>4, <4>1, <4>2, <4>3, <4>4 DEF x
    <3>5. CASE type = "string_array"
      <4>1. x[1] = "string" /\ x[2] \in Texts /\ x = <<x[1], x[2]>>
        BY <3>1, <3>5, ArrayTypes DEF ElementJson
      <4>2. Pieces[x[2]] = <<x[2]>>
        BY <3>2, <4>1
      <4>3. ElementTexts(x) = <<x>>
        <5>1. ElementTexts(x) = [i \in DOMAIN <<x[2]>> |-> <<"string", <<x[2]>>[i]>>]
          BY <4>1, <4>2 DEF ElementTexts
        <5>2. [i \in DOMAIN <<x[2]>> |-> <<"string", <<x[2]>>[i]>>] = <<<<"string", x[2]>>>>
          OBVIOUS
        <5> QED
          BY <4>1, <5>1, <5>2
      <4> QED
        BY <3>3, <3>5, <4>3 DEF x
    <3>6. CASE type \in {"double_array", "integer_array"}
      <4>1. x[1] = "number"
        BY <3>1, <3>2, <3>6, ArrayTypes DEF ElementJson
      <4>2. ElementTexts(x) = <<x>>
        BY <4>1 DEF ElementTexts
      <4> QED
        BY <3>3, <3>6, <4>2 DEF x
    <3> QED
      BY <1>2, <3>4, <3>5, <3>6, ArrayTypes
  <2>3. field = <<"array", text>>
    <3>1. text \in [DOMAIN elements -> {text[k] : k \in DOMAIN elements}]
      OBVIOUS
    <3>2. \A k \in DOMAIN elements : ElementTexts(elements[k]) = <<text[k]>>
      BY <2>2
    <3> HIDE DEF text, e, elements
    <3>3. JoinedTexts(elements) = text
      BY <2>1, <3>1, <3>2, JoinedSingles
    <3> QED
      BY <2>1, <3>3 DEF InputForParameter
  <2>4. DOMAIN text = DOMAIN elements
    OBVIOUS
  <2>5. elements = [k \in DOMAIN elements |-> elements[k]]
    BY <2>1
  <2>6. CASE type # "bool_array"
    <3>1. text = [k \in DOMAIN elements |-> text[k]]
      OBVIOUS
    <3> HIDE DEF text, field, elements
    <3>2. text = elements
      BY <2>2, <2>4, <2>5, <2>6, <3>1
    <3>3. ReadInput(field, type) = field
      BY <2>3, <2>6 DEF ReadInput
    <3> QED
      BY <2>1, <2>3, <3>2, <3>3 DEF field
  <2>7. CASE type = "bool_array"
    <3> HIDE DEF text, field, elements
    <3>1. ReadInput(field, type) =
            <<"array", [i \in DOMAIN text |-> <<"bool", text[i][2] \in TrueTexts>>]>>
      BY <2>3, <2>7 DEF ReadInput
    <3>2. [i \in DOMAIN text |-> <<"bool", text[i][2] \in TrueTexts>>] = elements
      BY <2>2, <2>4, <2>5, <2>7
    <3> QED
      BY <2>1, <3>1, <3>2 DEF field
  <2> QED
    BY <2>6, <2>7
<1> QED
  BY <1>1, <1>2

-----------------------------------------------------------------------------
(***************************************************************************)
(* Cards hold what they were made of, and what the user has typed          *)
(***************************************************************************)
EntryTyped(entry) ==
  /\ entry.node \in Nodes
  /\ DOMAIN entry.values \subseteq Names(entry.node)
  /\ \A n \in DOMAIN entry.values : JsonTyped(entry.values[n], Declared[entry.node][n])

\* A field that was not edited holds what the card was made with.
CardFilled(card) ==
  /\ {"node", "original", "field", "edited"} \subseteq DOMAIN card
  /\ card.node \in Nodes
  /\ DOMAIN card.original \subseteq Names(card.node)
  /\ DOMAIN card.field = DOMAIN card.original
  /\ \A n \in DOMAIN card.field :
       /\ JsonTyped(card.original[n], Declared[card.node][n])
       /\ FieldTyped(card.field[n], Declared[card.node][n])
       /\ n \in card.edited
            \/ card.field[n] = InputForParameter(card.original[n], Declared[card.node][n])

TodoTyped(t) ==
  /\ t[1] \in Nodes /\ t[2] \in Names(t[1])
  /\ SentTyped(t[3], Declared[t[1]][t[2]])

CardsFilled == IsSequence(shown) /\ \A i \in DOMAIN shown : CardFilled(shown[i])

ReadsTyped == \A l \in Loads : \A i \in DOMAIN loads[l].read : EntryTyped(loads[l].read[i])

UpdatesTyped ==
  /\ DOMAIN updates = Updates
  /\ \A u \in Updates :
       /\ DOMAIN updates[u] = {"stage", "card", "todo", "done"}
       /\ \A t \in updates[u].todo : TodoTyped(t)

NodesTyped ==
  \A node \in Nodes : \A n \in Names(node) : ValueTyped(values[node][n], Declared[node][n])

PageTyped == CardsFilled /\ ReadsTyped /\ UpdatesTyped /\ NodesTyped

LEMMA InitTyped == Init => PageTyped
<1> SUFFICES ASSUME Init PROVE PageTyped
  OBVIOUS
<1>1. CardsFilled /\ ReadsTyped
  <2>1. shown = <<>> /\ \A l \in Loads : loads[l].read = <<>>
    BY DEF Init, NoLoad
  <2>2. DOMAIN <<>> = {}
    OBVIOUS
  <2> QED
    BY <2>1, <2>2, EmptySequence DEF CardsFilled, ReadsTyped
<1>2. UpdatesTyped
  BY DEF Init, UpdatesTyped, NoUpdate
<1>3. NodesTyped
  BY PageAssumption DEF Init, NodesTyped
<1> QED
  BY <1>1, <1>2, <1>3 DEF PageTyped

\* What has no part in a step.
LEMMA CardsFilledKept == CardsFilled /\ shown' = shown => CardsFilled'
BY DEF CardsFilled, IsSequence

LEMMA ReadsTypedKept == ReadsTyped /\ loads' = loads => ReadsTyped'
BY DEF ReadsTyped

LEMMA UpdatesTypedKept == UpdatesTyped /\ updates' = updates => UpdatesTyped'
BY DEF UpdatesTyped

LEMMA NodesTypedKept == NodesTyped /\ values' = values => NodesTyped'
BY DEF NodesTyped

\* Updates whose parameters are those they had, or fewer.
LEMMA FewerTodo ==
  ASSUME UpdatesTyped, DOMAIN updates' = Updates,
         \A u \in Updates : /\ DOMAIN updates'[u] = {"stage", "card", "todo", "done"}
                            /\ updates'[u].todo \subseteq updates[u].todo
  PROVE  UpdatesTyped'
BY DEF UpdatesTyped, TodoTyped

\* Cards that keep their node and original, and their fields but for what the
\* user types in one.
LEMMA CardsFilledChanged ==
  ASSUME CardsFilled,
         shown' = [i \in DOMAIN shown |-> shown'[i]],
         \A i \in DOMAIN shown : CardFilled(shown'[i])
  PROVE  CardsFilled'
<1>1. Len(shown) \in Nat /\ DOMAIN shown = 1 .. Len(shown)
  BY DEF CardsFilled, IsSequence
<1>2. shown' = [i \in 1 .. Len(shown) |-> shown'[i]]
  BY <1>1
<1>3. IsSequence(shown') /\ DOMAIN shown' = DOMAIN shown
  BY <1>1, <1>2, Listed
<1> QED
  BY <1>3 DEF CardsFilled, IsSequence, CardFilled

\* The button of a card is no part of it here.
LEMMA ButtonKeepsCards ==
  ASSUME CardsFilled, NEW i, NEW b, shown' = [shown EXCEPT ![i].disabled = b]
  PROVE  CardsFilled'
<1>1. shown' = [j \in DOMAIN shown |-> shown'[j]]
  OBVIOUS
<1>2. ASSUME NEW j \in DOMAIN shown PROVE CardFilled(shown'[j])
  <2>1. CardFilled(shown[j])
    BY DEF CardsFilled
  <2>2. /\ {"node", "original", "field", "edited"} \subseteq DOMAIN shown'[j]
        /\ shown'[j].node = shown[j].node /\ shown'[j].original = shown[j].original
        /\ shown'[j].field = shown[j].field /\ shown'[j].edited = shown[j].edited
    BY <2>1 DEF CardFilled
  <2> QED
    BY <2>1, <2>2 DEF CardFilled
<1> QED
  BY <1>1, <1>2, CardsFilledChanged

LEMMA EditFills == PageTyped /\ Edit => PageTyped'
<1> SUFFICES ASSUME PageTyped, Edit PROVE PageTyped'
  OBVIOUS
<1>1. PICK i \in DOMAIN shown : \E n \in DOMAIN shown[i].field :
        \E text \in Typed[Declared[shown[i].node][n]] :
          shown' = [shown EXCEPT ![i].field[n] = text, ![i].edited = @ \cup {n}]
  BY DEF Edit, Inputs
<1>2. PICK n \in DOMAIN shown[i].field : \E text \in Typed[Declared[shown[i].node][n]] :
        shown' = [shown EXCEPT ![i].field[n] = text, ![i].edited = @ \cup {n}]
  BY <1>1
<1>3. PICK text \in Typed[Declared[shown[i].node][n]] :
        shown' = [shown EXCEPT ![i].field[n] = text, ![i].edited = @ \cup {n}]
  BY <1>2
<1>4. \A j \in DOMAIN shown : CardFilled(shown[j])
  BY DEF PageTyped, CardsFilled
<1>5. CardFilled(shown'[i])
  <2>1. CardFilled(shown[i])
    BY <1>4
  <2>2. /\ {"node", "original", "field", "edited"} \subseteq DOMAIN shown'[i]
        /\ shown'[i].node = shown[i].node /\ shown'[i].original = shown[i].original
        /\ shown'[i].field = [shown[i].field EXCEPT ![n] = text]
        /\ shown'[i].edited = shown[i].edited \cup {n}
    BY <1>3, <2>1 DEF CardFilled
  <2>3. FieldTyped(text, Declared[shown[i].node][n])
    BY <1>3, <2>1, PageAssumption DEF CardFilled
  <2> QED
    BY <2>1, <2>2, <2>3 DEF CardFilled
<1>6. \A j \in DOMAIN shown \ {i} : shown'[j] = shown[j]
  BY <1>3
<1>7. shown' = [j \in DOMAIN shown |-> shown'[j]]
  BY <1>3
<1>8. CardsFilled'
  BY <1>4, <1>5, <1>6, <1>7, CardsFilledChanged DEF PageTyped
<1> QED
  BY <1>8, ReadsTypedKept, UpdatesTypedKept, NodesTypedKept DEF PageTyped, Edit

\* What a click sends: of each parameter a value that its field can hold.
LEMMA ChangedTyped ==
  ASSUME NEW card, CardFilled(card)
  PROVE  \A n \in DOMAIN CollectChanged(card) : TodoTyped(<<card.node, n, CollectChanged(card)[n]>>)
<1> TAKE n \in DOMAIN CollectChanged(card)
<1> DEFINE type == Declared[card.node][n]
<1>1. n \in DOMAIN card.field /\ CollectChanged(card)[n] = ReadInput(card.field[n], type)
  BY DEF CollectChanged, Inputs
<1>2. n \in Names(card.node) /\ card.node \in Nodes /\ FieldTyped(card.field[n], type)
  BY <1>1 DEF CardFilled
<1>3. type \in Types
  BY <1>2, PageAssumption
<1>4. SentTyped(CollectChanged(card)[n], type)
  BY <1>1, <1>2, <1>3, ReadTyped
<1> QED
  BY <1>2, <1>4 DEF TodoTyped

LEMMA UpdateNodeFills == PageTyped /\ UpdateNode => PageTyped'
<1> SUFFICES ASSUME PageTyped, UpdateNode PROVE PageTyped'
  OBVIOUS
<1>1. PICK i \in DOMAIN shown :
        \/ UNCHANGED <<shown, updates>>
        \/ /\ \E u \in Updates : updates' = [updates EXCEPT ![u] =
                [stage |-> "posting", card |-> i, done |-> {},
                 todo |-> {<<shown[i].node, n, CollectChanged(shown[i])[n]>> :
                             n \in DOMAIN CollectChanged(shown[i])}]]
           /\ shown' = [shown EXCEPT ![i].disabled = TRUE]
  BY DEF UpdateNode
<1>2. CardsFilled'
  BY <1>1, CardsFilledKept, ButtonKeepsCards DEF PageTyped
<1>3. CardFilled(shown[i])
  BY DEF PageTyped, CardsFilled
<1>4. UpdatesTyped'
  <2>1. CASE updates' = updates
    BY <2>1, UpdatesTypedKept DEF PageTyped
  <2>2. CASE updates' # updates
    <3> DEFINE todo == {<<shown[i].node, n, CollectChanged(shown[i])[n]>> :
                          n \in DOMAIN CollectChanged(shown[i])}
    <3>1. \A t \in todo : TodoTyped(t)
      BY <1>3, ChangedTyped
    <3> HIDE DEF todo
    <3>2. PICK u \in Updates : updates' = [updates EXCEPT ![u] =
            [stage |-> "posting", card |-> i, done |-> {}, todo |-> todo]]
      BY <1>1, <2>2 DEF todo
    <3> QED
      BY <3>1, <3>2 DEF PageTyped, UpdatesTyped, TodoTyped
  <2> QED
    BY <2>1, <2>2
<1> QED
  BY <1>2, <1>4, ReadsTypedKept, NodesTypedKept DEF PageTyped, UpdateNode

\* A value that is set is one that was sent, or comes from another client.
LEMMA SetFills ==
  ASSUME PageTyped, ValuesTyped, NEW a, NEW b, NEW value, NEW u,
         SetValue(<<a, b>>, value, u), ValueTyped(value, Declared[a][b]),
         UNCHANGED <<shown, loads>>
  PROVE  PageTyped'
<1>1. values' = [values EXCEPT ![a][b] = value]
  BY DEF SetValue
<1>2. NodesTyped'
  <2> SUFFICES ASSUME NEW node \in Nodes, NEW n \in Names(node)
               PROVE  ValueTyped(values'[node][n], Declared[node][n])
    BY DEF NodesTyped
  <2>1. node \in DOMAIN values /\ n \in DOMAIN values[node]
    BY DEF ValuesTyped
  <2>2. ValueTyped(values[node][n], Declared[node][n])
    BY DEF PageTyped, NodesTyped
  <2>3. CASE node = a /\ n = b
    BY <1>1, <2>1, <2>3
  <2>4. CASE node # a \/ n # b
    <3>1. values'[node][n] = values[node][n]
      BY <1>1, <2>1, <2>4
    <3> QED
      BY <2>2, <3>1
  <2> QED
    BY <2>3, <2>4
<1>3. DOMAIN updates' = Updates
  BY DEF SetValue
<1>4. ASSUME NEW w \in Updates
      PROVE  /\ DOMAIN updates'[w] = {"stage", "card", "todo", "done"}
             /\ updates'[w].todo \subseteq updates[w].todo
  <2>1. DOMAIN updates[w] = {"stage", "card", "todo", "done"}
    BY DEF PageTyped, UpdatesTyped
  <2> DEFINE done == IF w = u /\ updates[w].stage = "posting"
                     THEN updates[w].done \cup {<<a, b>>} ELSE updates[w].done \ {<<a, b>>}
             todo == {t \in updates[w].todo : w # u \/ <<t[1], t[2]>> # <<a, b>>}
  <2>2. updates'[w] = [updates[w] EXCEPT !.done = done, !.todo = todo]
    BY DEF SetValue
  <2>3. todo \subseteq updates[w].todo
    OBVIOUS
  <2> HIDE DEF done, todo
  <2> QED
    BY <2>1, <2>2, <2>3
<1>5. UpdatesTyped'
  BY <1>3, <1>4, FewerTodo DEF PageTyped
<1> QED
  BY <1>2, <1>5, CardsFilledKept, ReadsTypedKept DEF PageTyped

LEMMA SetOneFills ==
  ASSUME PageTyped, ValuesTyped, NEW u \in Updates, SetOne(u)
  PROVE  PageTyped'
<1>1. PICK t \in updates[u].todo :
        /\ Convertible(Parsed(t[3]), Declared[t[1]][t[2]])
        /\ SetValue(<<t[1], t[2]>>, Converted(Parsed(t[3]), Declared[t[1]][t[2]]), u)
  BY DEF SetOne
<1>2. TodoTyped(t)
  BY DEF PageTyped, UpdatesTyped
<1>3. Declared[t[1]][t[2]] \in Types
  BY <1>2, PageAssumption DEF TodoTyped
<1>4. ValueTyped(Converted(Parsed(t[3]), Declared[t[1]][t[2]]), Declared[t[1]][t[2]])
  BY <1>1, <1>2, <1>3, ConvertedTyped DEF TodoTyped
<1>5. UNCHANGED <<shown, loads>>
  BY DEF SetOne
<1> QED
  BY <1>1, <1>4, <1>5, SetFills

LEMMA SetByOtherFills == PageTyped /\ ValuesTyped /\ SetByOther => PageTyped'
<1> SUFFICES ASSUME PageTyped, ValuesTyped, SetByOther PROVE PageTyped'
  OBVIOUS
<1>1. PICK v \in OtherValues : SetValue(<<v[1], v[2]>>, v[3], 0)
  BY DEF SetByOther
<1>2. ValueTyped(v[3], Declared[v[1]][v[2]]) /\ UNCHANGED <<shown, loads>>
  BY PageAssumption DEF SetByOther
<1> QED
  BY <1>1, <1>2, SetFills

\* A load that begins takes the cards away and leaves the updates their values.
LEMMA BeginLoadFills ==
  ASSUME PageTyped, LoadsTyped, NEW l \in Loads, NEW rest, BeginLoad(l, rest), UNCHANGED values,
         \A u \in Updates : /\ DOMAIN rest[u] = {"stage", "card", "todo", "done"}
                            /\ rest[u].todo \subseteq updates[u].todo
  PROVE  PageTyped'
<1>1. CardsFilled'
  <2>1. shown' = <<>> /\ DOMAIN <<>> = {}
    BY DEF BeginLoad
  <2> QED
    BY <2>1, EmptySequence DEF CardsFilled, IsSequence
<1>2. ReadsTyped'
  <2>1. \A k \in Loads : loads'[k].read = loads[k].read
    BY DEF BeginLoad, LoadsTyped
  <2> QED
    BY <2>1 DEF PageTyped, ReadsTyped, EntryTyped
<1>3. UpdatesTyped'
  <2>1. DOMAIN updates' = Updates /\ \A u \in Updates : updates'[u] = Detached(rest[u])
    BY DEF BeginLoad
  <2>2. \A u \in Updates : /\ DOMAIN updates'[u] = {"stage", "card", "todo", "done"}
                           /\ updates'[u].todo \subseteq updates[u].todo
    BY <2>1 DEF Detached
  <2> QED
    BY <2>1, <2>2, FewerTodo DEF PageTyped
<1> QED
  BY <1>1, <1>2, <1>3, NodesTypedKept DEF PageTyped

LEMMA ReloadFills ==
  ASSUME PageTyped, LoadsTyped, Startup \/ Reload \/ \E u \in Updates : UpdateAnswered(u)
  PROVE  PageTyped'
<1>0. \A u \in Updates : DOMAIN updates[u] = {"stage", "card", "todo", "done"}
  BY DEF PageTyped, UpdatesTyped
<1>1. CASE Startup \/ Reload
  <2>1. PICK l \in Loads : BeginLoad(l, updates)
    BY <1>1 DEF Startup, Reload
  <2> QED
    BY <1>0, <1>1, <2>1, BeginLoadFills DEF Startup, Reload
<1>2. CASE \E u \in Updates : UpdateAnswered(u)
  <2>1. PICK u \in Updates : UpdateAnswered(u)
    BY <1>2
  <2> DEFINE rest == [updates EXCEPT ![u] = NoUpdate]
  <2>2. PICK l \in Loads : BeginLoad(l, rest)
    BY <2>1 DEF UpdateAnswered
  <2>3. \A w \in Updates : /\ DOMAIN rest[w] = {"stage", "card", "todo", "done"}
                           /\ rest[w].todo \subseteq updates[w].todo
    <3>1. DOMAIN updates = Updates
      BY DEF PageTyped, UpdatesTyped
    <3> QED
      BY <1>0, <3>1 DEF NoUpdate
  <2> HIDE DEF rest
  <2> QED
    BY <2>1, <2>2, <2>3, BeginLoadFills DEF UpdateAnswered
<1> QED
  BY <1>1, <1>2

\* One more node is read.
LEMMA ReadNodeFills ==
  ASSUME PageTyped, LoadsTyped, NEW l \in Loads, ReadNode(l)
  PROVE  PageTyped'
<1> DEFINE read == loads[l].read
           node == TargetNodes[Len(read) + 1]
           json == [n \in Names(node) |-> ToJson(values[node][n], Declared[node][n])]
<1>1. PICK entry \in {[node |-> node, available |-> TRUE, values |-> json],
                      [node |-> node, available |-> FALSE, values |-> <<>>]} :
        loads' = [loads EXCEPT ![l].read = Append(@, entry)]
  BY DEF ReadNode
<1>2. /\ DOMAIN loads = Loads /\ "read" \in DOMAIN loads[l] /\ IsSequence(read)
  BY DEF LoadsTyped
<1>3. node \in Nodes
  <2>1. Len(read) \in Nat /\ Len(read) < Len(TargetNodes)
    BY <1>2, Appended DEF ReadNode
  <2> QED
    BY <2>1, PageAssumption
<1>4. EntryTyped(entry)
  <2>1. CASE entry = [node |-> node, available |-> TRUE, values |-> json]
    <3>1. entry.node = node /\ entry.values = json
      BY <2>1
    <3> HIDE DEF node
    <3>2. DOMAIN json = Names(node)
      OBVIOUS
    <3>3. ASSUME NEW n \in Names(node) PROVE JsonTyped(json[n], Declared[node][n])
      <4>1. Declared[node][n] \in Types /\ ValueTyped(values[node][n], Declared[node][n])
        BY <1>3, PageAssumption DEF PageTyped, NodesTyped
      <4> QED
        BY <4>1, ToJsonTyped
    <3> HIDE DEF json
    <3> QED
      BY <1>3, <3>1, <3>2, <3>3 DEF EntryTyped
  <2>2. CASE entry = [node |-> node, available |-> FALSE, values |-> <<>>]
    <3>1. entry.node = node /\ DOMAIN entry.values = {}
      BY <2>2
    <3> QED
      BY <1>3, <3>1 DEF EntryTyped
  <2> QED
    BY <2>1, <2>2
<1> HIDE DEF node, json
<1>5. ReadsTyped'
  <2> SUFFICES ASSUME NEW k \in Loads, NEW i \in DOMAIN loads'[k].read
               PROVE  EntryTyped(loads'[k].read[i])
    BY DEF ReadsTyped, EntryTyped
  <2>1. CASE k # l
    <3>1. loads'[k] = loads[k]
      BY <1>1, <1>2, <2>1
    <3> QED
      BY <3>1 DEF PageTyped, ReadsTyped
  <2>2. CASE k = l
    <3>1. loads'[k].read = Append(read, entry)
      BY <1>1, <1>2, <2>2
    <3>2. \A j \in DOMAIN read : EntryTyped(read[j])
      BY DEF PageTyped, ReadsTyped
    <3> HIDE DEF read
    <3>3. i \in DOMAIN read \/ i = Len(read) + 1
      BY <1>2, <3>1, Appended
    <3> QED
      BY <1>2, <1>4, <3>1, <3>2, <3>3, Appended
  <2> QED
    BY <2>1, <2>2
<1> QED
  BY <1>5, CardsFilledKept, UpdatesTypedKept, NodesTypedKept DEF PageTyped, ReadNode

\* A card is filled with what was read for it.
LEMMA RenderFills ==
  ASSUME NEW entry, EntryTyped(entry)
  PROVE  CardFilled(RenderNode(entry))
<1> DEFINE card == RenderNode(entry)
<1>1. /\ DOMAIN card = {"node", "available", "disabled", "original", "edited", "field"}
      /\ card.node = entry.node /\ card.original = entry.values
      /\ DOMAIN card.field = DOMAIN entry.values
      /\ \A n \in DOMAIN entry.values :
           card.field[n] = InputForParameter(entry.values[n], Declared[entry.node][n])
  BY DEF RenderNode
<1> HIDE DEF card
<1>2. \A n \in DOMAIN entry.values :
        FieldTyped(InputForParameter(entry.values[n], Declared[entry.node][n]),
                   Declared[entry.node][n])
  <2> TAKE n \in DOMAIN entry.values
  <2>1. Declared[entry.node][n] \in Types /\ JsonTyped(entry.values[n], Declared[entry.node][n])
    BY PageAssumption DEF EntryTyped
  <2> QED
    BY <2>1, InputTyped
<1>3. CardFilled(card)
  BY <1>1, <1>2 DEF EntryTyped, CardFilled
<1> QED
  BY <1>3 DEF card

LEMMA LoadEndsFills ==
  ASSUME PageTyped, LoadsTyped, NEW l \in Loads, LoadAnswered(l) \/ LoadFails(l)
  PROVE  PageTyped'
<1>1. /\ loads' = [loads EXCEPT ![l] = NoLoad] /\ DOMAIN loads = Loads
      /\ UNCHANGED <<updates, values>>
  BY DEF LoadAnswered, LoadFails, LoadsTyped
<1>2. ReadsTyped'
  <2>1. loads'[l].read = <<>> /\ DOMAIN <<>> = {}
    BY <1>1 DEF NoLoad
  <2>2. \A k \in Loads \ {l} : loads'[k] = loads[k]
    BY <1>1
  <2> QED
    BY <2>1, <2>2 DEF PageTyped, ReadsTyped, EntryTyped
<1>3. CASE LoadFails(l)
  BY <1>1, <1>2, <1>3, CardsFilledKept, UpdatesTypedKept, NodesTypedKept DEF PageTyped, LoadFails
<1>4. CASE LoadAnswered(l)
  <2> DEFINE read == loads[l].read
             N == Len(TargetNodes)
             cards == [i \in DOMAIN TargetNodes |-> RenderNode(read[i])]
             n == Len(shown)
  <2>1. Len(read) = N /\ shown' = shown \o cards
    BY <1>4 DEF LoadAnswered
  <2>2. N \in Nat /\ DOMAIN TargetNodes = 1 .. N /\ DOMAIN read = 1 .. N
    BY <2>1, PageAssumption DEF LoadsTyped, IsSequence
  <2>3. IsSequence(cards) /\ Len(cards) = N /\ DOMAIN cards = 1 .. N
    <3>1. cards = [i \in 1 .. N |-> cards[i]]
      BY <2>2
    <3> HIDE DEF cards
    <3> QED
      BY <2>2, <3>1, Listed
  <2>4. \A i \in 1 .. N : CardFilled(cards[i])
    <3> TAKE i \in 1 .. N
    <3>1. EntryTyped(read[i]) /\ cards[i] = RenderNode(read[i])
      BY <2>2 DEF PageTyped, ReadsTyped
    <3> HIDE DEF cards, read
    <3> QED
      BY <3>1, RenderFills
  <2> DEFINE S == ToSet(shown) \cup ToSet(cards)
  <2> HIDE DEF cards, N, read
  <2>5. shown \in Seq(S) /\ cards \in Seq(S) /\ n \in Nat /\ DOMAIN shown = 1 .. n
    <3>1. shown \in Seq(ToSet(shown)) /\ cards \in Seq(ToSet(cards))
      BY <2>3 DEF PageTyped, CardsFilled, IsSequence
    <3> DEFINE A == ToSet(shown)
               B == ToSet(cards)
    <3> HIDE DEF A, B
    <3>2. shown \in Seq(A) /\ cards \in Seq(B)
      BY <3>1 DEF A, B
    <3>3. /\ Len(shown) \in Nat /\ shown \in [1 .. Len(shown) -> A \cup B]
          /\ Len(cards) \in Nat /\ cards \in [1 .. Len(cards) -> A \cup B]
          /\ DOMAIN shown = 1 .. Len(shown)
      BY <3>2
    <3>4. shown \in Seq(A \cup B) /\ cards \in Seq(A \cup B)
      BY <3>3, SeqDef
    <3> QED
      BY <3>3, <3>4 DEF A, B
  <2> HIDE DEF S
  <2>6. /\ shown' \in Seq(S) /\ DOMAIN shown' = 1 .. n + N
        /\ \A i \in 1 .. n + N : shown'[i] = IF i <= n THEN shown[i] ELSE cards[i - n]
    BY <2>1, <2>2, <2>3, <2>5
  <2>7. IsSequence(shown')
    BY <2>6, SequenceOf
  <2>8. ASSUME NEW i \in DOMAIN shown' PROVE CardFilled(shown'[i])
    <3>1. CASE i <= n
      BY <2>2, <2>5, <2>6, <3>1 DEF PageTyped, CardsFilled
    <3>2. CASE ~(i <= n)
      <4>1. i - n \in 1 .. N /\ shown'[i] = cards[i - n]
        BY <2>2, <2>5, <2>6, <3>2
      <4> QED
        BY <2>4, <4>1
    <3> QED
      BY <3>1, <3>2
  <2>9. CardsFilled'
    BY <2>7, <2>8 DEF CardsFilled, IsSequence, CardFilled
  <2> QED
    BY <1>1, <1>2, <2>9, UpdatesTypedKept, NodesTypedKept DEF PageTyped
<1> QED
  BY <1>3, <1>4

\* What is refused, or was never answered, leaves the cards and fewer to set.
LEMMA UpdateEndsFills ==
  ASSUME PageTyped, NEW u \in Updates, RefuseOne(u) \/ UpdateFailed(u)
  PROVE  PageTyped'
<1>1. DOMAIN updates = Updates
      /\ \A w \in Updates : DOMAIN updates[w] = {"stage", "card", "todo", "done"}
  BY DEF PageTyped, UpdatesTyped
<1>2. UNCHANGED <<loads, values>>
  BY DEF RefuseOne, UpdateFailed
<1>3. CASE RefuseOne(u)
  <2>1. PICK t \in updates[u].todo : updates' = [updates EXCEPT ![u].todo = @ \ {t}]
    BY <1>3 DEF RefuseOne
  <2>2. UpdatesTyped'
    BY <1>1, <2>1, FewerTodo DEF PageTyped
  <2> QED
    BY <1>2, <1>3, <2>2, CardsFilledKept, ReadsTypedKept, NodesTypedKept DEF PageTyped, RefuseOne
<1>4. CASE UpdateFailed(u)
  <2>1. /\ updates' = [updates EXCEPT ![u] = [NoUpdate EXCEPT !.todo = updates[u].todo]]
        /\ \/ shown' = shown
           \/ shown' = [shown EXCEPT ![updates[u].card].disabled = FALSE]
    BY <1>4 DEF UpdateFailed
  <2>2. UpdatesTyped'
    BY <1>1, <2>1, FewerTodo DEF PageTyped, NoUpdate
  <2>3. CardsFilled'
    BY <2>1, CardsFilledKept, ButtonKeepsCards DEF PageTyped
  <2> QED
    BY <1>2, <2>2, <2>3, ReadsTypedKept, NodesTypedKept DEF PageTyped
<1> QED
  BY <1>3, <1>4

LEMMA TypedInvariant == Spec => []PageTyped
<1>1. Inv /\ PageTyped /\ [Next]_vars => PageTyped'
  <2> SUFFICES ASSUME Inv, PageTyped, [Next]_vars PROVE PageTyped'
    OBVIOUS
  <2>1. LoadsTyped /\ ValuesTyped
    BY DEF Inv
  <2>2. CASE Startup \/ Reload \/ \E u \in Updates : UpdateAnswered(u)
    BY <2>1, <2>2, ReloadFills
  <2>3. CASE Edit \/ UpdateNode \/ SetByOther
    BY <2>1, <2>3, EditFills, UpdateNodeFills, SetByOtherFills
  <2>4. CASE \E l \in Loads : LoadStep(l)
    BY <2>1, <2>4, ReadNodeFills, LoadEndsFills DEF LoadStep
  <2>5. CASE \E u \in Updates : SetOne(u) \/ RefuseOne(u) \/ UpdateFailed(u)
    BY <2>1, <2>5, SetOneFills, UpdateEndsFills
  <2>6. CASE UNCHANGED vars
    BY <2>6, CardsFilledKept, ReadsTypedKept, UpdatesTypedKept, NodesTypedKept
       DEF vars, pageVars, PageTyped
  <2> QED
    BY <2>2, <2>3, <2>4, <2>5, <2>6 DEF Next, UpdateStep
<1> QED
  BY <1>1, InitTyped, Invariant, PTL DEF Spec

-----------------------------------------------------------------------------
(***************************************************************************)
(* The theorem                                                             *)
(***************************************************************************)

\* A load that overlaps with no other leaves a page that shows every node once,
\* with the values the nodes hold, or says that it could not be loaded, whatever
\* was sent, set or lost before and meanwhile.
THEOREM LoneReloadAlwaysCurrent == Spec => []LoneReloadShowsCurrentValues
<1>1. Inv => LoneReloadShowsCurrentValues
  <2> SUFFICES ASSUME Inv, ~overlapped, Quiet
               PROVE  \/ shown = <<>> /\ status = "error"
                      \/ /\ [i \in DOMAIN shown |-> shown[i].node] = TargetNodes
                         /\ ShownValuesCurrent
    BY DEF LoneReloadShowsCurrentValues, PageShowsCurrentValues
  <2>1. (shown = <<>> /\ status = "error") \/ CardsCurrent
    BY DEF Inv, Quiet, PageCurrent
  <2> SUFFICES ASSUME CardsCurrent
               PROVE  /\ [i \in DOMAIN shown |-> shown[i].node] = TargetNodes
                      /\ ShownValuesCurrent
    BY <2>1
  <2>2. DOMAIN shown = DOMAIN TargetNodes
    BY PageAssumption DEF CardsCurrent, IsSequence
  <2>3. [i \in DOMAIN shown |-> shown[i].node] = TargetNodes
    <3>1. TargetNodes = [i \in DOMAIN TargetNodes |-> TargetNodes[i]]
      BY PageAssumption
    <3> QED
      BY <2>2, <3>1 DEF CardsCurrent
  <2> QED
    BY <2>3 DEF CardsCurrent, Current, ShownValuesCurrent
<1> QED
  BY <1>1, Invariant, PTL

\* A click is the only step that begins an update.
LEMMA OnlyClicksSend ==
  ASSUME PageTyped, LoadsTyped, Next, ~UpdateNode, NEW u \in Updates, updates[u].stage = "free"
  PROVE  updates'[u].stage = "free"
<1>1. /\ DOMAIN updates = Updates
      /\ \A w \in Updates : DOMAIN updates[w] = {"stage", "card", "todo", "done"}
  BY DEF PageTyped, UpdatesTyped
<1>2. CASE Startup \/ Reload
  <2>1. updates'[u] = Detached(updates[u])
    BY <1>2 DEF Startup, Reload, BeginLoad
  <2> QED
    BY <1>1, <2>1 DEF Detached
<1>3. CASE \E w \in Updates : UpdateAnswered(w)
  <2>1. PICK w \in Updates : updates'[u] = Detached([updates EXCEPT ![w] = NoUpdate][u])
    BY <1>3 DEF UpdateAnswered, BeginLoad
  <2> QED
    BY <1>1, <2>1 DEF Detached, NoUpdate
<1>4. CASE SetByOther \/ \E w \in Updates : SetOne(w)
  <2>1. PICK a, b, value, w : SetValue(<<a, b>>, value, w)
    BY <1>4 DEF SetByOther, SetOne
  <2> QED
    BY <1>1, <2>1 DEF SetValue
<1>5. CASE \E w \in Updates : RefuseOne(w)
  BY <1>1, <1>5 DEF RefuseOne
<1>6. CASE \E w \in Updates : UpdateFailed(w)
  BY <1>1, <1>6 DEF UpdateFailed, NoUpdate
<1>7. CASE Edit \/ \E l \in Loads : LoadStep(l)
  BY <1>7 DEF Edit, LoadStep, ReadNode, LoadAnswered, LoadFails
<1> QED
  BY <1>2, <1>3, <1>4, <1>5, <1>6, <1>7 DEF Next, UpdateStep

\* An update sends what the user has typed and nothing else, and nothing that is
\* read-only: every other value comes back from its field as the bridge gave it,
\* lists of any length too, but for what a field cannot hold.
THEOREM OnlyEditedAlwaysSent == Spec => OnlyEditedSent
<1>1. Inv /\ PageTyped /\ [Next]_vars =>
        [\A u \in Updates :
           updates[u].stage = "free" /\ updates'[u].stage = "posting" =>
             LET card == shown[updates'[u].card]
             IN  \A t \in updates'[u].todo :
                   /\ <<card.node, t[2]>> \notin ReadOnly
                   /\ t[2] \in card.edited \/ Unshowable(card.original[t[2]])]_vars
  <2> SUFFICES ASSUME Inv, PageTyped, Next, NEW u \in Updates,
                      updates[u].stage = "free", updates'[u].stage = "posting",
                      NEW t \in updates'[u].todo
               PROVE  /\ <<shown[updates'[u].card].node, t[2]>> \notin ReadOnly
                      /\ \/ t[2] \in shown[updates'[u].card].edited
                         \/ Unshowable(shown[updates'[u].card].original[t[2]])
    OBVIOUS
  <2>1. UpdateNode
    BY OnlyClicksSend DEF Inv
  <2>2. PICK i \in DOMAIN shown :
          \/ updates' = updates
          \/ \E w \in Updates : updates' = [updates EXCEPT ![w] =
               [stage |-> "posting", card |-> i, done |-> {},
                todo |-> {<<shown[i].node, n, CollectChanged(shown[i])[n]>> :
                            n \in DOMAIN CollectChanged(shown[i])}]]
    BY <2>1 DEF UpdateNode
  <2>3. PICK w \in Updates : updates' = [updates EXCEPT ![w] =
               [stage |-> "posting", card |-> i, done |-> {},
                todo |-> {<<shown[i].node, n, CollectChanged(shown[i])[n]>> :
                            n \in DOMAIN CollectChanged(shown[i])}]]
    BY <2>2
  <2>4. updates'[u].card = i /\ \E n \in DOMAIN CollectChanged(shown[i]) : t[2] = n
    <3>1. u = w /\ DOMAIN updates = Updates
      BY <2>3 DEF PageTyped, UpdatesTyped
    <3> QED
      BY <2>3, <3>1
  <2> DEFINE card == shown[i]
             n == t[2]
             type == Declared[card.node][n]
  <2>5. /\ n \in DOMAIN card.field /\ ReadInput(card.field[n], type) # card.original[n]
        /\ <<card.node, n>> \notin ReadOnly
    BY <2>4 DEF CollectChanged, Inputs
  <2>6. CardFilled(card)
    BY DEF PageTyped, CardsFilled
  <2> HIDE DEF card, n, type
  <2>7. n \in Names(card.node) /\ card.node \in Nodes /\ JsonTyped(card.original[n], type)
        /\ (n \in card.edited \/ card.field[n] = InputForParameter(card.original[n], type))
    BY <2>5, <2>6 DEF CardFilled, type
  <2>8. type \in Types
    BY <2>7, PageAssumption DEF type
  <2>9. n \in card.edited \/ Unshowable(card.original[n])
    BY <2>5, <2>7, <2>8, RoundTrip
  <2> QED
    BY <2>4, <2>5, <2>9 DEF card, n
<1> QED
  BY <1>1, Invariant, TypedInvariant, PTL DEF Spec, OnlyEditedSent
=============================================================================
