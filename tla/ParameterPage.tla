---------------------------- MODULE ParameterPage ----------------------------
(***************************************************************************)
(* web/parameter_gui.html in a browser, and the parameters of the nodes    *)
(* behind the bridge.  What a handler of the page does between two awaits  *)
(* is one action; a load (loadAll) or an update (updateNode) that awaits   *)
(* the bridge is a task, and any number of them may be under way.  The     *)
(* bridge is as ParameterBridge shows it to be: it answers every request,  *)
(* or the connection breaks; it reads the nodes one after the other, sets  *)
(* parameters one by one, and may set them after it gave up waiting.       *)
(*                                                                         *)
(* A value of the page is a kind and a content: <<"number", x>> with x in  *)
(* the unit of ParameterJson, <<"bool", TRUE>>, <<"string", "map">>,       *)
(* <<"array", a sequence of values>>, <<"null", 0>>.                       *)
(***************************************************************************)
EXTENDS ParameterJson, SequencesExt

CONSTANTS
  NaN,            \* a double that is none; JSON has no text for it
  TargetNodes,    \* target_nodes, a sequence
  Declared,       \* for each of them, the types of its parameters
  InitialValues,  \* for each of them, their values
  ReadOnly,       \* <<node, name>> of the parameters declared read-only
  Pieces,         \* what is left of each text between commas, once trimmed
  OneLine,        \* what is left of a text with line breaks in a text input
  Typed,          \* for each type, the contents of a field the user types in
  OtherValues,    \* <<node, name, value>> that other clients set
  MaxLoads,       \* bound: the loads under way
  MaxUpdates      \* bound: the updates under way

Loads == 1 .. MaxLoads
Updates == 1 .. MaxUpdates
Nodes == ToSet(TargetNodes)
Names(node) == DOMAIN Declared[node]

Texts == DOMAIN Pieces
Types == {"double", "integer", "bool", "string"} \cup DOMAIN ElementType

\* A value of a parameter, and the content of its field: both hold a list for
\* an array, and that of strings has texts whose pieces are known.
ValueTyped(v, type) ==
  CASE type = "bool_array"    -> v \in Seq(BOOLEAN)
    [] type = "string_array"  -> v \in Seq(Texts)
    [] type = "double_array"  -> v \in Seq(Int \cup {NaN})
    [] type = "integer_array" -> v \in Seq(Int)
    [] OTHER                  -> TRUE

FieldTyped(field, type) ==
  type \in DOMAIN ElementType =>
    /\ field[1] = "array"
    /\ field[2] \in Seq({"string"} \X (Texts \cup {"true", "false"})
                         \cup {"number"} \X Int)
    /\ type = "string_array" => field[2] \in Seq({"string"} \X Texts)

ASSUME PageAssumption ==
  /\ One \in Nat \ {0} /\ Int64Max \in Nat
  /\ TargetNodes \in Seq(Nodes) /\ TargetNodes # <<>> /\ IsInjective(TargetNodes)
  /\ MaxLoads \in Nat \ {0} /\ MaxUpdates \in Nat
  /\ DOMAIN Declared = Nodes /\ DOMAIN InitialValues = Nodes
  /\ ReadOnly \subseteq UNION {{node} \X Names(node) : node \in Nodes}
  /\ Pieces \in [Texts -> Seq(Texts)]
  /\ \A text \in DOMAIN OneLine : OneLine[text] # text
  /\ \A node \in Nodes :
       /\ DOMAIN InitialValues[node] = Names(node)
       /\ \A n \in Names(node) :
            /\ Declared[node][n] \in Types
            /\ ValueTyped(InitialValues[node][n], Declared[node][n])
            /\ \A field \in Typed[Declared[node][n]] :
                 FieldTyped(field, Declared[node][n])
  /\ \A v \in OtherValues :
       /\ v[1] \in Nodes /\ v[2] \in Names(v[1]) /\ <<v[1], v[2]>> \notin ReadOnly
       /\ ValueTyped(v[3], Declared[v[1]][v[2]])

VARIABLES
  started,     \* checkHealth has returned
  shown,       \* the cards on the page, in their order
  status,      \* the kind of the status line: "", "loading", "ok", "error"
  loads,       \* the loads under way
  updates,     \* the updates under way: the card, the <<node, name, value>>
               \* that the bridge has still to set, and what it has set
  values,      \* the values the nodes hold
  told,        \* history: <<node, name>> whose value was set last by an update
               \* that the page had an answer to, or by no one
  overlapped   \* history: another load was under way when the last one began

pageVars == <<started, shown, status, loads, updates, overlapped>>
vars == <<pageVars, values, told>>

NoLoad == [stage |-> "free", read |-> <<>>]
NoUpdate == [stage |-> "free", card |-> 0, todo |-> {}, done |-> {}]

-----------------------------------------------------------------------------
(***************************************************************************)
(* Values, JSON texts and fields                                           *)
(***************************************************************************)

\* parameter_to_json, the text of the answer, and what the browser makes of it.
\* A number beyond 2^53 would be rounded.
ScalarToJson(v, type) ==
  CASE type = "double"  -> IF v = NaN THEN <<"null", 0>> ELSE <<"number", v>>
    [] type = "integer" -> <<"number", v * One>>
    [] type = "bool"    -> <<"bool", v>>
    [] type = "string"  -> <<"string", v>>

ToJson(v, type) ==
  IF type \in DOMAIN ElementType
  THEN <<"array", [i \in DOMAIN v |-> ScalarToJson(v[i], ElementType[type])]>>
  ELSE ScalarToJson(v, type)

\* The body of a POST, parsed by the bridge.
ScalarParsed(json) ==
  IF json[1] # "number" THEN json
  ELSE IF json[2] % One # 0 THEN <<"float", json[2]>>
  ELSE <<IF json[2] < 0 THEN "integer" ELSE "unsigned", json[2] \div One>>

Parsed(json) ==
  IF json[1] = "array"
  THEN <<"array", [i \in DOMAIN json[2] |-> ScalarParsed(json[2][i])]>>
  ELSE ScalarParsed(json)

\* The texts an element of an array makes in a line joined with commas.
ElementTexts(json) ==
  CASE json[1] = "null"   -> <<>>
    [] json[1] = "string" -> [i \in DOMAIN Pieces[json[2]] |->
                                <<"string", Pieces[json[2]][i]>>]
    [] json[1] = "bool"   -> <<<<"string", IF json[2] THEN "true" ELSE "false">>>>
    [] json[1] = "number" -> <<json>>

\* Those of all elements, one after the other.
JoinedTexts(elements) ==
  LET upTo[k \in 0 .. Len(elements)] ==
        IF k = 0 THEN <<>> ELSE upTo[k - 1] \o ElementTexts(elements[k])
  IN  upTo[Len(elements)]

\* inputForParameter: what its field holds, for an array the texts between the
\* commas.  A text input takes the line breaks out of what it is given.
InputForParameter(json, type) ==
  IF json[1] = "array" THEN <<"array", JoinedTexts(json[2])>>
  ELSE IF json[1] = "string" /\ json[2] \in DOMAIN OneLine
  THEN <<"string", OneLine[json[2]]>>
  ELSE IF json[1] # "null" THEN json
  ELSE IF type = "string" THEN <<"string", "">> ELSE <<"number", 0>>

\* readInput throws: "not a number", "expected integer", "expected boolean".
\* A number field that is empty, or holds no number, is <<"empty", 0>>.
TextReadable(text, type) ==
  CASE type = "double"  -> text[1] = "number"
    [] type = "integer" -> text[1] = "number" /\ text[2] % One = 0
    [] type = "bool"    -> text \in {"string"} \X (TrueTexts \cup FalseTexts)
    [] type = "string"  -> TRUE

FieldReadable(field, type) ==
  IF type \in DOMAIN ElementType
  THEN \A i \in DOMAIN field[2] : TextReadable(field[2][i], ElementType[type])
  ELSE type \in {"double", "integer"} =>
         field[1] = "empty" \/ TextReadable(field, type)

\* readInput: Number("") is 0.
ReadInput(field, type) ==
  IF field[1] = "empty" THEN <<"number", 0>>
  ELSE IF type = "bool_array"
  THEN <<"array", [i \in DOMAIN field[2] |->
                     <<"bool", field[2][i][2] \in TrueTexts>>]>>
  ELSE field

-----------------------------------------------------------------------------
(***************************************************************************)
(* Cards                                                                   *)
(***************************************************************************)

\* renderNode of an entry of the bridge's answer; "edited" is a history.
RenderNode(entry) ==
  [node |-> entry.node, available |-> entry.available, disabled |-> FALSE,
   original |-> entry.values, edited |-> {},
   field |-> [n \in DOMAIN entry.values |->
                InputForParameter(entry.values[n], Declared[entry.node][n])]]

\* The input of a read-only parameter is disabled.
Inputs(card) == {n \in DOMAIN card.field : <<card.node, n>> \notin ReadOnly}

FieldsReadable(card) ==
  \A n \in Inputs(card) : FieldReadable(card.field[n], Declared[card.node][n])

\* Slip: every input is sent.
CollectAll(card) ==
  [n \in Inputs(card) |-> ReadInput(card.field[n], Declared[card.node][n])]

\* Slip: disabled inputs are not passed over.
CollectDisabled(card) ==
  LET Value(n) == ReadInput(card.field[n], Declared[card.node][n])
  IN  [n \in {m \in DOMAIN card.field : Value(m) # card.original[m]} |-> Value(n)]

CollectChanged(card) ==
  LET Value(n) == ReadInput(card.field[n], Declared[card.node][n])
  IN  [n \in {m \in Inputs(card) : Value(m) # card.original[m]} |-> Value(n)]

\* The user types in a field of a card, also while its button is disabled.
Edit ==
  /\ \E i \in DOMAIN shown : \E n \in Inputs(shown[i]) :
       \E text \in Typed[Declared[shown[i].node][n]] :
         /\ shown[i].field[n] # text
         /\ shown' = [shown EXCEPT ![i].field[n] = text,
                                   ![i].edited = @ \cup {n}]
  /\ UNCHANGED <<started, status, loads, updates, values, told, overlapped>>

-----------------------------------------------------------------------------
(***************************************************************************)
(* loadAll                                                                 *)
(***************************************************************************)
LoadsUnderWay == {l \in Loads : loads[l].stage # "free"}

\* An update whose card is no longer on the page.
Detached(u) == [u EXCEPT !.card = 0]

\* Slip: the page is not emptied.
BeginLoadKeepsCards(l, rest) ==
  /\ loads[l].stage = "free"
  /\ \A k \in 1 .. l - 1 : loads[k].stage # "free"
  /\ loads' = [loads EXCEPT ![l].stage = "reading"]
  /\ overlapped' = (LoadsUnderWay # {})
  /\ status' = "loading"
  /\ updates' = rest
  /\ UNCHANGED shown

\* loadAll up to its await: the page is emptied.  "rest" are the updates as
\* the caller leaves them.
BeginLoad(l, rest) ==
  /\ loads[l].stage = "free"
  /\ \A k \in 1 .. l - 1 : loads[k].stage # "free"
  /\ loads' = [loads EXCEPT ![l].stage = "reading"]
  /\ overlapped' = (LoadsUnderWay # {})
  /\ status' = "loading"
  /\ updates' = [u \in Updates |-> Detached(rest[u])]
  /\ shown' = <<>>

\* At the end of the script: checkHealth().then(loadAll).
Startup ==
  /\ ~started
  /\ started' = TRUE
  /\ \E l \in Loads : BeginLoad(l, updates)
  /\ UNCHANGED <<values, told>>

\* The reload button, which is never disabled.
Reload ==
  /\ \E l \in Loads : BeginLoad(l, updates)
  /\ UNCHANGED <<started, values, told>>

\* snapshot_node of the bridge, for one node after the other.
ReadNode(l) ==
  /\ loads[l].stage = "reading"
  /\ Len(loads[l].read) < Len(TargetNodes)
  /\ LET node == TargetNodes[Len(loads[l].read) + 1]
         json == [n \in Names(node) |-> ToJson(values[node][n], Declared[node][n])]
     IN  \E entry \in {[node |-> node, available |-> TRUE, values |-> json],
                       [node |-> node, available |-> FALSE, values |-> <<>>]} :
           loads' = [loads EXCEPT ![l].read = Append(@, entry)]
  /\ UNCHANGED <<started, shown, status, updates, values, told, overlapped>>

\* The rest of loadAll: a card for each node is appended.
LoadAnswered(l) ==
  /\ loads[l].stage = "reading"
  /\ Len(loads[l].read) = Len(TargetNodes)
  /\ loads' = [loads EXCEPT ![l] = NoLoad]
  /\ shown' = shown \o [i \in DOMAIN TargetNodes |-> RenderNode(loads[l].read[i])]
  /\ status' = ""
  /\ UNCHANGED <<started, updates, values, told, overlapped>>

\* Slip: an error of fetchJson is not caught.
LoadFailsSilently(l) ==
  /\ loads[l].stage = "reading"
  /\ loads' = [loads EXCEPT ![l] = NoLoad]
  /\ UNCHANGED <<started, shown, status, updates, values, told, overlapped>>

LoadFails(l) ==
  /\ loads[l].stage = "reading"
  /\ loads' = [loads EXCEPT ![l] = NoLoad]
  /\ status' = "error"
  /\ UNCHANGED <<started, shown, updates, values, told, overlapped>>

-----------------------------------------------------------------------------
(***************************************************************************)
(* updateNode                                                              *)
(***************************************************************************)

\* A click on "Update changed", up to the await of the answer.
UpdateNode ==
  /\ \E i \in DOMAIN shown :
       LET card == shown[i]
           changed == CollectChanged(card)
       IN  /\ card.available /\ ~card.disabled
           /\ \/ /\ ~FieldsReadable(card)
                 /\ status' = "error"
                 /\ UNCHANGED <<shown, updates>>
              \/ /\ FieldsReadable(card) /\ changed = <<>>
                 /\ status' = "ok"
                 /\ UNCHANGED <<shown, updates>>
              \/ /\ FieldsReadable(card) /\ changed # <<>>
                 /\ \E u \in Updates :
                      /\ updates[u].stage = "free" /\ updates[u].todo = {}
                      /\ updates' = [updates EXCEPT ![u] =
                           [stage |-> "posting", card |-> i, done |-> {},
                            todo |-> {<<card.node, n, changed[n]>> :
                                        n \in DOMAIN changed}]]
                 /\ shown' = [shown EXCEPT ![i].disabled = TRUE]
                 /\ status' = ""
  /\ UNCHANGED <<started, loads, values, told, overlapped>>

\* A parameter, <<node, name>>, is set by the update u, which may have failed
\* meanwhile, or, for 0, by another client.
SetValue(parameter, value, u) ==
  /\ values' = [values EXCEPT ![parameter[1]][parameter[2]] = value]
  /\ told' = told \ {parameter}
  /\ updates' =
       [w \in Updates |->
          [updates[w] EXCEPT
             !.done = IF w = u /\ updates[w].stage = "posting"
                      THEN @ \cup {parameter} ELSE @ \ {parameter},
             !.todo = {t \in @ : w # u \/ <<t[1], t[2]>> # parameter}]]

\* The bridge and the node: a value that converts and that the node accepts,
\* of a parameter that can be set.
SetOne(u) ==
  /\ \E t \in updates[u].todo :
       LET type == Declared[t[1]][t[2]]
       IN  /\ <<t[1], t[2]>> \notin ReadOnly
           /\ Convertible(Parsed(t[3]), type)
           /\ SetValue(<<t[1], t[2]>>, Converted(Parsed(t[3]), type), u)
  /\ UNCHANGED <<started, shown, status, loads, overlapped>>

\* One that does not convert or is refused, or a node that ends.
RefuseOne(u) ==
  /\ \E t \in updates[u].todo :
       updates' = [updates EXCEPT ![u].todo = @ \ {t}]
  /\ UNCHANGED <<started, shown, status, loads, values, told, overlapped>>

\* Slip: the values are not read again.
AnsweredWithoutReload(u) ==
  /\ updates[u].stage = "posting" /\ updates[u].todo = {}
  /\ status' = "ok"
  /\ told' = told \cup updates[u].done
  /\ updates' = [updates EXCEPT ![u] = NoUpdate]
  /\ shown' = IF updates[u].card = 0 THEN shown
              ELSE [shown EXCEPT ![updates[u].card].disabled = FALSE]
  /\ UNCHANGED <<started, loads, values, overlapped>>

\* The answer of the bridge, and the reload.  What follows the reload enables
\* a button that the reload has taken off the page.
UpdateAnswered(u) ==
  /\ updates[u].stage = "posting" /\ updates[u].todo = {}
  /\ told' = told \cup updates[u].done
  /\ \E l \in Loads : BeginLoad(l, [updates EXCEPT ![u] = NoUpdate])
  /\ UNCHANGED <<started, values>>

\* Slip: the button is enabled after an answer only.
FailedStaysDisabled(u) ==
  /\ updates[u].stage = "posting"
  /\ status' = "error"
  /\ updates' = [updates EXCEPT ![u] = [NoUpdate EXCEPT !.todo = updates[u].todo]]
  /\ UNCHANGED <<started, shown, loads, values, told, overlapped>>

\* An answer that is an error, or none.  What the bridge has not set yet, it
\* may still set.
UpdateFailed(u) ==
  /\ updates[u].stage = "posting"
  /\ status' = "error"
  /\ updates' = [updates EXCEPT ![u] = [NoUpdate EXCEPT !.todo = updates[u].todo]]
  /\ shown' = IF updates[u].card = 0 THEN shown
              ELSE [shown EXCEPT ![updates[u].card].disabled = FALSE]
  /\ UNCHANGED <<started, loads, values, told, overlapped>>

-----------------------------------------------------------------------------
SetByOther ==
  /\ \E v \in OtherValues : SetValue(<<v[1], v[2]>>, v[3], 0)
  /\ UNCHANGED <<started, shown, status, loads, overlapped>>

Init ==
  /\ started = FALSE /\ overlapped = FALSE
  /\ shown = <<>> /\ status = ""
  /\ loads = [l \in Loads |-> NoLoad]
  /\ updates = [u \in Updates |-> NoUpdate]
  /\ values = InitialValues
  /\ told = UNION {{node} \X Names(node) : node \in Nodes}

LoadStep(l) == ReadNode(l) \/ LoadAnswered(l) \/ LoadFails(l)
UpdateStep(u) == SetOne(u) \/ RefuseOne(u) \/ UpdateAnswered(u) \/ UpdateFailed(u)

Next ==
  \/ Startup \/ Reload \/ Edit \/ UpdateNode \/ SetByOther
  \/ \E l \in Loads : LoadStep(l)
  \/ \E u \in Updates : UpdateStep(u)

Spec == Init /\ [][Next]_vars

\* Every request comes to an end: the bridge answers it (EveryRequestAnswered
\* of ParameterBridge) or the connection breaks.  Nothing is asked of the user.
FairSpec ==
  /\ Spec
  /\ \A l \in Loads : WF_vars(LoadStep(l))
  /\ \A u \in Updates : WF_vars(UpdateStep(u))

-----------------------------------------------------------------------------
(***************************************************************************)
(* Properties                                                              *)
(***************************************************************************)

\* What a field cannot hold as it is: a NaN, which reaches the page as null, a
\* text with line breaks, and an element of a list that is empty or contains a
\* comma.
Unshowable(json) ==
  \/ json[1] = "null"
  \/ json[1] = "string" /\ json[2] \in DOMAIN OneLine
  \/ json[1] = "array" /\ \E i \in DOMAIN json[2] :
       \/ json[2][i][1] = "null"
       \/ json[2][i][1] = "string" /\ Pieces[json[2][i][2]] # <<json[2][i][2]>>

\* An update sends what the user has typed and nothing else, however the values
\* went through JSON, fields and back, but for what a field cannot hold, and
\* nothing that is read-only.
OnlyEditedSent ==
  [][\A u \in Updates :
       updates[u].stage = "free" /\ updates'[u].stage = "posting" =>
         LET card == shown[updates'[u].card]
         IN  \A t \in updates'[u].todo :
               /\ <<card.node, t[2]>> \notin ReadOnly
               /\ t[2] \in card.edited \/ Unshowable(card.original[t[2]])]_vars

Quiet ==
  /\ started /\ LoadsUnderWay = {}
  /\ \A u \in Updates : updates[u].stage = "free"

ShownValuesCurrent ==
  \A i \in DOMAIN shown :
    \A n \in DOMAIN shown[i].original :
      <<shown[i].node, n>> \in told =>
        shown[i].original[n] =
          ToJson(values[shown[i].node][n], Declared[shown[i].node][n])

\* When nothing is under way the page shows every node once, or that it could
\* not load them; and of each parameter the value the node holds, unless that
\* was set by someone else or by an update the page got no answer to.
PageShowsCurrentValues ==
  Quiet =>
    \/ shown = <<>> /\ status = "error"
    \/ /\ [i \in DOMAIN shown |-> shown[i].node] = TargetNodes
       /\ ShownValuesCurrent

\* A load that overlaps with no other, neither a reload nor the one that follows
\* the answer of an update, leaves such a page, whatever has happened before it
\* and whatever is set, lost or refused meanwhile.  Of those that overlap each
\* appends its cards (loadAll): every node is then on the page twice, and values
\* from before an update may stay on one of its cards.
LoneReloadShowsCurrentValues == overlapped \/ PageShowsCurrentValues

\* "loading..." goes away.
LoadingEnds == status = "loading" ~> status # "loading"

\* A button that was disabled is enabled again or gone.
Disabled(i) == i \in DOMAIN shown /\ shown[i].disabled

ButtonsComeBack ==
  \A i \in 1 .. MaxLoads * Len(TargetNodes) : Disabled(i) ~> ~Disabled(i)
=============================================================================
