-------------------------- MODULE HttpClientProofs --------------------------
(***************************************************************************)
(* For any number of calls and addresses and any sizes: the types of       *)
(* HttpClient, that no call leaves a descriptor open, and that every step  *)
(* is one that HttpPost allows.                                            *)
(***************************************************************************)
EXTENDS HttpClient, TLAPS

-----------------------------------------------------------------------------
(***************************************************************************)
(* The inductive invariant                                                 *)
(***************************************************************************)

\* One call is at work unless the client is idle, and later ones have not
\* begun.
CallsInOrder ==
  /\ pc # "idle" => call \in Calls
  /\ \A c \in Calls :
       /\ outcome[c] = "posting" <=> (c = call /\ pc # "idle")
       /\ outcome[c] = "none" <=> c > call
       /\ peer[c] # "none" => c <= call

\* The payload is handled with the last unit of the request, and nobody
\* answers 2xx or reports "ok" before.
DeliveredByLastUnit ==
  \A c \in Calls :
    /\ delivered[c] = IF arrived[c] = RequestSize THEN 1 ELSE 0
    /\ Is2xx(status[c]) => delivered[c] = 1
    /\ outcome[c] = "ok" => delivered[c] = 1

Inv == TypeOK /\ NoDescriptorLeft /\ CallsInOrder /\ DeliveredByLastUnit

\* The initial states of the client and of the promise.
LEMMA InitInv == Init => Inv /\ Promise!Init
  BY HttpAssumption DEF Init, Inv, TypeOK, NoDescriptorLeft, CallsInOrder,
     DeliveredByLastUnit, Calls, Is2xx, NoStatus, Promise!Init

-----------------------------------------------------------------------------
(***************************************************************************)
(* Steps of a call                                                         *)
(***************************************************************************)

\* Every way out of a call closes its descriptor and reports what is true.
LEMMA ReturnStep ==
  ASSUME Inv, pc # "idle",
         NEW result, result = "failed" \/ (result = "ok" /\ delivered[call] = 1),
         NEW descriptors, descriptors = 0,
         Return(result, descriptors)
  PROVE  Inv' /\ Promise!Next
<1> USE HttpAssumption DEF Inv, Return, peerVars, Calls
<1>0. call \in Calls
  BY DEF CallsInOrder
<1>1. TypeOK'
  BY <1>0 DEF TypeOK
<1>2. NoDescriptorLeft'
  BY DEF NoDescriptorLeft
<1>3. CallsInOrder'
  BY <1>0 DEF TypeOK, CallsInOrder
<1>4. DeliveredByLastUnit'
  BY <1>0 DEF TypeOK, DeliveredByLastUnit
<1>5. Promise!ReturnOk(call) \/ Promise!ReturnFailed(call)
  BY <1>0 DEF CallsInOrder, Promise!ReturnOk, Promise!ReturnFailed
<1> QED
  BY <1>0, <1>1, <1>2, <1>3, <1>4, <1>5 DEF Promise!Next

\* A step that leaves the outcomes and the deliveries alone, and the receivers
\* too, is a stutter of the promise.
LEMMA QuietStep ==
  ASSUME Inv, CallsInOrder', TypeOK', NoDescriptorLeft',
         UNCHANGED <<outcome, delivered, arrived, status>>
  PROVE  Inv' /\ UNCHANGED Promise!postVars
  BY DEF Inv, DeliveredByLastUnit, Promise!postVars

\* Begin is the step Post of the promise.
LEMMA BeginStep == Inv /\ Begin => Inv' /\ Promise!Next
<1> SUFFICES ASSUME Inv, Begin PROVE Inv' /\ Promise!Next
  OBVIOUS
<1> USE HttpAssumption DEF Inv, Begin, peerVars, Calls
<1>0. call' \in Calls /\ call' = call + 1 /\ call \in Nat
  BY DEF TypeOK
<1>1. TypeOK'
  BY <1>0 DEF TypeOK
<1>2. NoDescriptorLeft'
  BY DEF NoDescriptorLeft
<1>3. CallsInOrder'
  BY <1>0 DEF TypeOK, CallsInOrder
<1>4. DeliveredByLastUnit'
  BY <1>0 DEF TypeOK, DeliveredByLastUnit
<1>5. Promise!Post(call')
  BY <1>0 DEF CallsInOrder, Promise!Post
<1> QED
  BY <1>0, <1>1, <1>2, <1>3, <1>4, <1>5 DEF Promise!Next

\* The steps of a call that returns from nothing.
LEMMA WorkStep ==
  Inv /\ (Resolve \/ Connect \/ Send \/ Recv) => Inv' /\ UNCHANGED Promise!postVars
<1> SUFFICES ASSUME Inv, Resolve \/ Connect \/ Send \/ Recv
             PROVE  Inv' /\ UNCHANGED Promise!postVars
  OBVIOUS
<1> USE HttpAssumption DEF Inv, peerVars, Calls
<1>0. call \in Calls
  BY DEF CallsInOrder, Resolve, Connect, Send, Recv
<1>1. CASE Resolve
  <2>1. TypeOK' /\ NoDescriptorLeft' /\ CallsInOrder'
    BY <1>0, <1>1 DEF Resolve, TypeOK, NoDescriptorLeft, CallsInOrder
  <2> QED
    BY <1>1, <2>1, QuietStep DEF Resolve
<1>2. CASE Connect
  <2>1. TypeOK' /\ NoDescriptorLeft'
    BY <1>0, <1>2 DEF Connect, TypeOK, NoDescriptorLeft
  <2>2. CallsInOrder'
    BY <1>0, <1>2 DEF Connect, TypeOK, CallsInOrder
  <2> QED
    BY <1>2, <2>1, <2>2, QuietStep DEF Connect
<1>3. CASE Send
  <2> PICK n \in 1 .. RequestSize - sent[call] :
         /\ sent' = [sent EXCEPT ![call] = @ + n]
         /\ pc' = IF sent[call] + n = RequestSize THEN "recv" ELSE "send"
    BY <1>3 DEF Send
  <2>1. sent[call] \in Nat /\ sent[call] + n \in 0 .. RequestSize
    BY <1>0 DEF TypeOK
  <2>2. sent' \in [Calls -> 0 .. RequestSize]
    BY <1>0, <2>1 DEF TypeOK
  <2>3. \A c \in Calls : arrived[c] <= sent'[c]
    <3> TAKE c \in Calls
    <3>1. arrived[c] \in Nat /\ sent[c] \in Nat /\ arrived[c] <= sent[c]
      BY DEF TypeOK
    <3>2. sent'[c] = sent[c] \/ sent'[c] = sent[c] + n
      BY DEF TypeOK
    <3> QED
      BY <3>1, <3>2
  <2>4. TypeOK'
    BY <1>3, <2>2, <2>3 DEF Send, TypeOK
  <2>5. NoDescriptorLeft' /\ CallsInOrder'
    BY <1>3 DEF Send, NoDescriptorLeft, CallsInOrder
  <2> QED
    BY <1>3, <2>4, <2>5, QuietStep DEF Send
<1>4. CASE Recv
  <2>1. TypeOK'
    BY <1>4 DEF Recv, TypeOK
  <2>2. NoDescriptorLeft' /\ CallsInOrder'
    BY <1>4 DEF Recv, NoDescriptorLeft, CallsInOrder
  <2> QED
    BY <1>4, <2>1, <2>2, QuietStep DEF Recv
<1> QED
  BY <1>1, <1>2, <1>3, <1>4

\* Every other step of a call is the end of it, or goes on to the next address.
LEMMA ClientStepOk == Inv /\ ClientStep => Inv' /\ (Promise!Next \/ UNCHANGED Promise!postVars)
<1> SUFFICES ASSUME Inv, ClientStep
             PROVE  Inv' /\ (Promise!Next \/ UNCHANGED Promise!postVars)
  OBVIOUS
<1>1. CASE Resolve \/ Connect \/ Send \/ Recv
  BY <1>1, WorkStep
<1>2. CASE ResolveFails
  <2>1. Return("failed", open) /\ pc # "idle" /\ open = 0
    BY <1>2 DEF ResolveFails, Inv, NoDescriptorLeft
  <2> QED
    BY <2>1, ReturnStep
<1>3. CASE ConnectFails
  <2>1. CASE addresses > 1
    <3>1. TypeOK' /\ NoDescriptorLeft' /\ CallsInOrder'
      BY <1>3, <2>1, HttpAssumption
         DEF ConnectFails, Inv, TypeOK, NoDescriptorLeft, CallsInOrder, peerVars
    <3> QED
      BY <1>3, <2>1, <3>1, QuietStep DEF ConnectFails, peerVars
  <2>2. CASE ~(addresses > 1)
    <3>1. Return("failed", open) /\ pc # "idle" /\ open = 0
      BY <1>3, <2>2 DEF ConnectFails, Inv, NoDescriptorLeft
    <3> QED
      BY <3>1, ReturnStep
  <2> QED
    BY <2>1, <2>2
<1>4. CASE SendFails \/ RecvFails
  <2>1. Return("failed", open - 1) /\ pc # "idle" /\ open - 1 = 0
    BY <1>4 DEF SendFails, RecvFails, Fail, Inv, NoDescriptorLeft
  <2> QED
    BY <2>1, ReturnStep
<1>5. CASE RecvEnds
  <2>1. Return(Answer, open - 1) /\ pc # "idle" /\ open - 1 = 0
    BY <1>5 DEF RecvEnds, Finish, Inv, NoDescriptorLeft
  <2>2. call \in Calls
    BY <2>1 DEF Inv, CallsInOrder
  <2>3. Answer = "failed" \/ (Answer = "ok" /\ delivered[call] = 1)
    BY <2>2 DEF Answer, Inv, DeliveredByLastUnit
  <2> QED
    BY <2>1, <2>3, ReturnStep
<1> QED
  BY <1>1, <1>2, <1>3, <1>4, <1>5 DEF ClientStep

-----------------------------------------------------------------------------
(***************************************************************************)
(* Steps of a receiver                                                     *)
(***************************************************************************)

\* Read delivers with the last unit, to a call that has not returned "ok".
LEMMA ReadStep ==
  ASSUME Inv, NEW c \in Calls, Read(c)
  PROVE  Inv' /\ (Promise!Next \/ UNCHANGED Promise!postVars)
<1> USE HttpAssumption DEF Inv, Read, localVars
<1>0. /\ arrived[c] \in 0 .. RequestSize /\ sent[c] \in 0 .. RequestSize
      /\ arrived[c] < sent[c] /\ RequestSize \in Nat
      /\ delivered[c] = 0
  BY DEF TypeOK, DeliveredByLastUnit
<1>1. TypeOK'
  <2>1. arrived' \in [Calls -> 0 .. RequestSize]
    BY <1>0 DEF TypeOK
  <2>2. \A d \in Calls : arrived'[d] <= sent[d]
    BY <1>0 DEF TypeOK
  <2>3. delivered' \in [Calls -> 0 .. 1]
    BY <1>0 DEF TypeOK
  <2> QED
    BY <2>1, <2>2, <2>3 DEF TypeOK
<1>2. NoDescriptorLeft' /\ CallsInOrder'
  BY DEF NoDescriptorLeft, CallsInOrder
<1>3. DeliveredByLastUnit'
  BY <1>0 DEF TypeOK, DeliveredByLastUnit
<1>4. CASE arrived[c] + 1 = RequestSize
  <2>0. (IF arrived[c] + 1 = RequestSize THEN delivered[c] + 1 ELSE delivered[c]) = 1
    BY <1>0, <1>4
  <2>1. delivered' = [delivered EXCEPT ![c] = 1]
    BY <2>0, Zenon
  <2>2. outcome[c] \in {"posting", "failed"}
    <3>1. outcome[c] \in {"none", "posting", "ok", "failed"}
      BY DEF TypeOK
    <3>2. c <= call /\ (outcome[c] = "none" <=> c > call)
      BY DEF CallsInOrder
    <3>3. c \in Int /\ call \in Int
      BY DEF TypeOK, Calls
    <3>4. outcome[c] # "ok"
      BY <1>0 DEF DeliveredByLastUnit
    <3> QED
      BY <3>1, <3>2, <3>3, <3>4
  <2>3. Promise!Deliver(c)
    BY <1>0, <2>1, <2>2 DEF Promise!Deliver
  <2> QED
    BY <1>1, <1>2, <1>3, <2>3 DEF Promise!Next
<1>5. CASE arrived[c] + 1 # RequestSize
  <2>1. delivered' = delivered
    BY <1>5 DEF TypeOK
  <2> QED
    BY <1>1, <1>2, <1>3, <2>1 DEF Promise!postVars
<1> QED
  BY <1>4, <1>5

\* A receiver that answers or goes away changes nothing the promise speaks of.
LEMMA PeerStep ==
  ASSUME Inv, NEW c \in Calls, Respond(c) \/ Close(c) \/ Reset(c)
  PROVE  Inv' /\ UNCHANGED Promise!postVars
<1> USE HttpAssumption DEF Inv, localVars
<1>1. CASE Respond(c)
  <2> PICK s \in Statuses :
         /\ status[c] \in {NoStatus, s}
         /\ Is2xx(s) => delivered[c] = 1
         /\ status' = [status EXCEPT ![c] = s]
    BY <1>1 DEF Respond
  <2>1. TypeOK' /\ NoDescriptorLeft' /\ CallsInOrder'
    BY <1>1 DEF Respond, TypeOK, NoDescriptorLeft, CallsInOrder
  <2>2. DeliveredByLastUnit'
    BY <1>1 DEF Respond, TypeOK, DeliveredByLastUnit
  <2> QED
    BY <1>1, <2>1, <2>2 DEF Respond, Promise!postVars
<1>2. CASE Close(c) \/ Reset(c)
  <2>1. TypeOK' /\ NoDescriptorLeft' /\ CallsInOrder'
    BY <1>2 DEF Close, Reset, TypeOK, NoDescriptorLeft, CallsInOrder
  <2> QED
    BY <1>2, <2>1, QuietStep DEF Close, Reset
<1> QED
  BY <1>1, <1>2

-----------------------------------------------------------------------------
(***************************************************************************)
(* The theorems                                                            *)
(***************************************************************************)

\* Every step keeps the invariant and is one of the promise or a stutter.
LEMMA StepOk ==
  Inv /\ [Next]_vars => Inv' /\ [Promise!Next]_Promise!postVars
<1> SUFFICES ASSUME Inv, [Next]_vars
             PROVE  Inv' /\ [Promise!Next]_Promise!postVars
  OBVIOUS
<1>1. CASE Begin
  BY <1>1, BeginStep
<1>2. CASE ClientStep
  BY <1>2, ClientStepOk
<1>3. CASE \E c \in Calls : Read(c) \/ Respond(c) \/ Close(c) \/ Reset(c)
  BY <1>3, ReadStep, PeerStep
<1>4. CASE UNCHANGED vars
  BY <1>4 DEF vars, localVars, peerVars, Inv, TypeOK, NoDescriptorLeft,
     CallsInOrder, DeliveredByLastUnit, Promise!postVars
<1> QED
  BY <1>1, <1>2, <1>3, <1>4 DEF Next

\* The invariant holds always.
LEMMA Invariant == Spec => []Inv
<1>1. Init => Inv
  BY InitInv
<1>2. Inv /\ [Next]_vars => Inv'
  BY StepOk
<1> QED
  BY <1>1, <1>2, PTL DEF Spec

\* The variables of the client and of the receivers keep their types.
THEOREM Typed == Spec => []TypeOK
<1>1. Inv => TypeOK
  BY DEF Inv
<1> QED
  BY <1>1, Invariant, PTL

\* A call holds one descriptor from its connection to its return, and none is
\* open between two calls (ScopedFd, connect_with_timeout).
THEOREM DescriptorsClosed == Spec => []NoDescriptorLeft
<1>1. Inv => NoDescriptorLeft
  BY DEF Inv
<1> QED
  BY <1>1, Invariant, PTL

\* Whatever the network and the receivers do, a call delivers at most once and
\* returns "ok" only if it did: the safety part of HttpPost.
THEOREM DeliversAtMostOnce ==
  Spec => Promise!Init /\ [][Promise!Next]_Promise!postVars
<1>1. Init => Promise!Init
  BY InitInv
<1>2. Inv /\ [Next]_vars => [Promise!Next]_Promise!postVars
  BY StepOk
<1> QED
  BY <1>1, <1>2, Invariant, PTL DEF Spec
=============================================================================
