--------------------------- MODULE DetectionChannel ---------------------------
(***************************************************************************)
(* What the sender promises about the payloads it means to post: a line of *)
(* bounded length, served in the order of arrival, that loses its oldest   *)
(* payload to a newer one and only when it is full; one payload in hand at *)
(* a time, posted at least once before it is given up and never again once *)
(* the receiver has acknowledged it; and no service after the closing.     *)
(*                                                                         *)
(* How often a payload is tried, and which settings a skip depends on, is  *)
(* the sender's business and left open here.                               *)
(***************************************************************************)
EXTENDS Naturals, Sequences

CONSTANTS
  Payloads,   \* numbers, in the order of arrival
  Capacity,   \* how many may wait, at least one
  Nobody      \* in_hand between two payloads, no payload itself

VARIABLES
  waiting,    \* the payloads in line
  in_hand,    \* the one being posted
  outcome,    \* what became of each
  posts,      \* how often each was posted
  open        \* the line is served

channelVars == <<waiting, in_hand, outcome, posts, open>>

Init ==
  /\ waiting = <<>>
  /\ in_hand = Nobody
  /\ outcome = [p \in Payloads |-> "outside"]
  /\ posts = [p \in Payloads |-> 0]
  /\ open = TRUE

Full == Len(waiting) >= Capacity

\* Payloads may pass by the line, but those that join it join in order.
Accept(p) ==
  /\ open
  /\ outcome[p] = "outside"
  /\ \A q \in Payloads : outcome[q] # "outside" => q < p
  /\ waiting' = Append(IF Full THEN Tail(waiting) ELSE waiting, p)
  /\ outcome' = [q \in Payloads |->
                   IF q = p THEN "waiting"
                   ELSE IF Full /\ q = Head(waiting) THEN "dropped"
                   ELSE outcome[q]]
  /\ UNCHANGED <<in_hand, posts, open>>

Take ==
  /\ open
  /\ in_hand = Nobody
  /\ waiting # <<>>
  /\ in_hand' = Head(waiting)
  /\ waiting' = Tail(waiting)
  /\ outcome' = [outcome EXCEPT ![Head(waiting)] = "in hand"]
  /\ UNCHANGED <<posts, open>>

Settle(what) ==
  /\ in_hand' = Nobody
  /\ outcome' = [outcome EXCEPT ![in_hand] = what]
  /\ UNCHANGED <<waiting, open>>

Attempt ==
  /\ in_hand # Nobody
  /\ posts' = [posts EXCEPT ![in_hand] = @ + 1]

AttemptFails == Attempt /\ UNCHANGED <<waiting, in_hand, outcome, open>>

Deliver == Attempt /\ Settle("ok")

GiveUp ==
  /\ in_hand # Nobody
  /\ posts[in_hand] >= 1
  /\ Settle("failed")
  /\ UNCHANGED posts

Skip ==
  /\ in_hand # Nobody
  /\ posts[in_hand] = 0
  /\ Settle("skipped")
  /\ UNCHANGED posts

Close ==
  /\ open
  /\ open' = FALSE
  /\ UNCHANGED <<waiting, in_hand, outcome, posts>>

\* What still waits when the line is closed is thrown away.
Discard ==
  /\ ~open
  /\ in_hand = Nobody
  /\ waiting # <<>>
  /\ waiting' = <<>>
  /\ outcome' = [p \in Payloads |->
                   IF outcome[p] = "waiting" THEN "cleared" ELSE outcome[p]]
  /\ UNCHANGED <<in_hand, posts, open>>

Next ==
  \/ \E p \in Payloads : Accept(p)
  \/ Take \/ AttemptFails \/ Deliver \/ GiveUp \/ Skip \/ Close \/ Discard

Spec == Init /\ [][Next]_channelVars
=============================================================================
