------------------------------ MODULE HttpPost ------------------------------
(***************************************************************************)
(* What http_post_json promises to the worker of the detection sender: a   *)
(* call delivers its payload at most once, "ok" means that it did, and a   *)
(* failure says nothing: the payload may have been delivered, or may still *)
(* be.                                                                     *)
(***************************************************************************)
EXTENDS Naturals

CONSTANT Calls   \* the calls, one after the other

VARIABLES
  outcome,   \* of each call: "none" before it, "posting", "ok" or "failed"
  delivered  \* how often the receiver has handled the payload of each call

postVars == <<outcome, delivered>>

Init ==
  /\ outcome = [c \in Calls |-> "none"]
  /\ delivered = [c \in Calls |-> 0]

Post(c) ==
  /\ outcome[c] = "none"
  /\ \A d \in Calls : outcome[d] # "posting"
  /\ outcome' = [outcome EXCEPT ![c] = "posting"]
  /\ UNCHANGED delivered

Deliver(c) ==
  /\ outcome[c] \in {"posting", "failed"}
  /\ delivered[c] = 0
  /\ delivered' = [delivered EXCEPT ![c] = 1]
  /\ UNCHANGED outcome

ReturnOk(c) ==
  /\ outcome[c] = "posting"
  /\ delivered[c] = 1
  /\ outcome' = [outcome EXCEPT ![c] = "ok"]
  /\ UNCHANGED delivered

ReturnFailed(c) ==
  /\ outcome[c] = "posting"
  /\ outcome' = [outcome EXCEPT ![c] = "failed"]
  /\ UNCHANGED delivered

Next == \E c \in Calls : Post(c) \/ Deliver(c) \/ ReturnOk(c) \/ ReturnFailed(c)

\* Every call returns.
Spec ==
  /\ Init
  /\ [][Next]_postVars
  /\ \A c \in Calls : WF_postVars(ReturnOk(c) \/ ReturnFailed(c))
=============================================================================
