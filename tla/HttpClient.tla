----------------------------- MODULE HttpClient -----------------------------
(***************************************************************************)
(* http_post_json of http_client.cpp, called again and again as the worker *)
(* of the detection sender does, and the receivers it may meet: that of    *)
(* tools/receive_detections.py, which answers 204 when it has read and     *)
(* printed the whole body, servers that answer something else, slowly or   *)
(* without end, and connections that break.                                *)
(*                                                                         *)
(* Requests and responses are counted in units; the first StatusLine units *)
(* of a response are its status line.  The time-outs are those of select,  *)
(* SO_SNDTIMEO and SO_RCVTIMEO: any wait may end with one.                 *)
(***************************************************************************)
EXTENDS Integers

CONSTANTS
  MaxCalls,      \* bound: calls of http_post_json
  MaxAddresses,  \* bound: addresses getaddrinfo returns
  RequestSize,   \* units of a request
  StatusLine,    \* units of a status line
  MaxResponse,   \* the 64 KiB behind which a response is not read further
  Statuses       \* status codes that servers answer; a negative one stands
                 \* for a first line that is no status line

ASSUME HttpAssumption ==
  /\ {MaxCalls, MaxAddresses, RequestSize, StatusLine, MaxResponse} \subseteq Nat \ {0}
  /\ StatusLine <= MaxResponse
  /\ Statuses \subseteq Int

Calls == 1 .. MaxCalls

VARIABLES
  call,       \* the call at work, or the last one
  pc,         \* "idle", "resolve", "connect", "send" or "recv"
  addresses,  \* the addresses that remain, the current one included
  open,       \* the descriptors of the process that are open
  received,   \* units of response read by the call
  unread,     \* units of response that have arrived and are not yet read
  peer,       \* the connection a call sends on: "none", "up", "closed", "reset"
  sent,       \* units of the request taken by the kernel, for each call
  arrived,    \* units of the request the receiver has read
  status,     \* what the receiver has answered, or NoStatus
  delivered,  \* how often the receiver has handled the payload
  outcome     \* of each call: "none", "posting", "ok" or "failed"

localVars == <<call, pc, addresses, open, received>>
peerVars == <<peer, arrived, status, delivered>>
vars == <<localVars, unread, peerVars, sent, outcome>>

NoStatus == 0
Is2xx(s) == s >= 200 /\ s < 300

-----------------------------------------------------------------------------
(***************************************************************************)
(* http_post_json                                                          *)
(***************************************************************************)

\* The call returns; descriptors still open after it stay open.
Return(result, descriptors) ==
  /\ outcome' = [outcome EXCEPT ![call] = result]
  /\ pc' = "idle"
  /\ open' = descriptors
  /\ received' = 0 /\ addresses' = 0 /\ unread' = 0
  /\ UNCHANGED <<call, peerVars, sent>>

\* ScopedFd closes the socket on every way out.
Fail == Return("failed", open - 1)

Begin ==
  /\ pc = "idle" /\ call < MaxCalls
  /\ call' = call + 1
  /\ pc' = "resolve"
  /\ outcome' = [outcome EXCEPT ![call'] = "posting"]
  /\ UNCHANGED <<addresses, open, received, unread, peerVars, sent>>

Resolve ==
  /\ pc = "resolve"
  /\ addresses' \in 1 .. MaxAddresses
  /\ pc' = "connect"
  /\ UNCHANGED <<call, open, received, unread, peerVars, sent, outcome>>

ResolveFails ==
  /\ pc = "resolve"
  /\ Return("failed", open)

\* Slip: a socket whose connection failed is not closed.
ConnectLeaks ==
  /\ pc = "connect"
  /\ IF addresses > 1
     THEN /\ addresses' = addresses - 1
          /\ open' = open + 1
          /\ UNCHANGED <<call, pc, received, unread, peerVars, sent, outcome>>
     ELSE Return("failed", open + 1)

\* connect_with_timeout closes what it opened; the next address is tried.
ConnectFails ==
  /\ pc = "connect"
  /\ IF addresses > 1
     THEN /\ addresses' = addresses - 1
          /\ UNCHANGED <<call, pc, open, received, unread, peerVars, sent, outcome>>
     ELSE Return("failed", open)

Connect ==
  /\ pc = "connect"
  /\ pc' = "send"
  /\ open' = open + 1
  /\ peer' = [peer EXCEPT ![call] = "up"]
  /\ UNCHANGED <<call, addresses, received, unread, arrived, status, delivered,
                 sent, outcome>>

\* Slip: a repeated send offers as many units as the first one.
SendOffersAll ==
  /\ pc = "send" /\ peer[call] # "reset"
  /\ \E n \in 1 .. RequestSize :
       /\ sent' = [sent EXCEPT ![call] = @ + n]
       /\ pc' = IF sent[call] + n >= RequestSize THEN "recv" ELSE "send"
  /\ UNCHANGED <<call, addresses, open, received, unread, peerVars, outcome>>

\* send takes some of what remains; an interrupted one is repeated.
Send ==
  /\ pc = "send" /\ peer[call] # "reset"
  /\ \E n \in 1 .. RequestSize - sent[call] :
       /\ sent' = [sent EXCEPT ![call] = @ + n]
       /\ pc' = IF sent[call] + n = RequestSize THEN "recv" ELSE "send"
  /\ UNCHANGED <<call, addresses, open, received, unread, peerVars, outcome>>

\* The peer is gone or takes nothing for too long.
SendFails == pc = "send" /\ Fail

\* parse_status_line and the class of the code; the response may be cut.
Answer ==
  IF received >= StatusLine /\ Is2xx(status[call]) THEN "ok" ELSE "failed"

Finish == Return(Answer, open - 1)

\* Slip: a response is read to its end, however long it is.
RecvUnlimited ==
  /\ pc = "recv" /\ unread > 0
  /\ received' = IF received > MaxResponse THEN received ELSE received + 1
  /\ unread' = unread - 1
  /\ UNCHANGED <<call, pc, addresses, open, peerVars, sent, outcome>>

\* recv returns what has arrived, one unit or more.
Recv ==
  /\ pc = "recv" /\ unread > 0 /\ received <= MaxResponse
  /\ \E n \in 1 .. unread :
       /\ received' = received + n
       /\ unread' = unread - n
  /\ UNCHANGED <<call, pc, addresses, open, peerVars, sent, outcome>>

RecvEnds ==
  /\ pc = "recv"
  /\ received > MaxResponse \/ (peer[call] = "closed" /\ unread = 0)
  /\ Finish

\* Slip: after a failure the request is sent again on a new connection.
RecvFailsAndRepeats ==
  /\ pc = "recv"
  /\ pc' = "send"
  /\ sent' = [sent EXCEPT ![call] = 0]
  /\ arrived' = [arrived EXCEPT ![call] = 0]
  /\ peer' = [peer EXCEPT ![call] = "up"]
  /\ received' = 0 /\ unread' = 0
  /\ UNCHANGED <<call, addresses, open, status, delivered, outcome>>

\* A reset or a time-out, also behind a status line that is complete.
RecvFails ==
  /\ pc = "recv" /\ received <= MaxResponse
  /\ Fail

ClientStep ==
  \/ Resolve \/ ResolveFails \/ Connect \/ ConnectFails
  \/ Send \/ SendFails \/ Recv \/ RecvEnds \/ RecvFails

-----------------------------------------------------------------------------
(***************************************************************************)
(* Receivers                                                               *)
(***************************************************************************)

\* What is in the buffers is read even when the client has gone.  With the
\* last unit the receiver prints the detections.
Read(c) ==
  /\ peer[c] = "up" /\ arrived[c] < sent[c]
  /\ arrived' = [arrived EXCEPT ![c] = @ + 1]
  /\ delivered' = [delivered EXCEPT ![c] =
                     IF arrived[c] + 1 = RequestSize THEN @ + 1 ELSE @]
  /\ UNCHANGED <<localVars, unread, peer, status, sent, outcome>>

\* Some of a response goes out; a server that has no end sends on and on.
Respond(c) ==
  /\ c = call /\ pc \in {"send", "recv"}
  /\ peer[c] = "up" /\ unread = 0
  /\ \E s \in Statuses :
       /\ status[c] \in {NoStatus, s}
       /\ Is2xx(s) => delivered[c] = 1
       /\ status' = [status EXCEPT ![c] = s]
  /\ unread' \in 1 .. MaxResponse
  /\ UNCHANGED <<localVars, peer, arrived, delivered, sent, outcome>>

Close(c) ==
  /\ peer[c] = "up"
  /\ peer' = [peer EXCEPT ![c] = "closed"]
  /\ UNCHANGED <<localVars, unread, arrived, status, delivered, sent, outcome>>

\* A reset also takes with it what was not read yet.
Reset(c) ==
  /\ peer[c] = "up"
  /\ peer' = [peer EXCEPT ![c] = "reset"]
  /\ unread' \in {0, unread}
  /\ UNCHANGED <<localVars, arrived, status, delivered, sent, outcome>>

-----------------------------------------------------------------------------
Init ==
  /\ call = 0 /\ pc = "idle" /\ addresses = 0 /\ open = 0
  /\ received = 0 /\ unread = 0
  /\ peer = [c \in Calls |-> "none"]
  /\ sent = [c \in Calls |-> 0]
  /\ arrived = [c \in Calls |-> 0]
  /\ status = [c \in Calls |-> NoStatus]
  /\ delivered = [c \in Calls |-> 0]
  /\ outcome = [c \in Calls |-> "none"]

Next ==
  \/ Begin
  \/ ClientStep
  \/ \E c \in Calls : Read(c) \/ Respond(c) \/ Close(c) \/ Reset(c)

Spec == Init /\ [][Next]_vars

\* The thread is scheduled and no wait lasts longer than its time-out.
\* Nothing is asked of the receivers.
FairSpec == Spec /\ WF_vars(ClientStep)

-----------------------------------------------------------------------------
(***************************************************************************)
(* Properties                                                              *)
(***************************************************************************)
TypeOK ==
  /\ call \in 0 .. MaxCalls
  /\ pc \in {"idle", "resolve", "connect", "send", "recv"}
  /\ addresses \in 0 .. MaxAddresses
  /\ open \in Nat
  /\ received \in 0 .. 2 * MaxResponse
  /\ unread \in 0 .. MaxResponse
  /\ peer \in [Calls -> {"none", "up", "closed", "reset"}]
  /\ sent \in [Calls -> 0 .. RequestSize]
  /\ arrived \in [Calls -> 0 .. RequestSize]
  /\ \A c \in Calls : arrived[c] <= sent[c]
  /\ status \in [Calls -> Statuses \cup {NoStatus}]
  /\ delivered \in [Calls -> 0 .. 1]
  /\ outcome \in [Calls -> {"none", "posting", "ok", "failed"}]

\* However a call ends, it leaves no descriptor behind, and it never holds
\* more than one: a sender that retries for days does not run out of them.
NoDescriptorLeft == open = IF pc \in {"send", "recv"} THEN 1 ELSE 0

\* Each call delivers at most once although it may try several addresses, "ok"
\* means delivered and acknowledged, and every call returns, also from a server
\* that sends without end.
Promise == INSTANCE HttpPost
  WITH Calls <- Calls, outcome <- outcome, delivered <- delivered
KeepsPromise == Promise!Spec
=============================================================================
