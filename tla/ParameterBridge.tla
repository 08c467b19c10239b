-------------------------- MODULE ParameterBridge --------------------------
(***************************************************************************)
(* parameter_bridge_node.cpp in front of the vehicle detector: an HTTP     *)
(* server whose handlers, each on a thread of the server's pool, call the  *)
(* parameter services of the detector and wait for each answer no longer   *)
(* than service_timeout_ms.  The detector serves calls one at a time,      *)
(* between two frames; those that nobody waits for any more as well.       *)
(*                                                                         *)
(* A request is one POST /api/parameters or one GET.  JSON values are      *)
(* those of ParameterJson, in whose unit the detector's doubles are        *)
(* counted.                                                                *)
(***************************************************************************)
EXTENDS VehicleDetector, ParameterJson, SequencesExt

CONSTANTS
  MaxRequests,   \* bound: the HTTP requests that arrive
  Bodies,        \* the updates a POST may carry: some names and JSON values
  Undeclared,    \* names the detector has not declared
  NameOrder      \* all names, in the order of the keys of a JSON object

\* Numbered as they arrive.
Requests == 1 .. MaxRequests

AllNames == ParameterNames \cup Undeclared

\* The types in the detector's descriptors.
Type(name) ==
  IF name = "target_frame_id" THEN "string"
  ELSE IF name \in SizeNames THEN "integer" ELSE "double"

\* A request is a GET, or a POST of updates for the detector, for a node that
\* is not in target_nodes, or of something else.
Contents ==
  {[kind |-> "updates", values |-> b] : b \in Bodies}
  \cup {[kind |-> k, values |-> <<>>] : k \in {"get", "malformed", "other_node"}}

NoBody == [kind |-> "none", values |-> <<>>]

ASSUME BridgeAssumption ==
  /\ MaxRequests \in Nat
  /\ One \in Nat \ {0} /\ Int64Max \in Nat
  /\ Undeclared \cap ParameterNames = {}
  /\ NameOrder \in Seq(AllNames) /\ IsInjective(NameOrder)
  /\ \A n \in AllNames : \E i \in DOMAIN NameOrder : NameOrder[i] = n
  /\ \A b \in Bodies : \A n \in DOMAIN b :
       /\ n \in AllNames
       /\ IsNumber(b[n]) => Content(b[n]) \in Int
       /\ (n \in ParameterNames /\ Convertible(b[n], Type(n))) =>
            Converted(b[n], Type(n)) \in ValuesOf(n)

VARIABLES
  main,     \* main(): "spin", "stop", "join" or "exited"
  server,   \* "starting", "listening", "draining" or "ended"
  phase,    \* where each request's handler is
  body,     \* what each request carries
  future,   \* the future each handler waits for: "none", "pending", "ready"
  reply,    \* what is in a future that is ready
  to_set,   \* to_set_names, of each handler
  answer,   \* the HTTP answer of each request
  calls,    \* the calls on the way to the detector's services
  call,     \* the call the detector is serving
  applied   \* history: the <<name, value>> the detector set for each request

handlerVars == <<phase, body, future, reply, to_set, answer>>
bridgeVars == <<main, server, handlerVars>>
serviceVars == <<calls, call, applied>>
vars == <<detectorVars, bridgeVars, serviceVars>>

NoAnswer == [status |-> 0, updated |-> {}, rejected |-> {}, during |-> ""]
Answer(status, updated, rejected, during) ==
  [status |-> status, updated |-> updated, rejected |-> rejected,
   during |-> during]

NoCall == [req |-> 0, kind |-> "none", todo |-> <<>>, done |-> <<>>]

\* Some names as a sequence, in the order of NameOrder.
InOrder ==
  [names \in SUBSET AllNames |->
     LET at == {i \in DOMAIN NameOrder : NameOrder[i] \in names}
         Nth(k) == CHOOSE i \in at : Cardinality({j \in at : j <= i}) = k
     IN  [k \in 1 .. Cardinality(at) |-> NameOrder[Nth(k)]]]

-----------------------------------------------------------------------------
(***************************************************************************)
(* What handlers are made of                                               *)
(***************************************************************************)

IsGet(r) == body[r].kind = "get"

\* rclcpp is up: the executor takes answers to their futures.
Spinning == main = "spin"

\* The keys of the JSON object, in its order.
Names(r) == InOrder[DOMAIN body[r].values]

Assignment(r, name) ==
  <<name, Converted(body[r].values[name], Type(name))>>

Assignments(r, names) == [i \in DOMAIN names |-> Assignment(r, names[i])]

\* A call of a service; that of set_parameters carries the new values.
Send(r, kind, names, where) ==
  /\ calls' = Append(calls, [req |-> r, kind |-> kind, done |-> <<>>,
                             todo |-> Assignments(r, names)])
  /\ to_set' = [to_set EXCEPT ![r] = names]
  /\ future' = [future EXCEPT ![r] = "pending"]
  /\ phase' = [phase EXCEPT ![r] = where]
  /\ UNCHANGED <<reply, answer>>

\* Slip: an answer that comes after the handler has returned finds its future.
RespondKeepsFuture(r, status, updated, rejected, during) ==
  /\ phase' = [phase EXCEPT ![r] = "answered"]
  /\ answer' = [answer EXCEPT ![r] = Answer(status, updated, rejected, during)]
  /\ reply' = [reply EXCEPT ![r] = <<>>]
  /\ to_set' = [to_set EXCEPT ![r] = <<>>]
  /\ UNCHANGED <<future, calls>>

\* The handler returns; its locals and a future still pending go with it.
Respond(r, status, updated, rejected, during) ==
  /\ phase' = [phase EXCEPT ![r] = "answered"]
  /\ answer' = [answer EXCEPT ![r] = Answer(status, updated, rejected, during)]
  /\ future' = [future EXCEPT ![r] = "none"]
  /\ reply' = [reply EXCEPT ![r] = <<>>]
  /\ to_set' = [to_set EXCEPT ![r] = <<>>]
  /\ UNCHANGED calls

RespondError(r, status, during) == Respond(r, status, {}, {}, during)

\* snapshot_node: "available" is false or true, with the values if true.
Unavailable(r) == Respond(r, 200, {}, {}, "unavailable")

othersVars == <<detectorVars, main, server, call, applied>>

-----------------------------------------------------------------------------
(***************************************************************************)
(* Handlers                                                                *)
(***************************************************************************)

\* The server hands a request to a thread of its pool; a POST is parsed and
\* its node looked up.
Arrive(r) ==
  /\ server = "listening"
  /\ phase[r] = "new"
  /\ \A q \in 1 .. r - 1 : phase[q] # "new"
  /\ \E b \in Contents :
       /\ body' = [body EXCEPT ![r] = b]
       /\ CASE b.kind = "malformed"  -> RespondError(r, 400, "parse")
            [] b.kind = "other_node" -> RespondError(r, 503, "lookup")
            [] OTHER -> /\ phase' = [phase EXCEPT ![r] = "wait_service"]
                        /\ UNCHANGED <<future, reply, to_set, answer, calls>>
  /\ UNCHANGED othersVars

ServiceReady(r) ==
  /\ phase[r] = "wait_service"
  /\ node # "down"
  /\ IF IsGet(r) THEN Send(r, "list", <<>>, "list")
     ELSE IF Names(r) = <<>> THEN RespondError(r, 400, "names")
     ELSE Send(r, "describe", <<>>, "describe")
  /\ UNCHANGED <<body, othersVars>>

ServiceMissing(r) ==
  /\ phase[r] = "wait_service"
  /\ node = "down" \/ ~Spinning
  /\ IF IsGet(r) THEN Unavailable(r) ELSE RespondError(r, 503, "wait_service")
  /\ UNCHANGED <<body, othersVars>>

\* A context that is shut down makes wait_for_service or the call throw.
CallThrows(r) ==
  /\ ~Spinning
  /\ phase[r] = "wait_service"
  /\ \/ RespondError(r, 500, "wait_service")
     \/ IF IsGet(r) THEN Unavailable(r) ELSE RespondError(r, 502, "describe")
  /\ UNCHANGED <<body, othersVars>>

\* Slip: what follows the 504 is carried out all the same.
DescribeTimeoutGoesOn(r) ==
  /\ phase[r] = "describe" /\ future[r] = "pending"
  /\ phase' = [phase EXCEPT ![r] = "answered"]
  /\ answer' = [answer EXCEPT ![r] = Answer(504, {}, {}, "describe")]
  /\ calls' = Append(calls, [req |-> r, kind |-> "set", done |-> <<>>,
                             todo |-> <<<<Names(r)[1], Dumped>>>>])
  /\ future' = [future EXCEPT ![r] = "none"]
  /\ UNCHANGED <<reply, to_set, body, othersVars>>

DescribeTimesOut(r) ==
  /\ phase[r] = "describe" /\ future[r] = "pending"
  /\ RespondError(r, 504, "describe")
  /\ UNCHANGED <<body, othersVars>>

\* The keys with a descriptor of a type: the descriptors may be fewer.
DeclaredKeys(r) ==
  {Names(r)[i] : i \in {j \in DOMAIN Names(r) \cap DOMAIN reply[r] :
                          reply[r][j] # "not_set"}}

SettableKeys(r) ==
  InOrder[{n \in DeclaredKeys(r) : Convertible(body[r].values[n], Type(n))}]

Described(r) ==
  /\ phase[r] = "describe" /\ future[r] = "ready"
  /\ IF SettableKeys(r) = <<>>
     THEN Respond(r, 200, {}, DOMAIN body[r].values, "set")
     ELSE \/ Send(r, "set", SettableKeys(r), "set")
          \/ ~Spinning /\ RespondError(r, 502, "call")
  /\ UNCHANGED <<body, othersVars>>

\* Slip: the handler waits for the result without a limit.
SetWaitsForever(r) == FALSE /\ RespondError(r, 504, "set")
                            /\ UNCHANGED <<body, othersVars>>

\* The detector may still set the parameters after this.
SetTimesOut(r) ==
  /\ phase[r] = "set" /\ future[r] = "pending"
  /\ RespondError(r, 504, "set")
  /\ UNCHANGED <<body, othersVars>>

\* Slip: the results are matched with the keys of the request.
ResultsByKey(r, ok) ==
  {Names(r)[i] : i \in {j \in DOMAIN reply[r] : reply[r][j] = ok}}

\* The names whose result is ok: results come in the order of to_set.
Results(r, ok) ==
  {to_set[r][i] : i \in {j \in DOMAIN reply[r] : reply[r][j] = ok}}

WasSet(r) ==
  /\ phase[r] = "set" /\ future[r] = "ready"
  /\ Respond(r, 200, Results(r, TRUE),
             (DOMAIN body[r].values \ ToSet(to_set[r])) \cup Results(r, FALSE),
             "set")
  /\ UNCHANGED <<body, othersVars>>

\* GET: the names, their values and their descriptors, all left out.
Listed(r) ==
  /\ phase[r] = "list" /\ future[r] = "ready"
  /\ \/ Send(r, "get", <<>>, "get")
     \/ ~Spinning /\ Unavailable(r)
  /\ UNCHANGED <<body, othersVars>>

Got(r) ==
  /\ phase[r] = "get" /\ future[r] = "ready"
  /\ \/ Send(r, "describe", <<>>, "describe_get")
     \/ ~Spinning /\ Unavailable(r)
  /\ UNCHANGED <<body, othersVars>>

GetTimesOut(r) ==
  /\ phase[r] \in {"list", "get"} /\ future[r] = "pending"
  /\ Unavailable(r)
  /\ UNCHANGED <<body, othersVars>>

\* With the descriptors, or without them after the timeout.
GotAll(r) ==
  /\ phase[r] = "describe_get"
  /\ Respond(r, 200, {}, {}, "available")
  /\ UNCHANGED <<body, othersVars>>

HandlerStep(r) ==
  \/ ServiceReady(r) \/ ServiceMissing(r) \/ CallThrows(r)
  \/ DescribeTimesOut(r) \/ Described(r) \/ SetTimesOut(r) \/ WasSet(r)
  \/ Listed(r) \/ Got(r) \/ GetTimesOut(r) \/ GotAll(r)

-----------------------------------------------------------------------------
(***************************************************************************)
(* The parameter services of the detector (rclcpp)                         *)
(***************************************************************************)

\* Calls of one service are taken in the order they came.
TakeCall ==
  /\ node = "idle"
  /\ \E i \in DOMAIN calls :
       /\ \A j \in 1 .. i - 1 : calls[j].kind # calls[i].kind
       /\ call' = calls[i]
       /\ calls' = RemoveAt(calls, i)
  /\ node' = "serving"
  /\ UNCHANGED <<settingVars, frameVars, bridgeVars, applied>>

\* set_parameters sets one parameter after the other, each by itself.
ServeSet ==
  /\ node = "serving"
  /\ call.kind = "set" /\ call.todo # <<>>
  /\ LET name == Head(call.todo)[1]
         value == Head(call.todo)[2]
         ok == Accepts(Candidate(name, value))
     IN  /\ SetParameter(name, value)
         /\ call' = [call EXCEPT !.todo = Tail(@), !.done = Append(@, ok)]
         /\ applied' = [applied EXCEPT ![call.req] =
                          IF ok THEN @ \cup {<<name, value>>} ELSE @]
  /\ UNCHANGED <<node, frameVars, bridgeVars, calls>>

\* One name that is not declared makes the whole answer empty.
Descriptors(r) ==
  IF DOMAIN body[r].values \cap Undeclared # {}
  THEN <<>>
  ELSE [i \in DOMAIN Names(r) |-> Type(Names(r)[i])]

ServiceReply ==
  CASE call.kind = "set"             -> call.done
    [] call.kind = "describe"        -> Descriptors(call.req)
    [] call.kind \in {"list", "get"} -> <<>>

\* The answer finds its future unless nobody waits for it any more.
FinishCall ==
  /\ node = "serving"
  /\ call.todo = <<>>
  /\ node' = "idle"
  /\ IF Spinning /\ future[call.req] = "pending"
     THEN /\ future' = [future EXCEPT ![call.req] = "ready"]
          /\ reply' = [reply EXCEPT ![call.req] = ServiceReply]
     ELSE UNCHANGED <<future, reply>>
  /\ call' = NoCall
  /\ UNCHANGED <<settingVars, frameVars, main, server, phase, body, to_set,
                 answer, calls, applied>>

ServiceStep == TakeCall \/ ServeSet \/ FinishCall

\* The frames of the detector change nothing here: one at work delays a call,
\* as TakeCall that is enabled and not taken does.  The calls end with the
\* process that should serve them.
DetectorStep ==
  \/ /\ SetByOther \/ StartDetector
     /\ UNCHANGED <<bridgeVars, serviceVars>>
  \/ /\ StopDetector
     /\ calls' = <<>> /\ call' = NoCall
     /\ UNCHANGED <<bridgeVars, applied>>

-----------------------------------------------------------------------------
(***************************************************************************)
(* The server thread and main()                                            *)
(***************************************************************************)
exceptMain == <<detectorVars, serviceVars, handlerVars>>

\* server_.listen: it binds and is running, or fails and returns.
Listen ==
  /\ server = "starting"
  /\ server' \in {"listening", "ended"}
  /\ UNCHANGED <<main, exceptMain>>

\* A stopped server returns from listen when its handlers have returned.
Drain ==
  /\ server = "draining"
  /\ \A r \in Requests : phase[r] \in {"new", "answered"}
  /\ server' = "ended"
  /\ UNCHANGED <<main, exceptMain>>

SpinReturns ==
  /\ main = "spin"
  /\ main' = "stop"
  /\ UNCHANGED <<server, exceptMain>>

\* Slip: the server is not told to stop.
JoinWithoutStop ==
  /\ main = "stop"
  /\ main' = "join"
  /\ UNCHANGED <<server, exceptMain>>

\* stop_server: only a server that is running is stopped.
StopServer ==
  /\ main = "stop"
  /\ main' = "join"
  /\ server' = IF server = "listening" THEN "draining" ELSE server
  /\ UNCHANGED exceptMain

JoinServer ==
  /\ main = "join"
  /\ server = "ended"
  /\ main' = "exited"
  /\ UNCHANGED <<server, exceptMain>>

ServerStep == Listen \/ Drain \/ StopServer \/ JoinServer

-----------------------------------------------------------------------------
Init ==
  /\ DetectorInit
  /\ main = "spin" /\ server = "starting"
  /\ phase = [r \in Requests |-> "new"]
  /\ body = [r \in Requests |-> NoBody]
  /\ future = [r \in Requests |-> "none"]
  /\ reply = [r \in Requests |-> <<>>]
  /\ to_set = [r \in Requests |-> <<>>]
  /\ answer = [r \in Requests |-> NoAnswer]
  /\ calls = <<>>
  /\ call = NoCall
  /\ applied = [r \in Requests |-> {}]

Next ==
  \/ \E r \in Requests : Arrive(r) \/ HandlerStep(r)
  \/ ServiceStep
  \/ DetectorStep
  \/ ServerStep \/ SpinReturns

Spec == Init /\ [][Next]_vars

\* The threads of the bridge are scheduled, and waits end with their timeouts.
\* Nothing is asked of the detector.
FairSpec ==
  /\ Spec
  /\ WF_vars(ServerStep)
  /\ \A r \in Requests : WF_vars(HandlerStep(r))

-----------------------------------------------------------------------------
(***************************************************************************)
(* Properties                                                              *)
(***************************************************************************)
Waiting == {"list", "get", "describe", "describe_get", "set"}

\* What the detector may be asked to set.
Settings == UNION {{n} \X ValuesOf(n) : n \in ParameterNames}

Calls ==
  [req : Requests, kind : {"list", "get", "describe", "set"},
   todo : Seq(Settings), done : Seq(BOOLEAN)]

Answers ==
  [status : {0, 200, 400, 500, 502, 503, 504}, updated : SUBSET AllNames,
   rejected : SUBSET AllNames,
   during : {"", "unavailable", "parse", "lookup", "names", "wait_service",
             "describe", "call", "set", "available"}]

TypeOK ==
  /\ DetectorTypeOK
  /\ main \in {"spin", "stop", "join", "exited"}
  /\ server \in {"starting", "listening", "draining", "ended"}
  /\ phase \in [Requests -> {"new", "wait_service", "answered"} \cup Waiting]
  /\ body \in [Requests -> Contents \cup {NoBody}]
  /\ future \in [Requests -> {"none", "pending", "ready"}]
  /\ \A r \in Requests : future[r] # "none" => phase[r] \in Waiting
  /\ DOMAIN reply = Requests
  /\ to_set \in [Requests -> Seq(ParameterNames)]
  /\ answer \in [Requests -> Answers]
  /\ calls \in Seq(Calls)
  /\ call \in Calls \cup {NoCall}
  /\ node = "serving" <=> call # NoCall
  /\ applied \in [Requests -> SUBSET Settings]

\* A POST that is answered 200 tells the truth about the detector, name by
\* name: "updated" are the parameters it set for this request, to the very
\* numbers and texts that were asked for, and "rejected" are all the others,
\* although some names never reach the detector and the results come without
\* names (6.4).
AsAsked(raw, value, type) ==
  CASE type = "double"  -> value = ToDouble(raw)
    [] type = "integer" -> value * One = ToDouble(raw)
    [] type = "string"  -> IsString(raw) => value = Content(raw)

AnswersTruthful ==
  \A r \in Requests :
    (answer[r].status = 200 /\ ~IsGet(r)) =>
      LET set == {a[1] : a \in applied[r]}
      IN  /\ answer[r].updated = set
          /\ answer[r].rejected = DOMAIN body[r].values \ set
          /\ \A a \in applied[r] : AsAsked(body[r].values[a[1]], a[2], Type(a[1]))

\* Any other answer, but for the timeout of set_parameters, means that nothing
\* was set and that nothing will be.
ErrorsSetNothing ==
  \A r \in Requests :
    (/\ answer[r].status \notin {0, 200}
     /\ ~(answer[r].status = 504 /\ answer[r].during = "set")) =>
       /\ applied[r] = {}
       /\ \A c \in {call} \cup ToSet(calls) : ~(c.req = r /\ c.kind = "set")

\* Every request is answered, whatever the detector does and although the
\* bridge may be shut down in the meantime.
EveryRequestAnswered ==
  \A r \in Requests : phase[r] # "new" ~> phase[r] = "answered"

\* The bridge ends once it is asked to, with requests in hand or without, if
\* its server had begun to listen or has failed to by then.  A stop that comes
\* earlier is lost when the server listens after all (stop_server asks
\* is_running): the bridge then waits for it in join, and at no other point.
StopCompletes ==
  /\ (main = "stop" /\ server # "starting") ~> main = "exited"
  /\ main = "stop" ~> \/ main = "exited"
                      \/ main = "join" /\ server = "listening"
=============================================================================
