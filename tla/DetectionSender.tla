-------------------------- MODULE DetectionSender --------------------------
(***************************************************************************)
(* detection_sender_node.cpp: the node that forwards detections to a ROS   *)
(* topic, to an HTTP receiver and to a JSON Lines file.                    *)
(*                                                                         *)
(* Two threads.  The main thread spins a single-threaded executor, so a    *)
(* subscription callback and a parameter callback never overlap; only the  *)
(* points where it meets the worker are steps of their own: the enqueue    *)
(* under queue_mutex_, the notify after the lock is gone, and the stages   *)
(* of the destructor.  The worker thread takes payloads off queue_, copies *)
(* snapshot_ and posts with retries; each of its critical sections and     *)
(* each POST is a step.                                                    *)
(*                                                                         *)
(* A frame stands for the message received and for the JSON body made of   *)
(* it.  The writer is the one of DetectionResultWriter, called by the main *)
(* thread only.                                                            *)
(***************************************************************************)
EXTENDS DetectionResultWriter, Integers, FiniteSets

CONSTANTS
  Modes,            \* the send_mode texts a caller may set, known or not
  Urls,             \* the http_endpoint_url texts
  Targets,          \* the host, port and path parse_http_url can produce
  ParsedUrl,        \* parse_http_url: [Urls -> Targets \cup {Unparsable}]
  Unparsable,
  NoTarget,         \* an HttpUrl that was never written
  NoSnapshot,       \* the worker's copy of the settings, out of scope
  RetryCounts,      \* the values of http_retry_count, any int64
  Timeouts,         \* the values of http_timeout_ms
  AuthTypes,        \* the texts of http_auth_type
  Formats,          \* the texts of result_output_format
  InitialSettings,  \* the parameter files the node may be started with
  Updates,          \* the sets of parameters one call may set together
  kMaxQueueSize,
  Int64Max          \* the largest int64; small, so that it is reached

Settings ==
  [send_mode : Modes, http_endpoint_url : Urls, http_timeout_ms : Timeouts,
   http_retry_count : RetryCounts, http_auth_type : AuthTypes,
   save_results : BOOLEAN, result_output_path : Paths \cup {EmptyPath},
   result_output_format : Formats]

ParameterNames ==
  {"send_mode", "http_endpoint_url", "http_timeout_ms", "http_retry_count",
   "http_auth_type", "save_results", "result_output_path",
   "result_output_format"}

\* An update maps some parameters to values of their declared types (rclcpp
\* rejects any other type before the node's callback runs).
IsUpdate(u) ==
  /\ DOMAIN u \subseteq ParameterNames
  /\ \E s \in Settings : \A name \in DOMAIN u : u[name] = s[name]

ASSUME SenderAssumption ==
  /\ kMaxQueueSize \in Nat \ {0}
  /\ Int64Max \in Nat
  /\ RetryCounts \subseteq {r \in Int : r <= Int64Max}
  /\ Timeouts \subseteq Int
  /\ ParsedUrl \in [Urls -> Targets \cup {Unparsable}]
  /\ Unparsable \notin Targets
  /\ InitialSettings \subseteq Settings
  /\ \A u \in Updates : IsUpdate(u)

VARIABLES
  snapshot,   \* snapshot_
  queue,      \* queue_: the frames whose bodies wait for the worker
  stop_flag,  \* stop_flag_
  main,       \* where the main thread is
  worker,     \* where the worker thread is, "none" before it is started
  body,       \* the worker's local body: a frame, 0 between two iterations
  snap,       \* the worker's local copy of snapshot_ while it posts
  total,      \* the worker's local total_attempts
  tried,      \* the number of POSTs made for each frame
  fate,       \* history: what became of each frame's body
  relayed     \* history: the frames published on detections_topic

httpVars == <<queue, body, snap, total, tried, fate>>
workerVars == <<worker, body, snap, total, tried>>
vars == <<writerVars, arrived, snapshot, queue, stop_flag, main, worker, body,
          snap, total, tried, fate, relayed>>

\* "spin": between two callbacks; "notify_one": in enqueue_http after the
\* lock; then the destructor: before, between its lock and notify_all, in
\* join, and past it.
MainStates == {"spin", "notify_one", "destroy", "notify_all", "join", "exited"}

\* "check": at the head of the loop, about to lock and test the predicate;
\* "waiting": blocked in queue_cv_.wait; "popped": has a body, no snapshot;
\* "posting": in the attempts loop; "done": returned.
WorkerStates == {"none", "check", "waiting", "popped", "posting", "done"}

\* "new": not received; "local": never enqueued.  The last five are final.
Fates == {"new", "local", "queued", "working",
          "ok", "failed", "skipped", "dropped", "cleared"}
FinalFates == {"ok", "failed", "skipped", "dropped", "cleared"}

Running == main \in {"spin", "notify_one"}

-----------------------------------------------------------------------------
(***************************************************************************)
(* Snapshots and their validation                                          *)
(***************************************************************************)
Snapshots ==
  [send_mode : Modes, http_endpoint_url : Urls,
   http_url : Targets \cup {NoTarget}, http_url_valid : BOOLEAN,
   http_timeout_ms : Timeouts, http_retry_count : RetryCounts,
   http_auth_type : AuthTypes, save_results : BOOLEAN,
   result_output_path : Paths \cup {EmptyPath},
   result_output_format : Formats]

SendModeUsesTopic(mode) == mode \in {"ros_topic", "both"}
SendModeUsesHttp(mode) == mode \in {"http", "both"}
KnownSendModes == {"disabled", "ros_topic", "http", "both"}

Parses(url) == ParsedUrl[url] # Unparsable

BuildSnapshot(s) ==
  [send_mode |-> s.send_mode,
   http_endpoint_url |-> s.http_endpoint_url,
   http_url |-> IF Parses(s.http_endpoint_url)
                THEN ParsedUrl[s.http_endpoint_url] ELSE NoTarget,
   http_url_valid |-> Parses(s.http_endpoint_url),
   http_timeout_ms |-> s.http_timeout_ms,
   http_retry_count |-> s.http_retry_count,
   http_auth_type |-> s.http_auth_type,
   save_results |-> s.save_results,
   result_output_path |-> s.result_output_path,
   result_output_format |-> s.result_output_format]

\* The tests of enforce_initial_parameters and of on_parameter_change.
Accepts(c) ==
  /\ c.send_mode \in KnownSendModes
  /\ c.http_timeout_ms >= 1
  /\ c.http_retry_count >= 0
  /\ SendModeUsesHttp(c.send_mode) => c.http_url_valid
  /\ c.result_output_format = "jsonl"

\* The value of a parameter in an update, or the one it had.
Updated(u, name, old) == IF name \in DOMAIN u THEN u[name] ELSE old

\* Slip: the parsed URL is filled in once, at start-up.
ParsedOnce(c, url) ==
  [http_url |-> c.http_url, http_url_valid |-> Parses(url)]

\* parse_http_url(url, &candidate.http_url): a URL it refuses leaves the
\* target of the previous one behind.
Reparsed(c, url) ==
  [http_url |-> IF Parses(url) THEN ParsedUrl[url] ELSE c.http_url,
   http_url_valid |-> Parses(url)]

Candidate(c, u) ==
  LET url == IF "http_endpoint_url" \in DOMAIN u
             THEN Reparsed(c, u["http_endpoint_url"])
             ELSE [http_url |-> c.http_url, http_url_valid |-> c.http_url_valid]
  IN  [send_mode |-> Updated(u, "send_mode", c.send_mode),
       http_endpoint_url |->
         Updated(u, "http_endpoint_url", c.http_endpoint_url),
       http_url |-> url.http_url,
       http_url_valid |-> url.http_url_valid,
       http_timeout_ms |-> Updated(u, "http_timeout_ms", c.http_timeout_ms),
       http_retry_count |-> Updated(u, "http_retry_count", c.http_retry_count),
       http_auth_type |-> Updated(u, "http_auth_type", c.http_auth_type),
       save_results |-> Updated(u, "save_results", c.save_results),
       result_output_path |->
         Updated(u, "result_output_path", c.result_output_path),
       result_output_format |->
         Updated(u, "result_output_format", c.result_output_format)]

\* Slip: a new path alone does not reconfigure the writer.
PathChangeIgnored(u) == "save_results" \in DOMAIN u

WriterInputsChanged(u) ==
  DOMAIN u \cap {"save_results", "result_output_path", "result_output_format"}
    # {}

-----------------------------------------------------------------------------
(***************************************************************************)
(* The main thread: subscription callback                                  *)
(***************************************************************************)
SetFate(f, what) == fate' = [fate EXCEPT ![f] = what]

\* Slip: one place of the queue is never used.
FullOneEarlier == Len(queue) + 1 >= kMaxQueueSize /\ queue # <<>>

QueueFull == Len(queue) >= kMaxQueueSize

EnqueuedFate(f, dropped) ==
  fate' = [g \in Frames |-> IF g = f THEN "queued"
                            ELSE IF g \in dropped THEN "dropped"
                            ELSE fate[g]]

\* Slip: pop_back instead of pop_front.
EnqueueDropsLatest(f) ==
  LET last == Len(queue)
  IN  /\ queue' = Append(IF QueueFull THEN SubSeq(queue, 1, last - 1)
                                      ELSE queue, f)
      /\ EnqueuedFate(f, IF QueueFull THEN {queue[last]} ELSE {})

\* The critical section of enqueue_http: a full queue loses its oldest.
Enqueue(f) ==
  /\ queue' = Append(IF QueueFull THEN Tail(queue) ELSE queue, f)
  /\ EnqueuedFate(f, IF QueueFull THEN {Head(queue)} ELSE {})

\* Slip: the body is pushed, but nobody is told.
EnqueueUnannounced(f) == Enqueue(f) /\ UNCHANGED main

EnqueueHttp(f) == Enqueue(f) /\ main' = "notify_one"

KeepLocal(f) == SetFate(f, "local") /\ UNCHANGED <<queue, main>>

\* Slip: the mode "disabled" ends the callback before it saves.
SaveUnlessDisabled(f) ==
  IF snapshot.save_results /\ snapshot.send_mode # "disabled"
  THEN AppendPayload(f) ELSE UNCHANGED writerVars

Save(f) ==
  IF snapshot.save_results THEN AppendPayload(f) ELSE UNCHANGED writerVars

Relay(f) ==
  relayed' = IF SendModeUsesTopic(snapshot.send_mode)
             THEN Append(relayed, f) ELSE relayed

OnDetections ==
  /\ main = "spin"
  /\ arrived < MaxFrames
  /\ arrived' = arrived + 1
  /\ Save(arrived')
  /\ Relay(arrived')
  /\ IF SendModeUsesHttp(snapshot.send_mode) THEN EnqueueHttp(arrived')
                                             ELSE KeepLocal(arrived')
  /\ UNCHANGED <<snapshot, stop_flag, workerVars>>

\* queue_cv_.notify_one(): wakes the worker if it is blocked in wait().
Wake == worker' = IF worker = "waiting" THEN "check" ELSE worker

NotifyOne ==
  /\ main = "notify_one"
  /\ main' = "spin"
  /\ Wake
  /\ UNCHANGED <<writerVars, arrived, snapshot, stop_flag, httpVars, relayed>>

-----------------------------------------------------------------------------
(***************************************************************************)
(* The main thread: parameter callback                                     *)
(***************************************************************************)
NeedsWorker(mode) == SendModeUsesHttp(mode) /\ worker = "none"

\* Slip: the worker is started by the constructor or never.
StartedOnlyAtStartup(mode) == UNCHANGED <<worker, main>>

\* worker_.joinable() holds from the start of the thread until join().
EnsureHttpWorkerStarted(mode) ==
  /\ worker' = IF NeedsWorker(mode) THEN "check" ELSE worker
  /\ UNCHANGED main

\* std::thread throws when the system has no thread to give: the exception
\* leaves the callback and spin(), and main() destroys the node.
HttpWorkerStartFails(mode) ==
  /\ NeedsWorker(mode)
  /\ main' = "destroy"
  /\ UNCHANGED worker

ApplyWriterConfig(c) == Configure(c.save_results, c.result_output_path)

\* A call whose values do not pass Accepts is answered with an error and
\* changes nothing.
OnParameterChange(u) ==
  LET candidate == Candidate(snapshot, u)
  IN  /\ main = "spin"
      /\ Accepts(candidate)
      /\ snapshot' = candidate
      /\ \/ /\ EnsureHttpWorkerStarted(candidate.send_mode)
            /\ IF WriterInputsChanged(u) THEN ApplyWriterConfig(candidate)
                                         ELSE UNCHANGED writerVars
         \/ /\ HttpWorkerStartFails(candidate.send_mode)
            /\ UNCHANGED writerVars
      /\ UNCHANGED <<arrived, stop_flag, httpVars, relayed>>

-----------------------------------------------------------------------------
(***************************************************************************)
(* The main thread: the end of spin() and the destructor                   *)
(***************************************************************************)
Shutdown ==
  /\ main = "spin"
  /\ main' = "destroy"
  /\ UNCHANGED <<writerVars, arrived, snapshot, stop_flag, worker, httpVars,
                 relayed>>

SetStopFlag ==
  /\ main = "destroy"
  /\ main' = "notify_all"
  /\ stop_flag' = TRUE
  /\ UNCHANGED <<writerVars, arrived, snapshot, worker, httpVars, relayed>>

\* Slip: the flag is set, but the notification is forgotten.
NotifyAllForgotten ==
  /\ main = "notify_all"
  /\ main' = "join"
  /\ UNCHANGED <<writerVars, arrived, snapshot, stop_flag, worker, httpVars,
                 relayed>>

NotifyAll ==
  /\ main = "notify_all"
  /\ main' = "join"
  /\ Wake
  /\ UNCHANGED <<writerVars, arrived, snapshot, stop_flag, httpVars, relayed>>

\* Slip: the thread is not waited for.
DestroyWithoutJoin ==
  /\ main = "join"
  /\ main' = "exited"
  /\ UNCHANGED <<writerVars, arrived, snapshot, stop_flag, worker, httpVars,
                 relayed>>

Join ==
  /\ main = "join"
  /\ worker \in {"none", "done"}
  /\ main' = "exited"
  /\ UNCHANGED <<writerVars, arrived, snapshot, stop_flag, worker, httpVars,
                 relayed>>

-----------------------------------------------------------------------------
(***************************************************************************)
(* The worker thread                                                       *)
(***************************************************************************)
mainOnlyVars == <<writerVars, arrived, snapshot, stop_flag, main, relayed>>

\* The locals of an iteration go out of scope.
EndIteration ==
  /\ worker' = "check"
  /\ body' = 0
  /\ total' = 0
  /\ snap' = NoSnapshot

WorkerExit ==
  /\ worker = "check"
  /\ stop_flag
  /\ worker' = "done"
  /\ queue' = <<>>
  /\ fate' = [f \in Frames |-> IF fate[f] = "queued" THEN "cleared"
                                                     ELSE fate[f]]
  /\ UNCHANGED <<body, snap, total, tried, mainOnlyVars>>

\* wait() releases the mutex and blocks in one step.
WorkerWait ==
  /\ worker = "check"
  /\ ~stop_flag /\ queue = <<>>
  /\ worker' = "waiting"
  /\ UNCHANGED <<httpVars, mainOnlyVars>>

SpuriousWakeup ==
  /\ worker = "waiting"
  /\ worker' = "check"
  /\ UNCHANGED <<httpVars, mainOnlyVars>>

\* Slip: the body is copied off the queue and stays in it.
FrontNotPopped ==
  /\ worker = "check"
  /\ ~stop_flag /\ queue # <<>>
  /\ worker' = "popped"
  /\ body' = Head(queue)
  /\ SetFate(Head(queue), "working")
  /\ UNCHANGED <<queue, snap, total, tried, mainOnlyVars>>

WorkerPop ==
  /\ worker = "check"
  /\ ~stop_flag /\ queue # <<>>
  /\ worker' = "popped"
  /\ body' = Head(queue)
  /\ queue' = Tail(queue)
  /\ SetFate(Head(queue), "working")
  /\ UNCHANGED <<snap, total, tried, mainOnlyVars>>

\* The worker posts only when the settings it has just copied say so.
PostsNow(c) == SendModeUsesHttp(c.send_mode) /\ c.http_url_valid

\* Slip: http_retry_count is taken for the number of attempts.
RetriesOnly(c) == {IF c.http_retry_count > 1 THEN c.http_retry_count ELSE 1}

\* max(1, http_retry_count + 1).  The sum of the largest int64 is undefined:
\* a build that wraps makes one attempt, one that does not wrap makes them all.
TotalAttempts(c) ==
  IF c.http_retry_count < Int64Max
  THEN {IF c.http_retry_count + 1 > 1 THEN c.http_retry_count + 1 ELSE 1}
  ELSE {1, c.http_retry_count + 1}

WorkerSkip ==
  /\ worker = "popped"
  /\ ~PostsNow(snapshot)
  /\ SetFate(body, "skipped")
  /\ EndIteration
  /\ UNCHANGED <<queue, tried, mainOnlyVars>>

WorkerCopySnapshot ==
  /\ worker = "popped"
  /\ PostsNow(snapshot)
  /\ worker' = "posting"
  /\ snap' = snapshot
  /\ total' \in TotalAttempts(snapshot)
  /\ UNCHANGED <<queue, body, tried, fate, mainOnlyVars>>

\* One http_post_json: it returns within its timeouts, with ok or without.
CountAttempt == tried' = [tried EXCEPT ![body] = @ + 1]

\* Slip: the loop goes on after a POST that succeeded.
PostOkWithoutBreak ==
  /\ worker = "posting"
  /\ tried[body] < total
  /\ CountAttempt
  /\ SetFate(body, "ok")
  /\ UNCHANGED <<queue, worker, body, snap, total, mainOnlyVars>>

PostOk ==
  /\ worker = "posting"
  /\ tried[body] < total
  /\ CountAttempt
  /\ SetFate(body, "ok")
  /\ EndIteration
  /\ UNCHANGED <<queue, mainOnlyVars>>

PostFails ==
  /\ worker = "posting"
  /\ tried[body] < total
  /\ CountAttempt
  /\ UNCHANGED <<queue, worker, body, snap, total, fate, mainOnlyVars>>

GiveUp ==
  /\ worker = "posting"
  /\ tried[body] >= total
  /\ SetFate(body, "failed")
  /\ EndIteration
  /\ UNCHANGED <<queue, tried, mainOnlyVars>>

-----------------------------------------------------------------------------
(***************************************************************************)
(* The specification.  A behaviour starts when the constructor is done:    *)
(* its parameters were accepted, the writer configured and, in a mode that *)
(* uses HTTP, the worker started.                                          *)
(***************************************************************************)
Init ==
  /\ \E s \in InitialSettings :
       LET c == BuildSnapshot(s)
       IN  /\ Accepts(c)
           /\ snapshot = c
           /\ \E r \in ConfigureOutcomes(c.save_results, c.result_output_path) :
                /\ enabled = r.enabled
                /\ out = r.out
                /\ last_error = r.last_error
           /\ worker = IF SendModeUsesHttp(c.send_mode) THEN "check" ELSE "none"
  /\ files = [p \in Paths |-> <<>>]
  /\ reported = [p \in Paths |-> {}]
  /\ arrived = 0
  /\ queue = <<>>
  /\ stop_flag = FALSE
  /\ main = "spin"
  /\ body = 0
  /\ snap = NoSnapshot
  /\ total = 0
  /\ tried = [f \in Frames |-> 0]
  /\ fate = [f \in Frames |-> "new"]
  /\ relayed = <<>>

\* Steps the main thread takes on its own, once begun.
MainStep == NotifyOne \/ SetStopFlag \/ NotifyAll \/ Join

WorkerStep ==
  \/ WorkerExit \/ WorkerWait \/ WorkerPop \/ WorkerSkip
  \/ WorkerCopySnapshot \/ PostOk \/ PostFails \/ GiveUp

\* Steps that wait for the world: a message, a caller, a signal, the kernel.
Environment ==
  \/ OnDetections
  \/ \E u \in Updates : OnParameterChange(u)
  \/ Shutdown
  \/ SpuriousWakeup

\* The process is gone.
Terminated == main = "exited" /\ UNCHANGED vars

Next == Environment \/ MainStep \/ WorkerStep \/ Terminated

Spec == Init /\ [][Next]_vars

\* Both threads are scheduled; http_post_json always returns, because connect,
\* send and receive all have timeouts.
FairSpec == Spec /\ WF_vars(MainStep) /\ WF_vars(WorkerStep)

-----------------------------------------------------------------------------
(***************************************************************************)
(* Properties                                                              *)
(***************************************************************************)
TypeOK ==
  /\ WriterTypeOK
  /\ snapshot \in Snapshots
  /\ queue \in Seq(Frames)
  /\ stop_flag \in BOOLEAN
  /\ main \in MainStates
  /\ worker \in WorkerStates
  /\ body \in 0 .. MaxFrames
  /\ snap \in Snapshots \cup {NoSnapshot}
  /\ total \in Int
  /\ tried \in [Frames -> Nat]
  /\ fate \in [Frames -> Fates]
  /\ relayed \in Seq(Frames)

\* The settings in force always pass the checks of start-up, whatever sequence
\* of updates led to them, and the parsed target is that of the URL text in
\* force, although a URL that is refused leaves an older target behind.  What
\* the worker posts from is such a copy too, of a mode that uses HTTP.
EndpointResolved(c) ==
  /\ c.http_url_valid <=> Parses(c.http_endpoint_url)
  /\ c.http_url_valid => c.http_url = ParsedUrl[c.http_endpoint_url]

SettingsConsistent ==
  /\ Accepts(snapshot) /\ EndpointResolved(snapshot)
  /\ worker = "posting" => PostsNow(snap) /\ EndpointResolved(snap)

\* The queue never holds more than kMaxQueueSize payloads (payload_schema.md,
\* limitations.md: "at most 32").
QueueBounded == Len(queue) <= kMaxQueueSize

\* Payloads wait in the order they came, and everything that left the queue,
\* posted, skipped or dropped, is older than everything still in it: a full
\* queue loses its oldest payload.
FifoOrder ==
  /\ \A i, j \in DOMAIN queue : i < j => queue[i] < queue[j]
  /\ \A f, g \in Frames :
       (fate[f] = "queued" /\ fate[g] \in FinalFates \cup {"working"}) => g < f

\* The history of each frame and the two threads' data agree: what waits is in
\* the queue, what is being worked on is the worker's body and nothing else,
\* and what was dropped, skipped, cleared or never taken was never posted.
FramesAccounted ==
  /\ \A f \in Frames :
       /\ fate[f] = "queued" <=> \E i \in DOMAIN queue : queue[i] = f
       /\ fate[f] = "working" <=> (f = body /\ worker \in {"popped", "posting"})
       /\ fate[f] = "new" <=> f > arrived
       /\ fate[f] \in Fates \ {"working", "ok", "failed"} => tried[f] = 0
       /\ fate[f] = "ok" => tried[f] >= 1

\* The worker never sleeps on work or on shutdown, except for the moment
\* between the main thread's change and its notification.
NoLostWakeup ==
  worker = "waiting" =>
    /\ queue = <<>> \/ main = "notify_one"
    /\ stop_flag => main = "notify_all"

\* Payloads are never left without a worker: it runs whenever the mode uses
\* HTTP (CHANGELOG: the switch from ros_topic must not leave the queue stuck)
\* and stays for what an earlier mode enqueued.  The destructor is left only
\* when it is gone: nothing it uses is destroyed under it.
WorkerCoversQueue ==
  /\ queue # <<>> => worker \notin {"none", "done"}
  /\ (Running /\ SendModeUsesHttp(snapshot.send_mode)) =>
       worker \notin {"none", "done"}
  /\ main = "exited" => worker \in {"none", "done"}

\* While the node runs, the file that is open is the one the settings name,
\* and saving that is on but does not work has left an error to report.
WriterMatchesSettings ==
  Running =>
    /\ enabled => snapshot.save_results /\ out = snapshot.result_output_path
    /\ (snapshot.save_results /\ ~enabled) => last_error # "none"

\* Saving is what the settings of the moment ask for, in every mode (FR-012,
\* "independent of send_mode"): a detection goes as a whole line to the end of
\* the file they name, or the writer is off and has an error to report; it goes
\* to no other file, and to none when saving is off.
SavedAsConfigured ==
  [][arrived' # arrived =>
       LET asked == IF snapshot.save_results
                    THEN Paths \cap {snapshot.result_output_path} ELSE {}
       IN  /\ \A p \in Paths \ asked : files'[p] = files[p]
           /\ snapshot.save_results =>
                \/ \E p \in asked : files'[p] = files[p] \o <<Line(arrived')>>
                \/ ~enabled' /\ last_error' # "none"]_vars

\* What was decided about a payload is not decided again, and no POST of it
\* follows: no duplicate of a payload the receiver has acknowledged.
SettledStaysSettled ==
  [][\A f \in Frames :
       fate[f] \in FinalFates => fate'[f] = fate[f] /\ tried'[f] = tried[f]]_vars

\* A payload is given up only after the first attempt and all the retries of
\* the settings the worker copied, and never posted more often than that.  The
\* sum is undefined for the largest int64, which the checks accept: there one
\* attempt may be all.
AllAttemptsMade(n, c) ==
  \/ n = c.http_retry_count + 1
  \/ n = 1 /\ c.http_retry_count = Int64Max

RetriesAsConfigured ==
  [][\A f \in Frames :
       /\ (fate[f] = "working" /\ fate'[f] = "failed") =>
            AllAttemptsMade(tried[f], snap)
       /\ tried'[f] # tried[f] => tried[f] <= snap.http_retry_count]_vars

\* Every payload that was enqueued is eventually posted, given up, skipped,
\* dropped or cleared, whatever the modes in between.
EveryPayloadSettles ==
  \A f \in Frames : fate[f] = "queued" ~> fate[f] \in FinalFates

\* Once the destructor runs, the process ends, whatever the receiver does.
ShutdownCompletes == main = "destroy" ~> main = "exited"

\* Two threads, a mutex, a condition variable and changing settings together
\* are a line of bounded length with one server: payloads are posted in the
\* order they came, the oldest is lost and only to a full queue, none is
\* posted after it was settled, none is taken after the stop.
Outcome(what) ==
  IF what \in {"new", "local"} THEN "outside"
  ELSE IF what = "queued" THEN "waiting"
  ELSE IF what = "working" THEN "in hand"
  ELSE what

Channel == INSTANCE DetectionChannel
  WITH Payloads <- Frames,
       Capacity <- kMaxQueueSize,
       Nobody <- 0,
       waiting <- queue,
       in_hand <- body,
       outcome <- [f \in Frames |-> Outcome(fate[f])],
       posts <- tried,
       open <- ~stop_flag

ImplementsChannel == Channel!Spec
=============================================================================
