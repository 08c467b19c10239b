----------------------- MODULE DetectionSenderProofs -----------------------
(***************************************************************************)
(* What holds of detection_sender_node for every set of modes, URLs,       *)
(* updates and paths, every queue size and every number of frames.         *)
(***************************************************************************)
EXTENDS DetectionSender, DetectionResultWriterProofs

(***************************************************************************)
(* Snapshots: what the constructor and the parameter callback build.       *)
(***************************************************************************)
LEMMA ParsesTyped ==
  ASSUME NEW url \in Urls
  PROVE  Parses(url) \in BOOLEAN /\ (Parses(url) => ParsedUrl[url] \in Targets)
BY SenderAssumption DEF Parses

\* The constructor's snapshot is a snapshot of resolved settings.
LEMMA BuildSnapshotTyped ==
  ASSUME NEW s \in Settings
  PROVE  /\ BuildSnapshot(s) \in Snapshots
         /\ EndpointResolved(BuildSnapshot(s))
BY ParsesTyped DEF BuildSnapshot, Settings, Snapshots, EndpointResolved

\* A parameter of an update has the type it was declared with.
LEMMA UpdatedTyped ==
  ASSUME NEW c \in Snapshots, NEW u \in Updates
  PROVE  /\ Updated(u, "send_mode", c.send_mode) \in Modes
         /\ Updated(u, "http_endpoint_url", c.http_endpoint_url) \in Urls
         /\ Updated(u, "http_timeout_ms", c.http_timeout_ms) \in Timeouts
         /\ Updated(u, "http_retry_count", c.http_retry_count) \in RetryCounts
         /\ Updated(u, "http_auth_type", c.http_auth_type) \in AuthTypes
         /\ Updated(u, "save_results", c.save_results) \in BOOLEAN
         /\ Updated(u, "result_output_path", c.result_output_path)
              \in Paths \cup {EmptyPath}
         /\ Updated(u, "result_output_format", c.result_output_format) \in Formats
<1>1. PICK s \in Settings : \A name \in DOMAIN u : u[name] = s[name]
  BY SenderAssumption DEF IsUpdate
<1>2. /\ s["send_mode"] \in Modes
      /\ s["http_endpoint_url"] \in Urls
      /\ s["http_timeout_ms"] \in Timeouts
      /\ s["http_retry_count"] \in RetryCounts
      /\ s["http_auth_type"] \in AuthTypes
      /\ s["save_results"] \in BOOLEAN
      /\ s["result_output_path"] \in Paths \cup {EmptyPath}
      /\ s["result_output_format"] \in Formats
  BY <1>1 DEF Settings
<1>3. /\ c.send_mode \in Modes
      /\ c.http_endpoint_url \in Urls
      /\ c.http_timeout_ms \in Timeouts
      /\ c.http_retry_count \in RetryCounts
      /\ c.http_auth_type \in AuthTypes
      /\ c.save_results \in BOOLEAN
      /\ c.result_output_path \in Paths \cup {EmptyPath}
      /\ c.result_output_format \in Formats
  BY DEF Snapshots
<1> QED BY <1>1, <1>2, <1>3 DEF Updated

\* An update of a resolved snapshot is a resolved snapshot, also after a URL
\* that does not parse.
LEMMA CandidateTyped ==
  ASSUME NEW c \in Snapshots, NEW u \in Updates, EndpointResolved(c)
  PROVE  /\ Candidate(c, u) \in Snapshots
         /\ EndpointResolved(Candidate(c, u))
<1> DEFINE url == IF "http_endpoint_url" \in DOMAIN u
                  THEN Reparsed(c, u["http_endpoint_url"])
                  ELSE [http_url |-> c.http_url,
                        http_url_valid |-> c.http_url_valid]
           text == Updated(u, "http_endpoint_url", c.http_endpoint_url)
<1>1. c.http_url \in Targets \cup {NoTarget} /\ c.http_url_valid \in BOOLEAN
  BY DEF Snapshots
<1>2. /\ url.http_url \in Targets \cup {NoTarget}
      /\ url.http_url_valid \in BOOLEAN
      /\ url.http_url_valid <=> Parses(text)
      /\ url.http_url_valid => url.http_url = ParsedUrl[text]
  <2>1. CASE "http_endpoint_url" \in DOMAIN u
    <3>1. text = u["http_endpoint_url"] /\ text \in Urls
      BY <2>1, UpdatedTyped DEF Updated
    <3>2. url = [http_url |-> IF Parses(text) THEN ParsedUrl[text]
                                              ELSE c.http_url,
                 http_url_valid |-> Parses(text)]
      BY <2>1, <3>1 DEF Reparsed
    <3> HIDE DEF url, text
    <3> QED BY <1>1, <3>1, <3>2, ParsesTyped
  <2>2. CASE "http_endpoint_url" \notin DOMAIN u
    <3>1. text = c.http_endpoint_url
      BY <2>2 DEF Updated
    <3>2. url = [http_url |-> c.http_url, http_url_valid |-> c.http_url_valid]
      BY <2>2
    <3> HIDE DEF url, text
    <3> QED BY <1>1, <3>1, <3>2 DEF EndpointResolved
  <2> QED BY <2>1, <2>2
<1> HIDE DEF url
<1> DEFINE d == Candidate(c, u)
<1>3. d = [send_mode |-> Updated(u, "send_mode", c.send_mode),
           http_endpoint_url |-> text,
           http_url |-> url.http_url,
           http_url_valid |-> url.http_url_valid,
           http_timeout_ms |-> Updated(u, "http_timeout_ms", c.http_timeout_ms),
           http_retry_count |->
             Updated(u, "http_retry_count", c.http_retry_count),
           http_auth_type |-> Updated(u, "http_auth_type", c.http_auth_type),
           save_results |-> Updated(u, "save_results", c.save_results),
           result_output_path |->
             Updated(u, "result_output_path", c.result_output_path),
           result_output_format |->
             Updated(u, "result_output_format", c.result_output_format)]
  BY DEF Candidate, url
<1> HIDE DEF d, text
<1>4. text \in Urls
  BY UpdatedTyped DEF text
<1>5. d \in Snapshots
  BY <1>2, <1>3, <1>4, UpdatedTyped DEF Snapshots
<1>6. EndpointResolved(d)
  BY <1>2, <1>3 DEF EndpointResolved
<1> QED BY <1>5, <1>6 DEF d

-----------------------------------------------------------------------------
(***************************************************************************)
(* Types, settings and writer.  The three belong together: what an update  *)
(* hands to the writer has its type because the snapshot has.              *)
(***************************************************************************)

\* The worker's locals while an iteration has them.
LocalsOK ==
  /\ worker \in {"popped", "posting"} => body \in Frames
  /\ worker = "posting" => snap \in Snapshots /\ total \in TotalAttempts(snap)

BaseInv ==
  TypeOK /\ LocalsOK /\ SettingsConsistent /\ WriterInv /\ WriterMatchesSettings

LEMMA QueueEnds ==
  ASSUME queue \in Seq(Frames), queue # <<>>
  PROVE  /\ Head(queue) \in Frames
         /\ Tail(queue) \in Seq(Frames)
         /\ Len(queue) \in Nat \ {0}
         /\ Len(Tail(queue)) = Len(queue) - 1
         /\ Head(queue) = queue[1]
         /\ \A i \in 1 .. Len(queue) - 1 : Tail(queue)[i] = queue[i + 1]
OBVIOUS

\* A full queue is not empty.
LEMMA FullNotEmpty ==
  ASSUME queue \in Seq(Frames), QueueFull
  PROVE  queue # <<>>
BY SenderAssumption DEF QueueFull

LEMMA TotalAttemptsTyped ==
  ASSUME NEW c \in Snapshots
  PROVE  TotalAttempts(c) \subseteq Int
<1>1. c.http_retry_count \in Int
  BY SenderAssumption DEF Snapshots
<1> QED BY <1>1, SenderAssumption DEF TotalAttempts

LEMMA InitBase == Init => BaseInv
<1> SUFFICES ASSUME Init PROVE BaseInv
  OBVIOUS
<1>1. PICK s \in InitialSettings :
        LET c == BuildSnapshot(s)
        IN  /\ Accepts(c)
            /\ snapshot = c
            /\ \E r \in ConfigureOutcomes(c.save_results, c.result_output_path) :
                 /\ enabled = r.enabled
                 /\ out = r.out
                 /\ last_error = r.last_error
            /\ worker = IF SendModeUsesHttp(c.send_mode) THEN "check" ELSE "none"
  BY DEF Init
<1>2. /\ snapshot \in Snapshots /\ EndpointResolved(snapshot) /\ Accepts(snapshot)
      /\ worker \in {"check", "none"}
  BY <1>1, BuildSnapshotTyped, SenderAssumption
<1>3. /\ snapshot.save_results \in BOOLEAN
      /\ snapshot.result_output_path \in Paths \cup {EmptyPath}
  BY <1>2 DEF Snapshots
<1>4. PICK r \in ConfigureOutcomes(snapshot.save_results,
                                   snapshot.result_output_path) :
             enabled = r.enabled /\ out = r.out /\ last_error = r.last_error
  BY <1>1
<1>5. /\ enabled \in BOOLEAN /\ out \in Paths \cup {NoFile} /\ last_error \in Errors
      /\ WriterStable /\ WriterMatchesSettings
  BY <1>3, <1>4, ConfigureOutcomesStable DEF WriterStable, WriterMatchesSettings
<1>6. files \in [Paths -> Seq(Chunks)] /\ reported \in [Paths -> SUBSET Frames]
  <2> <<>> \in Seq(Chunks) OBVIOUS
  <2> QED BY DEF Init
<1>7. arrived \in 0 .. MaxFrames /\ body \in 0 .. MaxFrames
  BY WriterAssumption DEF Init
<1>8. WriterInv
  <2>1. ChunksArrived /\ ReportedOnceInOrder
    BY DEF Init, ChunksArrived, ReportedOnceInOrder
  <2> QED BY <1>5, <1>6, <1>7, <2>1 DEF WriterInv, WriterTypeOK
<1>9. TypeOK
  <2>1. queue \in Seq(Frames) /\ relayed \in Seq(Frames)
    BY DEF Init
  <2>2. tried \in [Frames -> Nat] /\ fate \in [Frames -> Fates]
    BY DEF Init, Fates
  <2>3. stop_flag \in BOOLEAN /\ main \in MainStates /\ total \in Int
    <3>1. total \in Int
      BY DEF Init
    <3>2. stop_flag \in BOOLEAN
      BY DEF Init
    <3> QED BY <3>1, <3>2 DEF Init, MainStates
  <2>4. worker \in WorkerStates
    BY <1>2 DEF WorkerStates
  <2>5. snap \in Snapshots \cup {NoSnapshot}
    BY DEF Init
  <2> QED BY <1>2, <1>7, <1>8, <2>1, <2>2, <2>3, <2>4, <2>5
      DEF TypeOK, WriterInv
<1> QED BY <1>2, <1>5, <1>8, <1>9
    DEF BaseInv, LocalsOK, SettingsConsistent

\* The three properties of the writer and the settings survive a step that
\* leaves their variables alone.
LEMMA BaseUnchanged ==
  ASSUME BaseInv, UNCHANGED <<writerVars, arrived, snapshot>>
  PROVE  /\ WriterInv'
         /\ (Running' => Running) => WriterMatchesSettings'
BY DEF BaseInv, writerVars, WriterInv, WriterTypeOK, WriterStable,
       ChunksArrived, ReportedOnceInOrder, WrittenAt, WriterMatchesSettings,
       Running

\* A step that leaves the worker's iteration and the settings alone keeps them.
LEMMA LocalsUnchanged ==
  ASSUME BaseInv, UNCHANGED <<body, snap, total>>,
         worker' \in {"popped", "posting"} => worker' = worker,
         Accepts(snapshot)', EndpointResolved(snapshot)'
  PROVE  LocalsOK' /\ SettingsConsistent'
BY DEF BaseInv, LocalsOK, SettingsConsistent, PostsNow, EndpointResolved,
       TotalAttempts

LEMMA WakeTyped ==
  ASSUME worker \in WorkerStates, Wake
  PROVE  /\ worker' \in WorkerStates
         /\ worker' \in {"popped", "posting"} => worker' = worker
BY DEF Wake, WorkerStates

\* The types of what the two threads share and of the worker's locals.
ThreadTypeOK ==
  /\ queue \in Seq(Frames)
  /\ stop_flag \in BOOLEAN
  /\ main \in MainStates
  /\ worker \in WorkerStates
  /\ body \in 0 .. MaxFrames
  /\ snap \in Snapshots \cup {NoSnapshot}
  /\ total \in Int
  /\ tried \in [Frames -> Nat]
  /\ fate \in [Frames -> Fates]
  /\ relayed \in Seq(Frames)

LEMMA EnqueueTyped ==
  ASSUME ThreadTypeOK, NEW f \in Frames, Enqueue(f)
  PROVE  queue' \in Seq(Frames) /\ fate' \in [Frames -> Fates]
<1>1. queue' \in Seq(Frames)
  <2>1. CASE QueueFull
    <3>1. Tail(queue) \in Seq(Frames)
      BY <2>1, FullNotEmpty, QueueEnds DEF ThreadTypeOK
    <3>2. queue' = Append(Tail(queue), f)
      BY <2>1 DEF Enqueue
    <3> QED BY <3>1, <3>2
  <2>2. CASE ~QueueFull
    BY <2>2 DEF Enqueue, ThreadTypeOK
  <2> QED BY <2>1, <2>2
<1>2. fate' \in [Frames -> Fates]
  BY DEF Enqueue, EnqueuedFate, ThreadTypeOK, Fates
<1> QED BY <1>1, <1>2

LEMMA OnDetectionsBase == BaseInv /\ OnDetections => BaseInv'
<1> SUFFICES ASSUME BaseInv, OnDetections PROVE BaseInv'
  OBVIOUS
<1>1. /\ arrived' = arrived + 1 /\ arrived' \in Frames
      /\ ThreadTypeOK /\ snapshot \in Snapshots /\ WriterInv
  BY WriterAssumption
     DEF OnDetections, BaseInv, TypeOK, WriterTypeOK, Frames, ThreadTypeOK
<1>2. /\ WriterInv'
      /\ enabled' => enabled /\ out' = out
      /\ enabled /\ ~enabled' => last_error' # "none"
      /\ ~enabled => UNCHANGED streamVars
  <2>1. CASE snapshot.save_results
    BY <1>1, <2>1, AppendKeepsInv DEF OnDetections, Save
  <2>2. CASE ~snapshot.save_results
    <3>1. AppendDisabled
      <4>1. main = "spin"
        BY DEF OnDetections
      <4>2. ~enabled
        BY <2>2, <4>1 DEF BaseInv, WriterMatchesSettings, Running
      <4> QED BY <2>2, <4>2 DEF AppendDisabled, OnDetections, Save
    <3> QED BY <1>1, <3>1, AppendKeepsInv DEF AppendPayload
  <2> QED BY <2>1, <2>2
<1>3. WriterMatchesSettings'
  BY <1>2 DEF OnDetections, BaseInv, WriterMatchesSettings, Running, streamVars
<1>4. /\ queue' \in Seq(Frames) /\ fate' \in [Frames -> Fates]
      /\ main' \in MainStates
  <2>1. CASE SendModeUsesHttp(snapshot.send_mode)
    BY <1>1, <2>1, EnqueueTyped DEF OnDetections, EnqueueHttp, MainStates
  <2>2. CASE ~SendModeUsesHttp(snapshot.send_mode)
    BY <1>1, <2>2
       DEF OnDetections, KeepLocal, SetFate, ThreadTypeOK, MainStates, Fates
  <2> QED BY <2>1, <2>2
<1>5. relayed' \in Seq(Frames)
  BY <1>1 DEF OnDetections, Relay, ThreadTypeOK
<1>6. UNCHANGED <<snapshot, stop_flag, worker, body, snap, total, tried>>
  BY DEF OnDetections, workerVars
<1>7. TypeOK'
  BY <1>1, <1>2, <1>4, <1>5, <1>6 DEF ThreadTypeOK, TypeOK, WriterInv
<1>8. LocalsOK' /\ SettingsConsistent'
  BY <1>6, LocalsUnchanged
     DEF BaseInv, SettingsConsistent, Accepts, EndpointResolved
<1> QED BY <1>2, <1>3, <1>7, <1>8 DEF BaseInv

LEMMA OnParameterChangeBase ==
  ASSUME BaseInv, NEW u \in Updates, OnParameterChange(u)
  PROVE  BaseInv'
<1> DEFINE c == Candidate(snapshot, u)
<1>1. c \in Snapshots /\ EndpointResolved(c) /\ Accepts(c)
  BY CandidateTyped DEF BaseInv, TypeOK, SettingsConsistent, OnParameterChange
<1>2. /\ snapshot' = c /\ main = "spin"
      /\ UNCHANGED <<arrived, stop_flag, httpVars, relayed>>
  BY DEF OnParameterChange
<1> HIDE DEF c
<1>3. c.save_results \in BOOLEAN /\ c.result_output_path \in Paths \cup {EmptyPath}
  BY <1>1 DEF Snapshots
<1>4. /\ worker' \in WorkerStates /\ main' \in MainStates
      /\ worker' \in {"popped", "posting"} => worker' = worker
  BY DEF OnParameterChange, EnsureHttpWorkerStarted, HttpWorkerStartFails,
         BaseInv, TypeOK, WorkerStates, MainStates
<1>5. WriterInv' /\ WriterMatchesSettings'
  <2>1. CASE Configure(c.save_results, c.result_output_path)
    BY <1>2, <1>3, <2>1, ConfigureKeepsInv
       DEF BaseInv, WriterMatchesSettings
  <2>2. CASE UNCHANGED writerVars /\ ~Running'
    BY <1>2, <2>2 DEF BaseInv, writerVars, WriterInv, WriterTypeOK,
       WriterStable, ChunksArrived, ReportedOnceInOrder, WrittenAt,
       WriterMatchesSettings, Running
  <2>3. CASE UNCHANGED writerVars /\ ~WriterInputsChanged(u)
    <3>1. /\ c.save_results = snapshot.save_results
          /\ c.result_output_path = snapshot.result_output_path
      BY <2>3 DEF c, WriterInputsChanged, Candidate, Updated
    <3>2. Running
      BY <1>2 DEF Running
    <3> QED BY <1>2, <2>3, <3>1, <3>2 DEF BaseInv, writerVars, WriterInv,
       WriterTypeOK, WriterStable, ChunksArrived, ReportedOnceInOrder,
       WrittenAt, WriterMatchesSettings, Running
  <2> QED BY <2>1, <2>2, <2>3
      DEF OnParameterChange, ApplyWriterConfig, HttpWorkerStartFails, Running, c
<1>6. TypeOK'
  BY <1>1, <1>2, <1>4, <1>5 DEF BaseInv, TypeOK, WriterInv, httpVars
<1>7. Accepts(snapshot)' /\ EndpointResolved(snapshot)'
  BY <1>1, <1>2 DEF Accepts, EndpointResolved
<1>8. LocalsOK' /\ SettingsConsistent'
  BY <1>2, <1>4, <1>7, LocalsUnchanged DEF httpVars
<1> QED BY <1>5, <1>6, <1>8 DEF BaseInv

\* Steps of the two threads that concern neither the settings nor the writer.
LEMMA MainStepBase ==
  BaseInv /\ (MainStep \/ Shutdown \/ SpuriousWakeup) => BaseInv'
<1> SUFFICES ASSUME BaseInv, MainStep \/ Shutdown \/ SpuriousWakeup
             PROVE  BaseInv'
  OBVIOUS
<1>1. UNCHANGED <<writerVars, arrived, snapshot, httpVars, relayed>>
  BY DEF MainStep, NotifyOne, Shutdown, SetStopFlag, NotifyAll, Join,
         SpuriousWakeup, mainOnlyVars
<1>2. /\ main' \in MainStates /\ stop_flag' \in BOOLEAN
      /\ Running' => Running
      /\ worker' \in WorkerStates
      /\ worker' \in {"popped", "posting"} => worker' = worker
  <2>1. worker \in WorkerStates /\ stop_flag \in BOOLEAN /\ main \in MainStates
    BY DEF BaseInv, TypeOK
  <2>2. CASE NotifyOne
    BY <2>1, <2>2, WakeTyped DEF NotifyOne, MainStates, Running
  <2>3. CASE Shutdown
    BY <2>1, <2>3 DEF Shutdown, MainStates, Running
  <2>4. CASE SetStopFlag
    BY <2>1, <2>4 DEF SetStopFlag, MainStates, Running
  <2>5. CASE NotifyAll
    BY <2>1, <2>5, WakeTyped DEF NotifyAll, MainStates, Running
  <2>6. CASE Join
    BY <2>1, <2>6 DEF Join, MainStates, Running
  <2>7. CASE SpuriousWakeup
    BY <2>1, <2>7 DEF SpuriousWakeup, mainOnlyVars, WorkerStates, Running
  <2> QED BY <2>2, <2>3, <2>4, <2>5, <2>6, <2>7 DEF MainStep
<1>3. WriterInv' /\ WriterMatchesSettings'
  BY <1>1, <1>2, BaseUnchanged
<1>4. TypeOK'
  BY <1>1, <1>2, <1>3 DEF BaseInv, TypeOK, WriterInv, httpVars
<1>5. Accepts(snapshot)' /\ EndpointResolved(snapshot)'
  BY <1>1 DEF BaseInv, SettingsConsistent, Accepts, EndpointResolved
<1>6. LocalsOK' /\ SettingsConsistent'
  BY <1>1, <1>2, <1>5, LocalsUnchanged DEF httpVars
<1> QED BY <1>3, <1>4, <1>6 DEF BaseInv

LEMMA WorkerStepBase == BaseInv /\ WorkerStep => BaseInv'
<1> SUFFICES ASSUME BaseInv, WorkerStep PROVE BaseInv'
  OBVIOUS
<1>1. UNCHANGED mainOnlyVars
  BY DEF WorkerStep, WorkerExit, WorkerWait, WorkerPop, WorkerSkip,
         WorkerCopySnapshot, PostOk, PostFails, GiveUp
<1>2. WriterInv' /\ WriterMatchesSettings'
  BY <1>1, BaseUnchanged DEF mainOnlyVars, Running
<1>3. Accepts(snapshot)' /\ EndpointResolved(snapshot)'
  BY <1>1 DEF mainOnlyVars, BaseInv, SettingsConsistent, Accepts,
              EndpointResolved
<1>4. /\ ThreadTypeOK /\ LocalsOK /\ snapshot \in Snapshots
      /\ worker = "posting" => PostsNow(snap) /\ EndpointResolved(snap)
  BY DEF BaseInv, TypeOK, ThreadTypeOK, SettingsConsistent
<1> DEFINE Goal == ThreadTypeOK' /\ LocalsOK' /\ SettingsConsistent'
<1>5. ASSUME EndIteration, queue' = queue, tried' \in [Frames -> Nat],
             fate' \in [Frames -> Fates]
      PROVE  Goal
  BY <1>1, <1>3, <1>4, <1>5, WriterAssumption
     DEF EndIteration, mainOnlyVars, ThreadTypeOK, LocalsOK,
         SettingsConsistent, WorkerStates
<1>6. ASSUME WorkerExit PROVE Goal
  <2>1. /\ queue' = <<>> /\ worker' = "done" /\ fate' \in [Frames -> Fates]
        /\ UNCHANGED <<body, snap, total, tried>>
    BY <1>4, <1>6 DEF WorkerExit, ThreadTypeOK, Fates
  <2> QED BY <1>1, <1>3, <1>4, <2>1
      DEF mainOnlyVars, ThreadTypeOK, LocalsOK, SettingsConsistent, WorkerStates
<1>7. ASSUME WorkerWait PROVE Goal
  BY <1>1, <1>3, <1>4, <1>7
     DEF WorkerWait, httpVars, mainOnlyVars, ThreadTypeOK, LocalsOK,
         SettingsConsistent, WorkerStates
<1>8. ASSUME WorkerPop PROVE Goal
  <2>1. /\ queue' \in Seq(Frames) /\ body' \in Frames /\ worker' = "popped"
        /\ fate' \in [Frames -> Fates]
        /\ UNCHANGED <<snap, total, tried>>
    BY <1>4, <1>8, QueueEnds DEF WorkerPop, SetFate, ThreadTypeOK, Fates
  <2>2. body' \in 0 .. MaxFrames
    BY <2>1 DEF Frames
  <2> QED BY <1>1, <1>3, <1>4, <2>1, <2>2
      DEF mainOnlyVars, ThreadTypeOK, LocalsOK, SettingsConsistent, WorkerStates
<1>9. ASSUME WorkerSkip PROVE Goal
  <2>1. fate' \in [Frames -> Fates]
    BY <1>4, <1>9 DEF WorkerSkip, SetFate, ThreadTypeOK, Fates
  <2> QED BY <1>4, <1>5, <1>9, <2>1 DEF WorkerSkip, ThreadTypeOK
<1>10. ASSUME WorkerCopySnapshot PROVE Goal
  <2>1. /\ worker' = "posting" /\ snap' = snapshot /\ PostsNow(snapshot)
        /\ total' \in TotalAttempts(snapshot) /\ worker = "popped"
        /\ UNCHANGED <<queue, body, tried, fate>>
    BY <1>10 DEF WorkerCopySnapshot
  <2>2. total' \in Int
    BY <1>4, <2>1, TotalAttemptsTyped
  <2>3. ThreadTypeOK'
    BY <1>1, <1>4, <2>1, <2>2 DEF mainOnlyVars, ThreadTypeOK, WorkerStates
  <2>4. LocalsOK'
    BY <1>4, <2>1 DEF LocalsOK, TotalAttempts
  <2>5. SettingsConsistent'
    BY <1>1, <1>3, <2>1
       DEF mainOnlyVars, SettingsConsistent, PostsNow, EndpointResolved
  <2> QED BY <2>3, <2>4, <2>5
<1>11. ASSUME PostOk PROVE Goal
  <2>1. body \in Frames
    BY <1>4, <1>11 DEF PostOk, LocalsOK
  <2>2. fate' \in [Frames -> Fates] /\ tried' \in [Frames -> Nat]
    BY <1>4, <1>11, <2>1
       DEF PostOk, SetFate, CountAttempt, ThreadTypeOK, Fates
  <2> QED BY <1>4, <1>5, <1>11, <2>2 DEF PostOk, ThreadTypeOK
<1>12. ASSUME PostFails PROVE Goal
  <2>1. body \in Frames
    BY <1>4, <1>12 DEF PostFails, LocalsOK
  <2>2. tried' \in [Frames -> Nat]
        /\ UNCHANGED <<queue, worker, body, snap, total, fate>>
    BY <1>4, <1>12, <2>1 DEF PostFails, CountAttempt, ThreadTypeOK
  <2>3. LocalsOK' /\ SettingsConsistent'
    BY <1>3, <2>2, LocalsUnchanged
  <2> QED BY <1>1, <1>4, <2>2, <2>3 DEF mainOnlyVars, ThreadTypeOK
<1>13. ASSUME GiveUp PROVE Goal
  <2>1. fate' \in [Frames -> Fates]
    BY <1>4, <1>13 DEF GiveUp, SetFate, ThreadTypeOK, Fates
  <2> QED BY <1>4, <1>5, <1>13, <2>1 DEF GiveUp, ThreadTypeOK
<1>14. Goal
  BY <1>6, <1>7, <1>8, <1>9, <1>10, <1>11, <1>12, <1>13 DEF WorkerStep
<1>15. TypeOK'
  BY <1>1, <1>2, <1>4, <1>14 DEF ThreadTypeOK, TypeOK, WriterInv, mainOnlyVars
<1> QED BY <1>2, <1>14, <1>15 DEF BaseInv

LEMMA BaseStep == BaseInv /\ [Next]_vars => BaseInv'
<1> SUFFICES ASSUME BaseInv, [Next]_vars PROVE BaseInv'
  OBVIOUS
<1>1. CASE OnDetections
  BY <1>1, OnDetectionsBase
<1>2. ASSUME NEW u \in Updates, OnParameterChange(u)
      PROVE  BaseInv'
  BY <1>2, OnParameterChangeBase
<1>3. CASE MainStep \/ Shutdown \/ SpuriousWakeup
  BY <1>3, MainStepBase
<1>4. CASE WorkerStep
  BY <1>4, WorkerStepBase
<1>5. CASE UNCHANGED vars
  <2>1. UNCHANGED <<writerVars, arrived, snapshot, main, worker, body, snap,
                    total, queue, stop_flag, tried, fate, relayed>>
    BY <1>5 DEF vars
  <2>2. WriterInv' /\ WriterMatchesSettings'
    BY <2>1, BaseUnchanged DEF Running
  <2>3. Accepts(snapshot)' /\ EndpointResolved(snapshot)'
    BY <2>1 DEF BaseInv, SettingsConsistent, Accepts, EndpointResolved
  <2>4. LocalsOK' /\ SettingsConsistent'
    BY <2>1, <2>3, LocalsUnchanged
  <2>5. TypeOK'
    BY <2>1, <2>2 DEF BaseInv, TypeOK, WriterInv
  <2> QED BY <2>2, <2>4, <2>5 DEF BaseInv
<1> QED BY <1>1, <1>2, <1>3, <1>4, <1>5 DEF Next, Environment, Terminated

LEMMA BaseInvariant == Spec => []BaseInv
BY InitBase, BaseStep, PTL DEF Spec

\* Every variable of the node keeps its type, for all inputs and schedules.
THEOREM Typed == Spec => []TypeOK
BY BaseInvariant, PTL DEF BaseInv

\* Whatever the updates, the settings in force would pass the checks of
\* start-up, and what is posted goes to the target of a URL that was in force.
THEOREM SettingsStayConsistent == Spec => []SettingsConsistent
BY BaseInvariant, PTL DEF BaseInv

\* While the node runs, the file that is open is the one the settings name, and
\* saving that is on but does not work has left an error.
THEOREM WriterFollowsSettings == Spec => []WriterMatchesSettings
BY BaseInvariant, PTL DEF BaseInv

-----------------------------------------------------------------------------
(***************************************************************************)
(* The protocol of the two threads.  NoLostWakeup is not inductive alone:  *)
(* it needs to know where the main thread is when the flag is set.         *)
(***************************************************************************)
StopStages == stop_flag <=> main \in {"notify_all", "join", "exited"}

DoneMeansStopped == worker = "done" => stop_flag /\ queue = <<>>

ProtocolInv ==
  /\ StopStages /\ DoneMeansStopped
  /\ NoLostWakeup /\ WorkerCoversQueue

LEMMA InitProtocol == Init => ProtocolInv
<1> SUFFICES ASSUME Init PROVE ProtocolInv
  OBVIOUS
<1>1. /\ main = "spin" /\ ~stop_flag /\ queue = <<>>
      /\ worker = IF SendModeUsesHttp(snapshot.send_mode) THEN "check"
                                                          ELSE "none"
  BY DEF Init
<1> QED BY <1>1 DEF ProtocolInv, StopStages, DoneMeansStopped, NoLostWakeup,
                    WorkerCoversQueue, Running

LEMMA ProtocolStep == TypeOK /\ ProtocolInv /\ [Next]_vars => ProtocolInv'
<1> SUFFICES ASSUME TypeOK, ProtocolInv, [Next]_vars PROVE ProtocolInv'
  OBVIOUS
<1> USE DEF ProtocolInv, StopStages, DoneMeansStopped, NoLostWakeup,
            WorkerCoversQueue, Running
<1>1. CASE OnDetections
  <2>1. /\ main = "spin" /\ UNCHANGED <<snapshot, stop_flag, worker>>
    BY <1>1 DEF OnDetections, workerVars
  <2>2. CASE SendModeUsesHttp(snapshot.send_mode)
    <3>1. main' = "notify_one"
      BY <1>1, <2>2 DEF OnDetections, EnqueueHttp
    <3> QED BY <2>1, <2>2, <3>1
  <2>3. CASE ~SendModeUsesHttp(snapshot.send_mode)
    <3>1. UNCHANGED <<queue, main>>
      BY <1>1, <2>3 DEF OnDetections, KeepLocal
    <3> QED BY <2>1, <2>3, <3>1
  <2> QED BY <2>2, <2>3
<1>2. ASSUME NEW u \in Updates, OnParameterChange(u)
      PROVE  ProtocolInv'
  <2> DEFINE mode == Candidate(snapshot, u).send_mode
  <2>1. /\ main = "spin" /\ snapshot'.send_mode = mode
        /\ UNCHANGED <<stop_flag, queue>>
        /\ EnsureHttpWorkerStarted(mode) \/ HttpWorkerStartFails(mode)
    BY <1>2 DEF OnParameterChange, httpVars
  <2> HIDE DEF mode
  <2>2. CASE EnsureHttpWorkerStarted(mode)
    BY <2>1, <2>2 DEF EnsureHttpWorkerStarted, NeedsWorker
  <2>3. CASE HttpWorkerStartFails(mode)
    BY <2>1, <2>3 DEF HttpWorkerStartFails, NeedsWorker
  <2> QED BY <2>1, <2>2, <2>3
<1>3. CASE NotifyOne
  BY <1>3 DEF NotifyOne, Wake, httpVars
<1>4. CASE Shutdown
  BY <1>4 DEF Shutdown, httpVars
<1>5. CASE SetStopFlag
  BY <1>5 DEF SetStopFlag, httpVars
<1>6. CASE NotifyAll
  BY <1>6 DEF NotifyAll, Wake, httpVars
<1>7. CASE Join
  BY <1>7 DEF Join, httpVars
<1>8. CASE SpuriousWakeup
  BY <1>8 DEF SpuriousWakeup, httpVars, mainOnlyVars
<1>9. CASE WorkerExit
  BY <1>9 DEF WorkerExit, mainOnlyVars
<1>10. CASE WorkerWait
  BY <1>10 DEF WorkerWait, httpVars, mainOnlyVars
<1>11. CASE WorkerPop
  BY <1>11 DEF WorkerPop, mainOnlyVars
<1>12. CASE WorkerSkip
  BY <1>12 DEF WorkerSkip, EndIteration, mainOnlyVars
<1>13. CASE WorkerCopySnapshot
  BY <1>13 DEF WorkerCopySnapshot, mainOnlyVars
<1>14. CASE PostOk
  BY <1>14 DEF PostOk, EndIteration, mainOnlyVars
<1>15. CASE PostFails
  BY <1>15 DEF PostFails, mainOnlyVars
<1>16. CASE GiveUp
  BY <1>16 DEF GiveUp, EndIteration, mainOnlyVars
<1>17. CASE UNCHANGED vars
  BY <1>17 DEF vars
<1> QED BY <1>1, <1>2, <1>3, <1>4, <1>5, <1>6, <1>7, <1>8, <1>9, <1>10, <1>11,
           <1>12, <1>13, <1>14, <1>15, <1>16, <1>17
        DEF Next, Environment, MainStep, WorkerStep, Terminated

LEMMA ProtocolInvariant == Spec => []ProtocolInv
BY InitProtocol, ProtocolStep, Typed, PTL DEF Spec

\* The worker never sleeps on a payload or on the shutdown beyond the moment
\* between a change and its notification, in any interleaving.
THEOREM WakeupsNeverLost == Spec => []NoLostWakeup
BY ProtocolInvariant, PTL DEF ProtocolInv

\* No sequence of mode changes leaves payloads without a worker.
THEOREM QueueAlwaysServed == Spec => []WorkerCoversQueue
BY ProtocolInvariant, PTL DEF ProtocolInv

\* The node is destroyed only after its worker, and with an empty queue.
THEOREM WorkerJoined ==
  Spec => [](main = "exited" => worker \in {"none", "done"} /\ queue = <<>>)
<1>1. ProtocolInv =>
        (main = "exited" => worker \in {"none", "done"} /\ queue = <<>>)
  BY DEF ProtocolInv, WorkerCoversQueue
<1> QED BY <1>1, ProtocolInvariant, PTL

-----------------------------------------------------------------------------
(***************************************************************************)
(* The queue.  Order, bound and the history of the frames are inductive    *)
(* together: what leaves the queue is its first element, which is the      *)
(* oldest because the queue is in order.                                   *)
(***************************************************************************)
PoppedUntried == worker = "popped" => tried[body] = 0

QueueInv == QueueBounded /\ FifoOrder /\ FramesAccounted /\ PoppedUntried

LEMMA InitQueue == Init => QueueInv
<1> SUFFICES ASSUME Init PROVE QueueInv
  OBVIOUS
<1>1. /\ queue = <<>> /\ body = 0 /\ arrived = 0
      /\ tried = [f \in Frames |-> 0] /\ fate = [f \in Frames |-> "new"]
  BY DEF Init
<1>2. worker \in {"check", "none"}
  BY DEF Init
<1>3. QueueBounded /\ FifoOrder
  BY <1>1, SenderAssumption DEF QueueBounded, FifoOrder
<1>4. FramesAccounted
  BY <1>1, <1>2, WriterAssumption DEF FramesAccounted, Frames, Fates
<1> QED BY <1>2, <1>3, <1>4 DEF QueueInv, PoppedUntried

\* What enqueue_http leaves in the queue: the new body last, before it the
\* old ones, without the first if the queue was full.
LEMMA EnqueueShape ==
  ASSUME queue \in Seq(Frames), Len(queue) <= kMaxQueueSize,
         NEW f \in Frames, Enqueue(f)
  PROVE  \E k \in 0 .. 1 :
           /\ k = 1 <=> QueueFull
           /\ Len(queue) - k \in Nat
           /\ Len(queue') = Len(queue) - k + 1
           /\ Len(queue') <= kMaxQueueSize
           /\ \A i \in 1 .. Len(queue) - k : queue'[i] = queue[i + k]
           /\ queue'[Len(queue')] = f
<1>1. CASE QueueFull
  <2>1. /\ queue # <<>> /\ queue' = Append(Tail(queue), f)
    BY <1>1, FullNotEmpty DEF Enqueue
  <2>2. /\ Tail(queue) \in Seq(Frames) /\ Len(queue) \in Nat \ {0}
        /\ Len(Tail(queue)) = Len(queue) - 1
        /\ \A i \in 1 .. Len(queue) - 1 : Tail(queue)[i] = queue[i + 1]
    BY <2>1, QueueEnds
  <2>3. /\ Len(queue') = Len(queue) /\ queue'[Len(queue')] = f
        /\ \A i \in 1 .. Len(queue) - 1 : queue'[i] = queue[i + 1]
    BY <2>1, <2>2
  <2> WITNESS 1 \in 0 .. 1
  <2> QED BY <1>1, <2>2, <2>3
<1>2. CASE ~QueueFull
  <2>1. queue' = Append(queue, f) /\ Len(queue) \in Nat
    BY <1>2 DEF Enqueue
  <2>2. /\ Len(queue') = Len(queue) + 1 /\ queue'[Len(queue')] = f
        /\ \A i \in 1 .. Len(queue) : queue'[i] = queue[i]
    BY <2>1
  <2>3. Len(queue) < kMaxQueueSize
    BY <1>2, <2>1, SenderAssumption DEF QueueFull
  <2> WITNESS 0 \in 0 .. 1
  <2> QED BY <1>2, <2>1, <2>2, <2>3, SenderAssumption
<1> QED BY <1>1, <1>2

\* A step that moves no payload.
LEMMA QueueUnchanged ==
  ASSUME QueueInv, UNCHANGED <<queue, fate, tried, arrived, body>>,
         worker' \in {"popped", "posting"} <=> worker \in {"popped", "posting"},
         worker' = "popped" => worker = "popped"
  PROVE  QueueInv'
BY DEF QueueInv, QueueBounded, FifoOrder, FramesAccounted, PoppedUntried

LEMMA OnDetectionsQueue ==
  ASSUME TypeOK, TypeOK', QueueInv, OnDetections
  PROVE  QueueInv'
<1> DEFINE f == arrived + 1
<1>1. /\ f \in Frames /\ arrived' = f /\ f \in Nat /\ arrived \in Nat
      /\ UNCHANGED <<worker, body, tried>>
      /\ queue \in Seq(Frames) /\ Len(queue) <= kMaxQueueSize
      /\ fate \in [Frames -> Fates] /\ tried \in [Frames -> Nat]
  BY WriterAssumption
     DEF OnDetections, workerVars, Frames, TypeOK, WriterTypeOK, QueueInv,
         QueueBounded
<1>2. /\ \A g \in Frames : fate[g] = "new" <=> g > arrived
      /\ \A g \in Frames : g \in Nat
      /\ fate[f] = "new" /\ tried[f] = 0
      /\ ~(f = body /\ worker \in {"popped", "posting"})
  BY <1>1 DEF QueueInv, FramesAccounted, Frames, Fates
<1>3. CASE SendModeUsesHttp(snapshot.send_mode)
  <2>1. Enqueue(f)
    BY <1>1, <1>3 DEF OnDetections, EnqueueHttp
  <2>2. PICK k \in 0 .. 1 :
           /\ k = 1 <=> QueueFull
           /\ Len(queue) - k \in Nat
           /\ Len(queue') = Len(queue) - k + 1
           /\ Len(queue') <= kMaxQueueSize
           /\ \A i \in 1 .. Len(queue) - k : queue'[i] = queue[i + k]
           /\ queue'[Len(queue')] = f
    BY <1>1, <2>1, EnqueueShape
  <2>3. /\ DOMAIN queue = 1 .. Len(queue) /\ Len(queue) \in Nat
        /\ DOMAIN queue' = 1 .. Len(queue')
        /\ \A i \in DOMAIN queue : queue[i] \in Frames /\ queue[i] <= arrived
                                   /\ fate[queue[i]] = "queued"
    BY <1>1, <1>2 DEF TypeOK, QueueInv, FramesAccounted
  <2>4. QueueBounded'
    BY <2>2 DEF QueueBounded
  <2>5. \A i, j \in DOMAIN queue' : i < j => queue'[i] < queue'[j]
    <3> SUFFICES ASSUME NEW i \in DOMAIN queue', NEW j \in DOMAIN queue', i < j
                 PROVE  queue'[i] < queue'[j]
      OBVIOUS
    <3>0. /\ i \in Int /\ j \in Int /\ 1 <= i /\ i < j /\ j <= Len(queue')
          /\ k \in Int /\ 0 <= k /\ k <= 1 /\ Len(queue) - k \in Nat
      BY <2>2, <2>3
    <3>1. i \in 1 .. Len(queue) - k /\ queue'[i] = queue[i + k]
          /\ i + k \in DOMAIN queue
      <4>1. i \in 1 .. Len(queue) - k /\ i + k \in 1 .. Len(queue)
        BY <2>2, <2>3, <3>0
      <4> QED BY <2>2, <2>3, <4>1
    <3>2. CASE j = Len(queue')
      BY <1>1, <1>2, <2>2, <2>3, <3>1, <3>2
    <3>3. CASE j # Len(queue')
      <4>1. j \in 1 .. Len(queue) - k /\ queue'[j] = queue[j + k]
            /\ j + k \in DOMAIN queue /\ i + k < j + k
        <5>1. /\ j \in 1 .. Len(queue) - k /\ j + k \in 1 .. Len(queue)
              /\ i + k < j + k
          BY <2>2, <2>3, <3>0, <3>3
        <5> QED BY <2>2, <2>3, <5>1
      <4> QED BY <3>1, <4>1 DEF QueueInv, FifoOrder
    <3> QED BY <3>2, <3>3
  <2>6. ASSUME NEW g \in Frames
        PROVE  (\E i \in DOMAIN queue' : queue'[i] = g) <=>
                 \/ g = f
                 \/ \E i \in DOMAIN queue : queue[i] = g /\ i > k
    <3>1. ASSUME NEW i \in DOMAIN queue', queue'[i] = g, g # f
          PROVE  \E m \in DOMAIN queue : queue[m] = g /\ m > k
      <4>1. i \in 1 .. Len(queue) - k /\ i + k \in DOMAIN queue /\ i + k > k
        BY <2>2, <2>3, <3>1
      <4> QED BY <2>2, <3>1, <4>1
    <3>2. ASSUME NEW m \in DOMAIN queue, queue[m] = g, m > k
          PROVE  \E i \in DOMAIN queue' : queue'[i] = g
      <4>1. m - k \in 1 .. Len(queue) - k /\ m - k \in DOMAIN queue'
            /\ (m - k) + k = m
        BY <2>2, <2>3, <3>2
      <4> QED BY <2>2, <3>2, <4>1
    <3>3. Len(queue') \in DOMAIN queue'
      BY <2>2, <2>3
    <3> QED BY <2>2, <3>1, <3>2, <3>3
  <2>7. ASSUME NEW g \in Frames
        PROVE  fate'[g] = IF g = f THEN "queued"
                          ELSE IF k = 1 /\ g = queue[1] THEN "dropped"
                          ELSE fate[g]
    <3>1. QueueFull => Head(queue) = queue[1]
      BY <1>1, FullNotEmpty, QueueEnds
    <3> QED BY <2>1, <2>2, <3>1 DEF Enqueue, EnqueuedFate
  <2>8. ASSUME NEW i \in DOMAIN queue, k = 1
        PROVE  /\ 1 \in DOMAIN queue
               /\ i > 1 => queue[1] < queue[i]
               /\ i = 1 \/ i > 1
    BY <2>3, <2>8 DEF QueueInv, FifoOrder
  <2>9. ASSUME NEW g \in Frames
        PROVE  fate'[g] = "queued" <=> \E i \in DOMAIN queue' : queue'[i] = g
    <3>1. CASE g = f
      BY <2>6, <2>7, <3>1
    <3>2. CASE g # f /\ k = 0
      <4>1. fate'[g] = fate[g]
        BY <2>7, <3>2
      <4>2. \A i \in DOMAIN queue : i > k
        BY <2>3, <3>2
      <4> QED BY <2>6, <3>2, <4>1, <4>2 DEF QueueInv, FramesAccounted
    <3>3. CASE g # f /\ k = 1
      <4>1. CASE g = queue[1]
        <5>1. fate'[g] = "dropped"
          BY <2>7, <3>3, <4>1
        <5>2. \A i \in DOMAIN queue : i > 1 => queue[i] # g
          BY <2>3, <2>8, <3>3, <4>1 DEF Frames
        <5> QED BY <2>6, <3>3, <5>1, <5>2
      <4>2. CASE g # queue[1]
        <5>1. fate'[g] = fate[g]
          BY <2>7, <3>3, <4>2
        <5>2. \A i \in DOMAIN queue : queue[i] = g => i > 1
          BY <2>3, <2>8, <3>3, <4>2
        <5> QED BY <2>6, <3>3, <5>1, <5>2 DEF QueueInv, FramesAccounted
      <4> QED BY <4>1, <4>2
    <3> QED BY <2>2, <3>1, <3>2, <3>3
  <2>10. ASSUME NEW g \in Frames, NEW h \in Frames, fate'[g] = "queued",
                fate'[h] \in FinalFates \cup {"working"}
         PROVE  h < g
    <3>1. h # f /\ h <= arrived
      <4>1. fate'[h] \notin {"queued", "new"}
        BY <2>10 DEF FinalFates
      <4>2. h # f
        BY <2>7, <4>1
      <4>3. CASE k = 1 /\ h = queue[1]
        <5>1. 1 \in DOMAIN queue
          BY <2>2, <2>3, <4>3
        <5> QED BY <2>3, <4>2, <4>3, <5>1
      <4>4. CASE ~(k = 1 /\ h = queue[1])
        <5>1. fate[h] # "new"
          BY <2>7, <4>1, <4>2, <4>4
        <5> QED BY <1>1, <1>2, <4>2, <5>1
      <4> QED BY <4>3, <4>4
    <3>2. CASE g = f
      BY <1>1, <1>2, <3>1, <3>2
    <3>3. CASE g # f
      <4>1. PICK i \in DOMAIN queue : queue[i] = g /\ i > k
        BY <2>6, <2>9, <2>10, <3>3
      <4>2. fate[g] = "queued"
        BY <2>3, <4>1
      <4>3. CASE fate[h] \in FinalFates \cup {"working"}
        BY <4>2, <4>3 DEF QueueInv, FifoOrder
      <4>4. CASE fate[h] \notin FinalFates \cup {"working"}
        <5>1. k = 1 /\ h = queue[1]
          BY <2>2, <2>7, <2>10, <3>1, <4>4
        <5> QED BY <2>8, <4>1, <5>1
      <4> QED BY <4>3, <4>4
    <3> QED BY <3>2, <3>3
  <2>11. FramesAccounted'
    <3> SUFFICES ASSUME NEW g \in Frames
                 PROVE  /\ fate'[g] = "working" <=>
                             (g = body' /\ worker' \in {"popped", "posting"})
                        /\ fate'[g] = "new" <=> g > arrived'
                        /\ fate'[g] \in Fates \ {"working", "ok", "failed"} =>
                             tried'[g] = 0
                        /\ fate'[g] = "ok" => tried'[g] >= 1
      BY <2>9 DEF FramesAccounted
    <3>1. CASE g = f
      BY <1>1, <1>2, <2>7, <3>1
    <3>2. CASE g # f /\ k = 1 /\ g = queue[1]
      <4>1. fate[g] = "queued" /\ fate'[g] = "dropped" /\ g <= arrived
        <5>1. 1 \in DOMAIN queue
          BY <2>2, <2>3, <3>2
        <5> QED BY <2>3, <2>7, <3>2, <5>1
      <4> QED BY <1>1, <1>2, <3>2, <4>1 DEF QueueInv, FramesAccounted, Fates
    <3>3. CASE g # f /\ ~(k = 1 /\ g = queue[1])
      <4>1. fate'[g] = fate[g]
        BY <2>7, <3>3
      <4> QED BY <1>1, <1>2, <3>3, <4>1 DEF QueueInv, FramesAccounted
    <3> QED BY <3>1, <3>2, <3>3
  <2> QED BY <1>1, <2>4, <2>5, <2>10, <2>11
      DEF QueueInv, FifoOrder, PoppedUntried
<1>4. CASE ~SendModeUsesHttp(snapshot.send_mode)
  <2>1. queue' = queue /\ fate' = [fate EXCEPT ![f] = "local"]
    BY <1>1, <1>4 DEF OnDetections, KeepLocal, SetFate
  <2>2. ASSUME NEW g \in Frames
        PROVE  fate'[g] = IF g = f THEN "local" ELSE fate[g]
    BY <1>1, <2>1
  <2>3. QueueBounded' /\ FifoOrder'
    BY <2>1, <2>2 DEF QueueInv, QueueBounded, FifoOrder, FinalFates
  <2>4. FramesAccounted'
    <3> SUFFICES ASSUME NEW g \in Frames
                 PROVE  /\ fate'[g] = "queued" <=>
                             \E i \in DOMAIN queue : queue[i] = g
                        /\ fate'[g] = "working" <=>
                             (g = body /\ worker \in {"popped", "posting"})
                        /\ fate'[g] = "new" <=> g > arrived'
                        /\ fate'[g] \in Fates \ {"working", "ok", "failed"} =>
                             tried[g] = 0
                        /\ fate'[g] = "ok" => tried[g] >= 1
      BY <1>1, <2>1 DEF FramesAccounted
    <3>1. CASE g = f
      BY <1>1, <1>2, <2>2, <3>1 DEF QueueInv, FramesAccounted
    <3>2. CASE g # f
      BY <1>1, <1>2, <2>2, <3>2 DEF QueueInv, FramesAccounted
    <3> QED BY <3>1, <3>2
  <2> QED BY <1>1, <2>3, <2>4 DEF QueueInv, PoppedUntried
<1> QED BY <1>3, <1>4

\* The end of an iteration: the worker's payload gets a final fate.
LEMMA SettleQueue ==
  ASSUME TypeOK, LocalsOK, QueueInv, worker \in {"popped", "posting"},
         NEW what \in FinalFates, SetFate(body, what), EndIteration,
         UNCHANGED <<queue, arrived>>,
         tried' \in [Frames -> Nat],
         \A g \in Frames : g # body => tried'[g] = tried[g],
         what \notin {"ok", "failed"} => tried'[body] = tried[body] /\ tried[body] = 0,
         what = "ok" => tried'[body] >= 1
  PROVE  QueueInv'
<1>1. /\ body \in Frames /\ fate[body] = "working" /\ worker' = "check"
      /\ fate \in [Frames -> Fates]
      /\ \A g \in Frames : fate[g] = "working" => g = body
  BY DEF LocalsOK, TypeOK, EndIteration, QueueInv, FramesAccounted
<1>2. \A g \in Frames : fate'[g] = IF g = body THEN what ELSE fate[g]
  BY <1>1 DEF SetFate
<1>3. QueueBounded' /\ FifoOrder'
  BY <1>1, <1>2 DEF QueueInv, QueueBounded, FifoOrder, FinalFates
<1>4. FramesAccounted'
  <2> SUFFICES ASSUME NEW g \in Frames
               PROVE  /\ fate'[g] = "queued" <=>
                           \E i \in DOMAIN queue : queue[i] = g
                      /\ fate'[g] # "working"
                      /\ fate'[g] = "new" <=> g > arrived
                      /\ fate'[g] \in Fates \ {"working", "ok", "failed"} =>
                           tried'[g] = 0
                      /\ fate'[g] = "ok" => tried'[g] >= 1
    BY <1>1 DEF FramesAccounted
  <2>1. CASE g = body
    BY <1>1, <1>2, <2>1 DEF QueueInv, FramesAccounted, FinalFates
  <2>2. CASE g # body
    BY <1>1, <1>2, <2>2 DEF QueueInv, FramesAccounted
  <2> QED BY <2>1, <2>2
<1> QED BY <1>1, <1>3, <1>4 DEF QueueInv, PoppedUntried

LEMMA WorkerPopQueue ==
  ASSUME TypeOK, QueueInv, WorkerPop
  PROVE  QueueInv'
<1>1. /\ queue \in Seq(Frames) /\ queue # <<>> /\ worker = "check"
      /\ fate \in [Frames -> Fates]
      /\ queue' = Tail(queue) /\ body' = Head(queue) /\ worker' = "popped"
      /\ fate' = [fate EXCEPT ![Head(queue)] = "working"]
      /\ UNCHANGED <<tried, arrived>>
  BY DEF TypeOK, WorkerPop, SetFate, mainOnlyVars
<1>2. /\ Head(queue) \in Frames /\ Head(queue) = queue[1]
      /\ Len(queue) \in Nat \ {0} /\ Len(queue') = Len(queue) - 1
      /\ DOMAIN queue = 1 .. Len(queue) /\ DOMAIN queue' = 1 .. Len(queue) - 1
      /\ \A i \in DOMAIN queue' : queue'[i] = queue[i + 1] /\ i + 1 \in DOMAIN queue
      /\ \A i \in DOMAIN queue : i = 1 \/ i - 1 \in DOMAIN queue'
  BY <1>1, QueueEnds
<1> DEFINE h == queue[1]
<1>3. /\ \A g \in Frames : fate'[g] = IF g = h THEN "working" ELSE fate[g]
      /\ \A g \in Frames : fate[g] # "working"
      /\ h \in Frames /\ fate[h] = "queued" /\ body' = h /\ tried[h] = 0
  <2>1. h \in Frames /\ body' = h /\ 1 \in DOMAIN queue
    BY <1>1, <1>2
  <2>2. fate[h] = "queued"
    BY <2>1 DEF QueueInv, FramesAccounted
  <2>3. tried[h] = 0
    BY <2>1, <2>2 DEF QueueInv, FramesAccounted, Fates
  <2>4. \A g \in Frames : fate[g] # "working"
    BY <1>1 DEF QueueInv, FramesAccounted
  <2>5. \A g \in Frames : fate'[g] = IF g = h THEN "working" ELSE fate[g]
    BY <1>1, <1>2, <2>1
  <2> QED BY <2>1, <2>2, <2>3, <2>4, <2>5
<1>4. \A i \in DOMAIN queue : i # 1 => h < queue[i]
  BY <1>2 DEF QueueInv, FifoOrder
<1>5. QueueBounded'
  BY <1>2, SenderAssumption DEF QueueInv, QueueBounded
<1>6. ASSUME NEW g \in Frames
      PROVE  fate'[g] = "queued" <=> \E i \in DOMAIN queue' : queue'[i] = g
  <2>1. CASE g = h
    <3>1. ASSUME NEW i \in DOMAIN queue' PROVE queue'[i] # g
      <4>1. i + 1 \in DOMAIN queue /\ i + 1 # 1 /\ queue'[i] = queue[i + 1]
        BY <1>2
      <4> QED BY <1>4, <2>1, <4>1 DEF Frames
    <3> QED BY <1>3, <2>1, <3>1
  <2>2. CASE g # h
    <3>1. fate'[g] = "queued" <=> \E i \in DOMAIN queue : queue[i] = g
      BY <1>3, <2>2 DEF QueueInv, FramesAccounted
    <3>2. ASSUME NEW i \in DOMAIN queue, queue[i] = g
          PROVE  \E m \in DOMAIN queue' : queue'[m] = g
      <4>1. i - 1 \in DOMAIN queue' /\ (i - 1) + 1 = i
        BY <1>2, <2>2, <3>2
      <4> QED BY <1>2, <3>2, <4>1
    <3> QED BY <1>2, <3>1, <3>2
  <2> QED BY <2>1, <2>2
<1>7. FifoOrder'
  <2>1. ASSUME NEW i \in DOMAIN queue', NEW j \in DOMAIN queue', i < j
        PROVE  queue'[i] < queue'[j]
    <3>1. /\ i + 1 \in DOMAIN queue /\ j + 1 \in DOMAIN queue /\ i + 1 < j + 1
          /\ queue'[i] = queue[i + 1] /\ queue'[j] = queue[j + 1]
      BY <1>2, <2>1
    <3> QED BY <3>1 DEF QueueInv, FifoOrder
  <2>2. ASSUME NEW g \in Frames, NEW e \in Frames, fate'[g] = "queued",
               fate'[e] \in FinalFates \cup {"working"}
        PROVE  e < g
    <3>1. g # h /\ fate[g] = "queued"
      BY <1>3, <2>2
    <3>2. CASE e = h
      <4>1. PICK i \in DOMAIN queue : queue[i] = g
        BY <3>1 DEF QueueInv, FramesAccounted
      <4> QED BY <1>4, <3>1, <3>2, <4>1
    <3>3. CASE e # h
      <4>1. fate[e] \in FinalFates \cup {"working"}
        BY <1>3, <2>2, <3>3
      <4> QED BY <3>1, <4>1 DEF QueueInv, FifoOrder
    <3> QED BY <3>2, <3>3
  <2> QED BY <2>1, <2>2 DEF FifoOrder
<1>8. FramesAccounted'
  <2> SUFFICES ASSUME NEW g \in Frames
               PROVE  /\ fate'[g] = "working" <=> g = h
                      /\ fate'[g] = "new" <=> g > arrived
                      /\ fate'[g] \in Fates \ {"working", "ok", "failed"} =>
                           tried[g] = 0
                      /\ fate'[g] = "ok" => tried[g] >= 1
    BY <1>1, <1>3, <1>6 DEF FramesAccounted
  <2>1. CASE g = h
    BY <1>3, <2>1 DEF QueueInv, FramesAccounted
  <2>2. CASE g # h
    BY <1>3, <2>2 DEF QueueInv, FramesAccounted
  <2> QED BY <2>1, <2>2
<1> QED BY <1>1, <1>3, <1>5, <1>7, <1>8 DEF QueueInv, PoppedUntried

LEMMA QueueStep ==
  TypeOK /\ TypeOK' /\ LocalsOK /\ QueueInv /\ [Next]_vars => QueueInv'
<1> SUFFICES ASSUME TypeOK, TypeOK', LocalsOK, QueueInv, [Next]_vars
             PROVE  QueueInv'
  OBVIOUS
<1>1. CASE OnDetections
  BY <1>1, OnDetectionsQueue
<1>2. ASSUME NEW u \in Updates, OnParameterChange(u)
      PROVE  QueueInv'
  BY <1>2, QueueUnchanged
     DEF OnParameterChange, httpVars, EnsureHttpWorkerStarted, NeedsWorker,
         HttpWorkerStartFails
<1>3. CASE NotifyOne
  BY <1>3, QueueUnchanged DEF NotifyOne, Wake, httpVars
<1>4. CASE Shutdown
  BY <1>4, QueueUnchanged DEF Shutdown, httpVars
<1>5. CASE SetStopFlag
  BY <1>5, QueueUnchanged DEF SetStopFlag, httpVars
<1>6. CASE NotifyAll
  BY <1>6, QueueUnchanged DEF NotifyAll, Wake, httpVars
<1>7. CASE Join
  BY <1>7, QueueUnchanged DEF Join, httpVars
<1>8. CASE SpuriousWakeup
  BY <1>8, QueueUnchanged DEF SpuriousWakeup, httpVars, mainOnlyVars
<1>9. CASE WorkerExit
  <2>1. /\ worker = "check" /\ worker' = "done" /\ queue' = <<>>
        /\ \A g \in Frames : fate'[g] = IF fate[g] = "queued" THEN "cleared"
                                                              ELSE fate[g]
        /\ UNCHANGED <<body, tried, arrived>>
    BY <1>9 DEF WorkerExit, mainOnlyVars
  <2>2. QueueBounded' /\ FifoOrder'
    BY <2>1, SenderAssumption DEF QueueBounded, FifoOrder
  <2>3. FramesAccounted'
    BY <2>1 DEF QueueInv, FramesAccounted, Fates
  <2> QED BY <2>1, <2>2, <2>3 DEF QueueInv, PoppedUntried
<1>10. CASE WorkerWait
  BY <1>10, QueueUnchanged DEF WorkerWait, httpVars, mainOnlyVars
<1>11. CASE WorkerPop
  BY <1>11, WorkerPopQueue
<1>12. CASE WorkerSkip
  <2>1. tried[body] = 0 /\ tried' = tried
    BY <1>12 DEF WorkerSkip, QueueInv, PoppedUntried
  <2> QED BY <1>12, <2>1, SettleQueue
      DEF WorkerSkip, mainOnlyVars, TypeOK, FinalFates
<1>13. CASE WorkerCopySnapshot
  BY <1>13, QueueUnchanged DEF WorkerCopySnapshot, mainOnlyVars
<1>14. CASE PostOk
  <2>1. body \in Frames /\ tried \in [Frames -> Nat]
    BY <1>14 DEF PostOk, LocalsOK, TypeOK
  <2>2. tried'[body] >= 1 /\ \A g \in Frames : g # body => tried'[g] = tried[g]
    BY <1>14, <2>1 DEF PostOk, CountAttempt
  <2> QED BY <1>14, <2>2, SettleQueue
      DEF PostOk, mainOnlyVars, TypeOK, FinalFates
<1>15. CASE PostFails
  <2>1. /\ body \in Frames /\ fate[body] = "working"
        /\ UNCHANGED <<queue, worker, body, fate, arrived>>
        /\ \A g \in Frames : g # body => tried'[g] = tried[g]
    BY <1>15 DEF PostFails, LocalsOK, CountAttempt, TypeOK, QueueInv,
                 FramesAccounted, mainOnlyVars
  <2>2. QueueBounded' /\ FifoOrder'
    BY <2>1 DEF QueueInv, QueueBounded, FifoOrder
  <2>3. FramesAccounted'
    BY <2>1 DEF QueueInv, FramesAccounted
  <2> QED BY <1>15, <2>1, <2>2, <2>3 DEF QueueInv, PoppedUntried, PostFails
<1>16. CASE GiveUp
  BY <1>16, SettleQueue DEF GiveUp, mainOnlyVars, TypeOK, FinalFates
<1>17. CASE UNCHANGED vars
  BY <1>17, QueueUnchanged DEF vars
<1> QED BY <1>1, <1>2, <1>3, <1>4, <1>5, <1>6, <1>7, <1>8, <1>9, <1>10, <1>11,
           <1>12, <1>13, <1>14, <1>15, <1>16, <1>17
        DEF Next, Environment, MainStep, WorkerStep, Terminated

LEMMA QueueInvariant == Spec => []QueueInv
<1>1. TypeOK /\ TypeOK' /\ LocalsOK /\ QueueInv /\ [Next]_vars => QueueInv'
  BY QueueStep
<1>2. Spec => []BaseInv
  BY BaseInvariant
<1>3. BaseInv => TypeOK /\ LocalsOK
  BY DEF BaseInv
<1> QED BY <1>1, <1>2, <1>3, InitQueue, PTL DEF Spec

\* The queue is bounded by kMaxQueueSize for every kMaxQueueSize >= 1.
THEOREM QueueStaysBounded == Spec => []QueueBounded
BY QueueInvariant, PTL DEF QueueInv

\* Payloads leave the queue oldest first, also the ones that overflow.
THEOREM OldestLeaveFirst == Spec => []FifoOrder
BY QueueInvariant, PTL DEF QueueInv

\* No payload is lost from sight: each is in the queue, in the worker's hands
\* or decided, and what was dropped, skipped or cleared was never posted.
THEOREM FramesStayAccounted == Spec => []FramesAccounted
BY QueueInvariant, PTL DEF QueueInv

-----------------------------------------------------------------------------
(***************************************************************************)
(* Action properties of the payloads.                                      *)
(***************************************************************************)

\* A payload whose fate is final is not the one being worked on.
LEMMA FinalIsNotBody ==
  ASSUME QueueInv, NEW f \in Frames, fate[f] \in FinalFates
  PROVE  /\ ~(f = body /\ worker \in {"popped", "posting"})
         /\ ~\E i \in DOMAIN queue : queue[i] = f
         /\ ~(f > arrived)
BY DEF QueueInv, FramesAccounted, FinalFates

LEMMA SettledStep ==
  ASSUME TypeOK, LocalsOK, QueueInv, Next, NEW f \in Frames,
         fate[f] \in FinalFates
  PROVE  fate'[f] = fate[f] /\ tried'[f] = tried[f]
<1>1. /\ ~(f = body /\ worker \in {"popped", "posting"})
      /\ ~\E i \in DOMAIN queue : queue[i] = f
      /\ ~(f > arrived)
  BY FinalIsNotBody
<1>2. /\ fate \in [Frames -> Fates] /\ tried \in [Frames -> Nat]
      /\ queue \in Seq(Frames) /\ arrived \in Nat
      /\ worker \in {"popped", "posting"} => body \in Frames
  BY WriterAssumption DEF TypeOK, WriterTypeOK, LocalsOK
<1>3. CASE OnDetections
  <2>1. arrived' = arrived + 1 /\ f # arrived' /\ tried' = tried
    BY <1>1, <1>2, <1>3 DEF OnDetections, workerVars
  <2>2. CASE SendModeUsesHttp(snapshot.send_mode)
    <3>1. Enqueue(arrived')
      BY <1>3, <2>2 DEF OnDetections, EnqueueHttp
    <3>2. QueueFull => Head(queue) # f
      <4>1. QueueFull => 1 \in DOMAIN queue /\ Head(queue) = queue[1]
        BY <1>2, FullNotEmpty, QueueEnds
      <4> QED BY <1>1, <4>1
    <3> QED BY <2>1, <3>1, <3>2 DEF Enqueue, EnqueuedFate
  <2>3. CASE ~SendModeUsesHttp(snapshot.send_mode)
    BY <1>2, <1>3, <2>1, <2>3 DEF OnDetections, KeepLocal, SetFate
  <2> QED BY <2>1, <2>2, <2>3
<1>4. CASE WorkerExit
  BY <1>4 DEF WorkerExit, FinalFates
<1>5. CASE WorkerPop
  <2>1. Head(queue) # f
    <3>1. 1 \in DOMAIN queue /\ Head(queue) = queue[1]
      BY <1>2, <1>5, QueueEnds DEF WorkerPop
    <3> QED BY <1>1, <3>1
  <2> QED BY <1>2, <1>5, <2>1 DEF WorkerPop, SetFate
<1>6. CASE WorkerSkip \/ PostOk \/ PostFails \/ GiveUp
  BY <1>1, <1>2, <1>6
     DEF WorkerSkip, PostOk, PostFails, GiveUp, SetFate, CountAttempt
<1>7. ASSUME NEW u \in Updates, OnParameterChange(u)
      PROVE  UNCHANGED <<fate, tried>>
  BY <1>7 DEF OnParameterChange, httpVars
<1>8. CASE MainStep \/ Shutdown \/ SpuriousWakeup
  BY <1>8 DEF MainStep, NotifyOne, Shutdown, SetStopFlag, NotifyAll, Join,
              SpuriousWakeup, httpVars
<1>9. CASE WorkerWait \/ WorkerCopySnapshot \/ Terminated
  BY <1>9 DEF WorkerWait, WorkerCopySnapshot, Terminated, httpVars, vars
<1> QED BY <1>3, <1>4, <1>5, <1>6, <1>7, <1>8, <1>9
        DEF Next, Environment, WorkerStep

\* What was decided about a payload is never decided again and no POST of it
\* follows: an acknowledged payload is not posted a second time.
THEOREM SettledIsFinal == Spec => SettledStaysSettled
<1> DEFINE Keeps == \A f \in Frames :
              fate[f] \in FinalFates => fate'[f] = fate[f] /\ tried'[f] = tried[f]
<1>1. BaseInv /\ QueueInv /\ [Next]_vars => [Keeps]_vars
  BY SettledStep DEF BaseInv
<1> QED BY <1>1, BaseInvariant, QueueInvariant, PTL DEF Spec, SettledStaysSettled

\* The attempts loop: as long as it runs, no more POSTs were made than it allows.
LoopInv ==
  worker = "posting" => /\ tried[body] <= total
                        /\ snap.http_retry_count >= 0

LEMMA LoopUnchanged ==
  ASSUME LoopInv, UNCHANGED <<tried, body, total, snap>>,
         worker' = "posting" => worker = "posting"
  PROVE  LoopInv'
BY DEF LoopInv

LEMMA LoopStep ==
  BaseInv /\ QueueInv /\ LoopInv /\ [Next]_vars => LoopInv'
<1> SUFFICES ASSUME BaseInv, QueueInv, LoopInv, [Next]_vars PROVE LoopInv'
  OBVIOUS
<1>1. /\ tried \in [Frames -> Nat] /\ total \in Int /\ snapshot \in Snapshots
      /\ worker \in {"popped", "posting"} => body \in Frames
      /\ snapshot.http_retry_count >= 0
  BY DEF BaseInv, TypeOK, LocalsOK, SettingsConsistent, Accepts
<1>2. CASE WorkerCopySnapshot
  <2>1. /\ worker = "popped" /\ tried[body] = 0 /\ tried' = tried /\ body' = body
        /\ snap' = snapshot /\ total' \in TotalAttempts(snapshot)
    BY <1>2 DEF WorkerCopySnapshot, QueueInv, PoppedUntried
  <2>2. snapshot.http_retry_count \in Int
    BY <1>1, SenderAssumption DEF Snapshots
  <2>3. total' >= 1
    BY <1>1, <2>1, <2>2, SenderAssumption DEF TotalAttempts
  <2>4. total' \in Int
    BY <1>1, <2>1, TotalAttemptsTyped
  <2> QED BY <1>1, <2>1, <2>3, <2>4 DEF LoopInv
<1>3. CASE PostFails
  BY <1>1, <1>3 DEF PostFails, CountAttempt, LoopInv
<1>4. CASE WorkerSkip \/ PostOk \/ GiveUp \/ WorkerExit \/ WorkerPop
  BY <1>4 DEF WorkerSkip, PostOk, GiveUp, EndIteration, WorkerExit, WorkerPop,
              LoopInv
<1>5. CASE WorkerWait
  BY <1>5, LoopUnchanged DEF WorkerWait, httpVars
<1>6. CASE OnDetections
  BY <1>6, LoopUnchanged DEF OnDetections, workerVars
<1>7. ASSUME NEW u \in Updates, OnParameterChange(u)
      PROVE  LoopInv'
  BY <1>7, LoopUnchanged
     DEF OnParameterChange, EnsureHttpWorkerStarted, NeedsWorker,
         HttpWorkerStartFails, httpVars
<1>8. CASE MainStep \/ Shutdown \/ SpuriousWakeup
  BY <1>8, LoopUnchanged
     DEF MainStep, NotifyOne, Wake, Shutdown, SetStopFlag, NotifyAll, Join,
         SpuriousWakeup, httpVars
<1>9. CASE UNCHANGED vars
  BY <1>9, LoopUnchanged DEF vars
<1> QED BY <1>2, <1>3, <1>4, <1>5, <1>6, <1>7, <1>8, <1>9
        DEF Next, Environment, WorkerStep, Terminated

LEMMA LoopInvariant == Spec => []LoopInv
<1>1. Init => LoopInv
  BY DEF Init, LoopInv
<1> QED BY <1>1, LoopStep, BaseInvariant, QueueInvariant, PTL DEF Spec

LEMMA RetryStep ==
  ASSUME BaseInv, QueueInv, LoopInv, Next, NEW f \in Frames,
         fate \in [Frames -> Fates]
  PROVE  /\ (fate[f] = "working" /\ fate'[f] = "failed") =>
              AllAttemptsMade(tried[f], snap)
         /\ tried'[f] # tried[f] => tried[f] <= snap.http_retry_count
<1>1. /\ tried \in [Frames -> Nat] /\ total \in Int /\ fate \in [Frames -> Fates]
      /\ worker \in {"popped", "posting"} => body \in Frames
      /\ fate[f] = "working" => f = body
  BY DEF BaseInv, TypeOK, LocalsOK, QueueInv, FramesAccounted
<1>2. ASSUME worker = "posting"
      PROVE  /\ AllAttemptsMade(total, snap)
             /\ total <= snap.http_retry_count + 1
             /\ snap.http_retry_count \in Int
             /\ tried[body] <= total
  <2>1. /\ snap \in Snapshots /\ total \in TotalAttempts(snap)
        /\ tried[body] <= total /\ snap.http_retry_count >= 0
    BY <1>2 DEF BaseInv, LocalsOK, LoopInv
  <2>2. /\ snap.http_retry_count \in Int
        /\ snap.http_retry_count <= Int64Max
    BY <2>1, SenderAssumption DEF Snapshots
  <2> QED BY <2>1, <2>2, SenderAssumption DEF TotalAttempts, AllAttemptsMade
<1>3. CASE GiveUp
  <2>1. worker = "posting" /\ tried[body] >= total /\ tried' = tried
    BY <1>3 DEF GiveUp
  <2>2. tried[body] = total
    BY <1>1, <1>2, <2>1
  <2> QED BY <1>1, <1>2, <2>1, <2>2
<1>4. CASE PostOk \/ PostFails
  <2>1. /\ worker = "posting" /\ tried[body] < total
        /\ \A g \in Frames : g # body => tried'[g] = tried[g]
        /\ fate'[f] = "failed" => fate[f] = "failed"
    BY <1>1, <1>4 DEF PostOk, PostFails, CountAttempt, SetFate
  <2> QED BY <1>1, <1>2, <2>1
<1>5. CASE OnDetections
  <2>1. tried' = tried
    BY <1>5 DEF OnDetections, workerVars
  <2>2. fate'[f] = "failed" => fate[f] = "failed"
    BY <1>1, <1>5 DEF OnDetections, EnqueueHttp, Enqueue, EnqueuedFate,
                      KeepLocal, SetFate
  <2> QED BY <2>1, <2>2
<1>6. CASE WorkerExit \/ WorkerPop \/ WorkerSkip
  <2>1. tried' = tried
    BY <1>6 DEF WorkerExit, WorkerPop, WorkerSkip
  <2>2. fate'[f] = "failed" => fate[f] = "failed"
    BY <1>1, <1>6 DEF WorkerExit, WorkerPop, WorkerSkip, SetFate
  <2> QED BY <2>1, <2>2
<1>7. ASSUME NEW u \in Updates, OnParameterChange(u)
      PROVE  UNCHANGED <<fate, tried>>
  BY <1>7 DEF OnParameterChange, httpVars
<1>8. CASE MainStep \/ Shutdown \/ SpuriousWakeup
  BY <1>8 DEF MainStep, NotifyOne, Shutdown, SetStopFlag, NotifyAll, Join,
              SpuriousWakeup, httpVars
<1>9. CASE WorkerWait \/ WorkerCopySnapshot \/ Terminated
  BY <1>9 DEF WorkerWait, WorkerCopySnapshot, Terminated, httpVars, vars
<1> QED BY <1>3, <1>4, <1>5, <1>6, <1>7, <1>8, <1>9
        DEF Next, Environment, WorkerStep

\* A payload is given up after exactly http_retry_count + 1 POSTs, the count
\* being the one the worker copied, or after one if that sum overflows; it is
\* never posted more often.
THEOREM RetriesHonoured == Spec => RetriesAsConfigured
<1> DEFINE Honoured == \A f \in Frames :
             /\ (fate[f] = "working" /\ fate'[f] = "failed") =>
                  AllAttemptsMade(tried[f], snap)
             /\ tried'[f] # tried[f] => tried[f] <= snap.http_retry_count
<1>1. BaseInv /\ QueueInv /\ LoopInv /\ [Next]_vars => [Honoured]_vars
  BY RetryStep DEF BaseInv, TypeOK
<1> QED BY <1>1, BaseInvariant, QueueInvariant, LoopInvariant, PTL
        DEF Spec, RetriesAsConfigured

-----------------------------------------------------------------------------
(***************************************************************************)
(* The refinement: every step of the two threads is a step of the channel  *)
(* or none.  A payload is in hand from the pop to the end of its loop.     *)
(***************************************************************************)
IdleHandEmpty == worker \notin {"popped", "posting"} => body = 0

LEMMA IdleHandStep == IdleHandEmpty /\ [Next]_vars => IdleHandEmpty'
<1> SUFFICES ASSUME IdleHandEmpty, [Next]_vars PROVE IdleHandEmpty'
  OBVIOUS
<1> USE DEF IdleHandEmpty
<1>1. CASE WorkerStep
  <2>1. CASE WorkerExit \/ WorkerWait \/ WorkerPop \/ WorkerCopySnapshot
             \/ PostFails
    BY <2>1 DEF WorkerExit, WorkerWait, WorkerPop, WorkerCopySnapshot,
                PostFails, httpVars
  <2>2. CASE WorkerSkip \/ PostOk \/ GiveUp
    BY <2>2 DEF WorkerSkip, PostOk, GiveUp, EndIteration
  <2> QED BY <1>1, <2>1, <2>2 DEF WorkerStep
<1>2. CASE OnDetections
  BY <1>2 DEF OnDetections, workerVars
<1>3. ASSUME NEW u \in Updates, OnParameterChange(u)
      PROVE  IdleHandEmpty'
  BY <1>3 DEF OnParameterChange, EnsureHttpWorkerStarted, NeedsWorker,
              HttpWorkerStartFails, httpVars
<1>4. CASE MainStep \/ Shutdown \/ SpuriousWakeup
  BY <1>4 DEF MainStep, NotifyOne, Wake, Shutdown, SetStopFlag, NotifyAll, Join,
              SpuriousWakeup, httpVars
<1>5. CASE UNCHANGED vars
  BY <1>5 DEF vars
<1> QED BY <1>1, <1>2, <1>3, <1>4, <1>5 DEF Next, Environment, Terminated

LEMMA IdleHandInvariant == Spec => []IdleHandEmpty
<1>1. Init => IdleHandEmpty
  BY DEF Init, IdleHandEmpty
<1> QED BY <1>1, IdleHandStep, PTL DEF Spec

\* The mapped history, and the variables the channel sees.
outcomes == [f \in Frames |-> Outcome(fate[f])]

LEMMA SameChannel ==
  ASSUME UNCHANGED <<queue, body, fate, tried, stop_flag>>
  PROVE  UNCHANGED Channel!channelVars
BY DEF Channel!channelVars, Outcome

LEMMA ChannelInit == Init => Channel!Init
<1> SUFFICES ASSUME Init PROVE Channel!Init
  OBVIOUS
<1>1. /\ queue = <<>> /\ body = 0 /\ stop_flag = FALSE
      /\ tried = [f \in Frames |-> 0] /\ fate = [f \in Frames |-> "new"]
  BY DEF Init
<1>2. [f \in Frames |-> Outcome(fate[f])] = [f \in Frames |-> "outside"]
  BY <1>1 DEF Outcome
<1> QED BY <1>1, <1>2 DEF Channel!Init

\* A message in a mode that uses HTTP joins the line, any other passes it by.
LEMMA OnDetectionsChannel ==
  ASSUME TypeOK, ProtocolInv, QueueInv, OnDetections
  PROVE  [Channel!Next]_Channel!channelVars
<1>1. /\ arrived' = arrived + 1 /\ arrived' \in Frames /\ arrived \in Nat
      /\ UNCHANGED <<body, tried, stop_flag>> /\ main = "spin"
      /\ fate \in [Frames -> Fates] /\ queue \in Seq(Frames)
  BY WriterAssumption
     DEF OnDetections, workerVars, TypeOK, WriterTypeOK, Frames
<1>2. /\ \A g \in Frames : fate[g] = "new" <=> g > arrived
      /\ \A g \in Frames : g \in Nat
  BY DEF QueueInv, FramesAccounted, Frames
<1>3. fate[arrived'] = "new"
  BY <1>1, <1>2
<1>4. CASE ~SendModeUsesHttp(snapshot.send_mode)
  <2>1. queue' = queue /\ fate' = [fate EXCEPT ![arrived'] = "local"]
    BY <1>4 DEF OnDetections, KeepLocal, SetFate
  <2>2. \A g \in Frames : Outcome(fate'[g]) = Outcome(fate[g])
    BY <1>1, <1>3, <2>1 DEF Outcome
  <2> QED BY <1>1, <2>1, <2>2 DEF Channel!channelVars
<1>5. CASE SendModeUsesHttp(snapshot.send_mode)
  <2>1. Enqueue(arrived')
    BY <1>5 DEF OnDetections, EnqueueHttp
  <2>2. ~stop_flag
    BY <1>1 DEF ProtocolInv, StopStages
  <2>3. outcomes[arrived'] = "outside"
    BY <1>1, <1>3 DEF outcomes, Outcome
  <2>4. \A g \in Frames : outcomes[g] # "outside" => g < arrived'
    BY <1>1, <1>2 DEF outcomes, Outcome
  <2>5. Channel!Full <=> QueueFull
    BY DEF Channel!Full, QueueFull
  <2>6. queue' = Append(IF Channel!Full THEN Tail(queue) ELSE queue, arrived')
    BY <2>1, <2>5 DEF Enqueue
  <2>7. \A g \in Frames :
           Outcome(fate'[g]) = IF g = arrived' THEN "waiting"
                               ELSE IF QueueFull /\ g = Head(queue)
                                    THEN "dropped"
                               ELSE Outcome(fate[g])
    BY <1>1, <2>1 DEF Enqueue, EnqueuedFate, Outcome
  <2>8. outcomes' = [g \in Frames |->
                       IF g = arrived' THEN "waiting"
                       ELSE IF Channel!Full /\ g = Head(queue) THEN "dropped"
                       ELSE outcomes[g]]
    BY <2>5, <2>7 DEF outcomes
  <2>9. Channel!Accept(arrived')
    BY <1>1, <2>2, <2>3, <2>4, <2>6, <2>8 DEF Channel!Accept, outcomes
  <2> QED BY <1>1, <2>9 DEF Channel!Next
<1> QED BY <1>4, <1>5

\* What an end of the work on a payload does to the mapped variables.
LEMMA SettleChannel ==
  ASSUME fate \in [Frames -> Fates], body \in Frames,
         NEW what \in {"ok", "failed", "skipped"},
         SetFate(body, what), EndIteration, UNCHANGED <<queue, stop_flag>>
  PROVE  Channel!Settle(what)
<1>1. fate' = [fate EXCEPT ![body] = what] /\ body' = 0
  BY DEF SetFate, EndIteration
<1>2. \A g \in Frames : fate'[g] = IF g = body THEN what ELSE fate[g]
  BY <1>1
<1>3. outcomes' = [outcomes EXCEPT ![body] = what]
  BY <1>2 DEF outcomes, Outcome
<1> QED BY <1>1, <1>3 DEF Channel!Settle, outcomes

LEMMA WorkerStepChannel ==
  ASSUME TypeOK, LocalsOK, ProtocolInv, QueueInv, LoopInv, IdleHandEmpty,
         WorkerStep
  PROVE  [Channel!Next]_Channel!channelVars
<1>1. /\ fate \in [Frames -> Fates] /\ tried \in [Frames -> Nat]
      /\ queue \in Seq(Frames)
      /\ worker \in {"popped", "posting"} => body \in Frames
      /\ \A g \in Frames : g # 0
  BY DEF TypeOK, LocalsOK, Frames
<1>2. CASE WorkerExit
  <2>1. /\ stop_flag /\ body = 0 /\ queue' = <<>>
        /\ UNCHANGED <<body, tried, stop_flag>>
        /\ fate' = [f \in Frames |-> IF fate[f] = "queued" THEN "cleared"
                                                          ELSE fate[f]]
    BY <1>2 DEF WorkerExit, IdleHandEmpty, mainOnlyVars
  <2>2. CASE queue = <<>>
    <3>1. \A f \in Frames : fate[f] # "queued"
      BY <2>2 DEF QueueInv, FramesAccounted
    <3>2. fate' = fate
      BY <1>1, <2>1, <3>1
    <3> QED BY <2>1, <2>2, <3>2, SameChannel
  <2>3. CASE queue # <<>>
    <3>1. \A f \in Frames :
            Outcome(fate'[f]) = IF Outcome(fate[f]) = "waiting" THEN "cleared"
                                ELSE Outcome(fate[f])
      BY <1>1, <2>1 DEF Outcome, Fates
    <3>2. outcomes' = [f \in Frames |->
                         IF outcomes[f] = "waiting" THEN "cleared"
                         ELSE outcomes[f]]
      BY <3>1 DEF outcomes
    <3>3. Channel!Discard
      BY <2>1, <2>3, <3>2 DEF Channel!Discard, outcomes
    <3> QED BY <3>3 DEF Channel!Next
  <2> QED BY <2>2, <2>3
<1>3. CASE WorkerWait
  BY <1>3, SameChannel DEF WorkerWait, httpVars, mainOnlyVars
<1>4. CASE WorkerPop
  <2>1. /\ ~stop_flag /\ queue # <<>> /\ body = 0
        /\ body' = Head(queue) /\ queue' = Tail(queue)
        /\ fate' = [fate EXCEPT ![Head(queue)] = "working"]
        /\ UNCHANGED <<tried, stop_flag>>
    BY <1>4 DEF WorkerPop, IdleHandEmpty, SetFate, mainOnlyVars
  <2>2. Head(queue) \in Frames
    BY <1>1, <2>1, QueueEnds
  <2>3. \A g \in Frames :
          fate'[g] = IF g = Head(queue) THEN "working" ELSE fate[g]
    BY <1>1, <2>1, <2>2
  <2>4. outcomes' = [outcomes EXCEPT ![Head(queue)] = "in hand"]
    BY <2>3 DEF outcomes, Outcome
  <2>5. Channel!Take
    BY <2>1, <2>4 DEF Channel!Take, outcomes
  <2> QED BY <2>5 DEF Channel!Next
<1>5. CASE WorkerSkip
  <2>1. /\ worker = "popped" /\ SetFate(body, "skipped") /\ EndIteration
        /\ UNCHANGED <<queue, tried, stop_flag>>
    BY <1>5 DEF WorkerSkip, mainOnlyVars
  <2>2. body \in Frames /\ tried[body] = 0 /\ body # 0
    BY <1>1, <2>1 DEF QueueInv, PoppedUntried
  <2>3. Channel!Skip
    BY <1>1, <2>1, <2>2, SettleChannel DEF Channel!Skip
  <2> QED BY <2>3 DEF Channel!Next
<1>6. CASE WorkerCopySnapshot
  BY <1>6, SameChannel DEF WorkerCopySnapshot, mainOnlyVars
<1>7. CASE PostOk
  <2>1. /\ worker = "posting" /\ SetFate(body, "ok") /\ EndIteration
        /\ CountAttempt /\ UNCHANGED <<queue, stop_flag>>
    BY <1>7 DEF PostOk, mainOnlyVars
  <2>2. body \in Frames /\ body # 0
    BY <1>1, <2>1
  <2>3. Channel!Attempt
    BY <2>1, <2>2 DEF Channel!Attempt, CountAttempt
  <2>4. Channel!Deliver
    BY <1>1, <2>1, <2>2, <2>3, SettleChannel DEF Channel!Deliver
  <2> QED BY <2>4 DEF Channel!Next
<1>8. CASE PostFails
  <2>1. /\ worker = "posting" /\ CountAttempt
        /\ UNCHANGED <<queue, body, fate, stop_flag>>
    BY <1>8 DEF PostFails, mainOnlyVars
  <2>2. body \in Frames /\ body # 0
    BY <1>1, <2>1
  <2>3. outcomes' = outcomes
    BY <2>1 DEF outcomes
  <2>4. Channel!AttemptFails
    BY <2>1, <2>2, <2>3
       DEF Channel!AttemptFails, Channel!Attempt, CountAttempt, outcomes
  <2> QED BY <2>4 DEF Channel!Next
<1>9. CASE GiveUp
  <2>1. /\ worker = "posting" /\ SetFate(body, "failed") /\ EndIteration
        /\ tried[body] >= total /\ UNCHANGED <<queue, tried, stop_flag>>
    BY <1>9 DEF GiveUp, mainOnlyVars
  <2>2. body \in Frames /\ body # 0
    BY <1>1, <2>1
  <2>3. total >= 1 /\ total \in Int
    <3>1. /\ snap \in Snapshots /\ total \in TotalAttempts(snap)
          /\ snap.http_retry_count >= 0
      BY <2>1 DEF LocalsOK, LoopInv
    <3>2. snap.http_retry_count \in Int
      BY <3>1, SenderAssumption DEF Snapshots
    <3> QED BY <3>1, <3>2, SenderAssumption DEF TotalAttempts
  <2>4. tried[body] >= 1
    BY <1>1, <2>1, <2>2, <2>3
  <2>5. Channel!GiveUp
    BY <1>1, <2>1, <2>2, <2>4, SettleChannel DEF Channel!GiveUp
  <2> QED BY <2>5 DEF Channel!Next
<1> QED BY <1>2, <1>3, <1>4, <1>5, <1>6, <1>7, <1>8, <1>9 DEF WorkerStep

LEMMA ChannelStep ==
  ASSUME BaseInv, ProtocolInv, QueueInv, LoopInv, IdleHandEmpty, [Next]_vars
  PROVE  [Channel!Next]_Channel!channelVars
<1>1. TypeOK /\ LocalsOK
  BY DEF BaseInv
<1>2. CASE OnDetections
  BY <1>1, <1>2, OnDetectionsChannel
<1>3. CASE WorkerStep
  BY <1>1, <1>3, WorkerStepChannel
<1>4. ASSUME NEW u \in Updates, OnParameterChange(u)
      PROVE  UNCHANGED <<queue, body, fate, tried, stop_flag>>
  BY <1>4 DEF OnParameterChange, httpVars
<1>5. CASE SetStopFlag
  <2>1. /\ ~stop_flag /\ stop_flag' = TRUE
        /\ UNCHANGED <<queue, body, fate, tried>>
    BY <1>5 DEF SetStopFlag, httpVars, ProtocolInv, StopStages
  <2>2. outcomes' = outcomes
    BY <2>1 DEF outcomes
  <2>3. Channel!Close
    BY <2>1, <2>2 DEF Channel!Close, outcomes
  <2> QED BY <2>3 DEF Channel!Next
<1>6. CASE NotifyOne \/ NotifyAll \/ Join \/ Shutdown
  BY <1>6, SameChannel DEF NotifyOne, NotifyAll, Join, Shutdown, httpVars
<1>7. CASE SpuriousWakeup
  BY <1>7, SameChannel DEF SpuriousWakeup, httpVars, mainOnlyVars
<1>8. CASE UNCHANGED vars
  BY <1>8, SameChannel DEF vars
<1> QED BY <1>2, <1>3, <1>4, <1>5, <1>6, <1>7, <1>8, SameChannel
        DEF Next, Environment, MainStep, Terminated

\* For every queue size, set of modes and number of payloads, the two threads
\* serve the payloads as the channel promises, in all interleavings.
THEOREM ChannelImplemented == Spec => ImplementsChannel
BY ChannelInit, ChannelStep, BaseInvariant, ProtocolInvariant, QueueInvariant,
   LoopInvariant, IdleHandInvariant, PTL
   DEF Spec, ImplementsChannel, Channel!Spec

-----------------------------------------------------------------------------
(***************************************************************************)
(* Saving: the open file is that of the settings, so what the callback     *)
(* appends to it goes where they ask for.                                  *)
(***************************************************************************)
Asked ==
  IF snapshot.save_results THEN Paths \cap {snapshot.result_output_path} ELSE {}

SavedNow ==
  /\ \A p \in Paths \ Asked : files'[p] = files[p]
  /\ snapshot.save_results =>
       \/ \E p \in Asked : files'[p] = files[p] \o <<Line(arrived')>>
       \/ ~enabled' /\ last_error' # "none"

LEMMA OnDetectionsSaves ==
  ASSUME BaseInv, OnDetections
  PROVE  SavedNow
<1>1. /\ enabled => snapshot.save_results /\ out = snapshot.result_output_path
      /\ (snapshot.save_results /\ ~enabled) => last_error # "none"
  BY DEF OnDetections, BaseInv, WriterMatchesSettings, Running
<1>2. /\ enabled <=> out # NoFile
      /\ out \in Paths \cup {NoFile} /\ DOMAIN files = Paths
  BY DEF BaseInv, WriterInv, WriterStable, WriterTypeOK
<1>3. CASE ~snapshot.save_results
  BY <1>3 DEF OnDetections, Save, SavedNow, writerVars
<1>4. CASE snapshot.save_results /\ AppendDisabled
  BY <1>1, <1>2, <1>4 DEF AppendDisabled, SavedNow, writerVars
<1>5. CASE snapshot.save_results /\ enabled /\ ~AppendDisabled
  <2>1. out \in Paths /\ Asked = {out}
    BY <1>1, <1>2, <1>5 DEF Asked
  <2>2. AppendSucceeds(arrived') \/ AppendFails(arrived')
    BY <1>5 DEF OnDetections, Save, AppendPayload
  <2>3. PICK tail : WriteTail(tail) /\ (AppendSucceeds(arrived') => tail = <<Line(arrived')>>)
    BY <2>2 DEF AppendSucceeds, AppendFails
  <2>4. \A p \in Paths \ {out} : files'[p] = files[p]
    BY <1>2, <2>3 DEF WriteTail
  <2>5. CASE AppendSucceeds(arrived')
    BY <1>2, <2>1, <2>3, <2>4, <2>5 DEF WriteTail, SavedNow
  <2>6. CASE AppendFails(arrived')
    BY <2>1, <2>4, <2>6 DEF AppendFails, SavedNow
  <2> QED
    BY <2>2, <2>5, <2>6
<1> QED
  BY <1>3, <1>4, <1>5 DEF OnDetections, Save, AppendPayload, AppendSucceeds, AppendFails

LEMMA OthersReceiveNothing ==
  ASSUME [Next]_vars, ~OnDetections
  PROVE  arrived' = arrived
<1>1. ASSUME NEW u \in Updates, OnParameterChange(u)
      PROVE  arrived' = arrived
  BY <1>1 DEF OnParameterChange
<1>2. CASE MainStep \/ Shutdown
  BY <1>2 DEF MainStep, NotifyOne, SetStopFlag, NotifyAll, Join, Shutdown
<1>3. CASE WorkerStep \/ SpuriousWakeup
  BY <1>3 DEF WorkerStep, WorkerExit, WorkerWait, WorkerPop, WorkerSkip,
              WorkerCopySnapshot, PostOk, PostFails, GiveUp, SpuriousWakeup,
              mainOnlyVars
<1>4. CASE UNCHANGED vars
  BY <1>4 DEF vars
<1> QED
  BY <1>1, <1>2, <1>3, <1>4 DEF Next, Environment, Terminated

\* A detection is saved where the settings of its moment ask for and nowhere
\* else, or the node has an error to report, whatever sequence of updates,
\* failures and modes came before (FR-012).
THEOREM AlwaysSavedAsConfigured == Spec => SavedAsConfigured
<1>1. BaseInv /\ [Next]_vars =>
        [arrived' # arrived =>
           LET asked == IF snapshot.save_results
                        THEN Paths \cap {snapshot.result_output_path} ELSE {}
           IN  /\ \A p \in Paths \ asked : files'[p] = files[p]
               /\ snapshot.save_results =>
                    \/ \E p \in asked : files'[p] = files[p] \o <<Line(arrived')>>
                    \/ ~enabled' /\ last_error' # "none"]_vars
  BY OnDetectionsSaves, OthersReceiveNothing DEF SavedNow, Asked
<1> QED
  BY <1>1, BaseInvariant, PTL DEF Spec, SavedAsConfigured
=============================================================================
