# Verification of the vehicle detection system

TLA+ specifications of the ROS 2 package `src/src/vehicle_detection`, the TLC
configurations that check them and the proofs that TLAPS checks.
`PROJECT.json` relates every definition to the lines of the source it models and
lists the hazards of the code, line by line, with the properties that cover them.

## 1. The system

Four nodes, each a process of its own, and a web page:

```
pcd_loader_node --/input/points--> vehicle_detector_node
   --/vehicle_detections/raw--> detection_sender_node
        --> /vehicle_detections   (ROS topic)
        --> HTTP POST             (worker thread, http_client)
        --> JSON Lines file       (DetectionResultWriter)
parameter_gui.html --HTTP--> parameter_bridge_node --parameter services--> all three
```

| Component | State | Operations | Meets others through | Hard behaviour | What makes it correct |
| --- | --- | --- | --- | --- | --- |
| `DetectionResultWriter` | `enabled_`, `out_`, `last_error_`, the file | `configure`, `append` | called by the sender | failed writes, torn lines, restarts | stable after every call; what it reports is on the disk; files only grow |
| `detection_sender_node` | `snapshot_`, `queue_`, `stop_flag_`, the worker thread | `on_detections`, `on_parameter_change`, the worker loop, the destructor | topic, parameter services, HTTP | two threads, condition variable, stale settings, overflow, shutdown | no lost wake-up, oldest dropped first, settings consistent, every payload settles, shutdown completes |
| `http_client` | one call: addresses, socket, response | `http_post_json`, `parse_http_url` | called by the worker | time-outs, partial sends, lost answers, endless responses | at most one delivery, ok only if delivered, no descriptor left, every call returns |
| `pcd_loader_node` | playlist, `current_index_`, cache, timers | constructor, `tick_publish`, one-shot timer | topic, disk | files that change or break while it runs | never publishes another file than the current one; order; one-shot once |
| `pcd_playlist` | none | `resolve_pcd_playlist`, `wildcard_match` | called by the loader | precedence, backtracking | agrees with a reference definition |
| `vehicle_detector_node` | `snapshot_` | `on_cloud`, `on_parameter_change` | topics, TF | updates between frames, missing transform, NaN | bounds always ordered; outputs of one frame agree |
| `parameter_bridge_node` | HTTP server thread, calls under way | GET and POST `/api/parameters`, start, stop | HTTP, parameter services | concurrent requests, time-outs with late answers, updates accepted in part, shutdown | answers tell the truth about what was set; every request is answered; the node ends |
| `parameter_gui.html` | the cards and edited values, the tasks that await the bridge | `loadAll`, `updateNode`, edits | HTTP | overlapping reloads, failed and late updates, values that no field holds | shows each node once with its current values, sends what was edited, comes to rest |
| `parameter_json` | none | `json_to_parameter_value`, `parameter_to_json` | called by the bridge | numbers that are no int64, NaN | a value is set as it was asked for, or refused |
| `point_cloud_processing` | none | voxel grid, crop, ground, clusters, boxes | called by the detector | conversions to `int`, boxes that lie across | what is detected fits the settings |
| launch file, JSON text, sample data | none | | | | static |

## 2. Modules

| Module | Models | Extends |
| --- | --- | --- |
| `DetectionResultWriter` | `configure()` and `append()`, the files, crashes and restarts | |
| `DetectionSender` | both threads of the sender, its queue, settings and end | `DetectionResultWriter` |
| `DetectionChannel` | abstract: what the sender promises of its payloads; `DetectionSender` implements it | |
| `HttpPost` | abstract: what the sender may rely on when it posts | |
| `HttpClient` | `http_post_json`, the connections and the receivers, that of `tools/receive_detections.py` among them; implements `HttpPost` | |
| `PcdLoader` | the loader's constructor, playlist, cache and timers, with files changing under it | |
| `WildcardMatch` | the loop of `wildcard_match`, one iteration a step, and a reference definition of matching | |
| `PointCloudProcessing` | the functions from a cloud to its boxes, as operators on sets of points | |
| `VehicleDetector` | settings, frames and outputs of the detector, start and end | `PointCloudProcessing` |
| `ParameterJson` | from JSON values to values of parameters | |
| `ParameterBridge` | the handlers of the bridge in front of the detector, rclcpp's parameter services, the server thread and `main()` | `VehicleDetector`, `ParameterJson` |
| `ParameterPage` | the page in a browser, in front of what `ParameterBridge` shows of the bridge | `ParameterJson` |
| `MC...` | values of the constants for the TLC runs | |
| `...Proofs` | theorems and proofs | the component, `TLAPS` |

### How state and actions correspond to the code

**Atomicity.** A step is what no other thread or process can see the middle of:
a critical section, a callback up to its next publication or hand-over, one
system call, one service call. All nodes but the bridge spin a single-threaded
executor, so their callbacks never overlap; they are one step unless something
outside can come in between (the sender's `enqueue_http`, which pushes under the
lock and notifies after it; the publications of a frame).

**DetectionResultWriter.** `enabled`, `out`, `last_error` are the members;
`disk` holds, for each file, its whole lines and a possible torn tail.
`Configure` and `AppendPayload` are the two member functions with all their
early returns; a write may fail with any part of the line gone out. `Restart` is
a new process, `CrashInAppend` one that dies between `<<` and `flush`.

**DetectionSender.** `snapshot`, `queue`, `stop_flag` are the members, `body`,
`snap` and the number of attempts the locals of `http_worker_loop`; `main` and
`worker` say where the two threads are. `OnDetections` and `OnParameterChange`
are the two callbacks (the latter with the start of the worker and the
reconfiguration of the writer), `SetStopFlag`, `NotifyAll` and `Join` the
destructor, `WorkerWait`, `WorkerPop`, `WorkerCopySnapshot`, `PostOk`,
`PostFails`, `GiveUp`, `WorkerSkip` and `WorkerExit` the loop. `SpuriousWakeup`
is the condition variable's. `fate` and `tried` are histories. Integers that may
reach the largest int64 wrap at `Int64Max`.

**DetectionChannel.** Payloads are accepted in order, taken one at a time and
settled: posted, given up after the attempts, skipped, or discarded when the node
ends; the oldest is lost, and only when the channel is full. The mapping
(`Channel` in `DetectionSender`) takes `queue` as the line, the worker's `body` as
the payload in hand, the `fate` of each payload, with the steps that pass only
inside the node merged (`Outcome`), as its outcome, `tried` as its posts, and a
`stop_flag` not yet set as the channel being open.

**HttpClient.** `pc` is the place in `http_post_json`, `open` counts the
descriptors of the process. Requests and responses are counted in units.
`ConnectFails` is any way `connect_with_timeout` fails, `Send`/`Recv` a system
call that takes or returns a part, `SendFails`/`RecvFails` an error or time-out,
which may come at any wait. A receiver reads what is in the buffers even when the
client has gone: a call that failed may still deliver.

**PcdLoader.** A path is a number in the order `std::sort` gives the paths, a
cloud the version of the file it was read from; `Sorted` is the sequence that
`std::sort` makes of a set of paths. `EnforceParameters` is the part
of the constructor that resolves the playlist, `EagerLoad` the first
`load_index`; `PublishOnce` and `TickPublish` are the timer callbacks, whole.
`ChangeFile` is the environment. `round` and `skipped` are histories.

**WildcardMatch.** The variables are `p`, `t`, `star` and `match` of the function; the
branches of its loop are the actions.

**PointCloudProcessing.** Coordinates are whole numbers. What PCL computes is
given by its result: each voxel becomes the centroid of its points, the clusters
are the smallest parts of the cloud that no other point is near to. RANSAC may
find any level plane or none; a tilt, of which the code allows 15 degrees, is
left out. `ClusterSize` is the cast to `int` and to PCL's unsigned type.

**VehicleDetector.** Fourteen parameters: the region along x stands for the three
axes, which the code treats alike.
Comparisons with NaN are false, as in C++. A frame is `ProcessCloud` (from the
cloud to the cluster markers), `PublishDetections`, `PublishMarkers`, or
`DropCloud` when no transform is found. The shown markers are what a viewer
holds after DELETEALL and ADD; a box is the cluster it is drawn around, numbered
in any order.

**ParameterJson.** A JSON value is its kind and its content; doubles are counted
in parts of 1.0, so that there are fractions. Where the code throws,
`Convertible` is false.

**ParameterBridge.** A handler goes through `wait_service`, then `describe` and
`set` for a POST, or `list`, `get` and `describe_get` for a GET. `calls` are the
service calls under way, `call` the one the detector serves, one parameter at a
time. `future` is the handler's: an answer that comes after the handler has
returned finds none. Once `spin` has
returned no future is completed any more. The detector's frames are not taken
here: they change nothing that the bridge sees and a busy detector only delays a
call. `InOrder` is the order in which nlohmann::json goes through the keys of an
object, for any order of the names (`NameOrder`). Two simplifications follow rclcpp, which is not part of the source: a
service takes its calls in order, and `describe_parameters` with a name that is
not declared gives an empty answer.

**ParameterPage.** What a handler does between two awaits is one action.
`loads` are the calls of `loadAll` that await the bridge, each with what
`snapshot_node` has read for it; `updates` those of `updateNode`, each with its
card while that is on the page. `BeginLoad` empties the page, `LoadAnswered`
appends a card for each node, whatever is there. `UpdateNode` is the click,
`UpdateAnswered` the answer and the reload that begins in the same turn,
`UpdateFailed` an error or a time-out, after which the bridge may still set
what it has not set yet (`SetOne`). `shown`, `field` and `original` are the
cards, their inputs and `data-original`; `edited`, `told` and `overlapped` are
histories. The inputs of read-only parameters are disabled, as those of the QoS
overrides are that rclcpp declares; a text input takes line breaks out
(`OneLine`).

## 3. Runs

| Run | Instance | Shows |
| --- | --- | --- |
| `writer` | 2 files, 3 frames | the writer stays stable, reports what is on the disk in order, never truncates |
| `sender_settings` | all kinds of updates, valid and not; 2 payloads, queue of 1; fair | settings and worker's copy are consistent, retries as configured (the largest int64 among them), no end without the worker's, every payload settles, shutdown completes |
| `sender_queue` | 5 payloads, queue of 2, changing modes | `DetectionSender` implements `DetectionChannel`; accounting and wake-ups |
| `sender_writer` | 2 files, 2 payloads, all modes | the open file is that of the settings; each detection adds its whole line to that file and no other, or leaves an error |
| `http` | 2 calls, 2 addresses, request of 2 units, response cut behind 3 | `HttpClient` implements `HttpPost`, descriptors are closed |
| `loader` | 3 files in 2 versions, every source of the playlist, loop and one-shot; fair | cache and order, every entry gets its turn, one-shot, no unreadable file holds up the others |
| `wildcard` | all patterns up to 4, names up to 5 characters | the matcher ends and agrees with the reference |
| `detector` | 2 clouds, of a car across the region, its ground and a point outside, and of a thing too high for a car; accepted and refused values, NaN, sizes beyond an `int` | settings sound, boxes of one frame, detections that fit its settings |
| `bridge` | 2 requests of 7 contents; fair | truthful answers with the values that were asked for, errors set nothing, every request answered, the bridge ends, but for the stop that comes before the server listens |
| `page` | 2 nodes with a list, a double and a read-only text, 2 loads and 1 update under way at a time; fair | a lone reload shows current values, only edits are sent, "loading..." ends, buttons come back |
| `writer_torn_line` | 1 file, 3 frames | **violated**: see findings |
| `wildcard_star_name` | names that contain `*` | **violated** |

Every property of a passing run has a mutant: a slip a programmer could make,
defined next to the operator it replaces, that TLC finds with the same
configuration.

### Bounds

- *Frames, payloads, calls, requests.* Each history needs as many as its longest
  story: a queue of two overflows with a third payload, a fourth and fifth give
  a second overflow and one after a pop. Three frames let a file be written,
  torn and written again. Two calls give a retry, two requests overlap, and a
  third would only wait in the same queues.
- *Values.* One value on either side of each check, and NaN; two URLs, files or
  versions where one must not be mistaken for the other; both codes next to 200
  and 300.
- *Response and request units.* Two units distinguish nothing, a part and all;
  the response limit lies between a complete status line and an endless answer.
- *Patterns.* Four characters hold two stars with text around them, which is the
  least that makes the matcher backtrack to the second and never to the first.
- *Clouds.* Five points: three in a row across the region, which is the least
  that tells length from extent along x, one of the ground and one outside. Two
  points above one another make a cluster that only its height excludes.
- *Page.* Two loads overlap, and a click can come while each is read or answered;
  the number of them is not bounded. One update is enough to be answered in the
  middle of a reload. The list holds an empty name and one with a comma. The
  text with a line break is the read-only one, which must not be sent although
  its field differs; one that can be set would double the updates, and what is
  sent of it is proved (`OnlyEditedAlwaysSent`).
- `Int64Max` and `IntRange` are small so that they are exceeded; nothing else is computed near them.
- In `bridge`, one other client sets one parameter to NaN, and a detector that
  restarts falls back to its file. The order of the JSON keys is fixed, as
  nlohmann::json keeps them sorted: `roi_max_x` comes before `roi_min_x`.

### Fairness

- Sender (`FairSpec`): each thread is scheduled when it can run; a POST returns,
  which `HttpClient` shows. Nothing is asked of callers or receivers.
- `HttpClient`: the thread is scheduled and a wait ends with its time-out
  (`select`, `SO_SNDTIMEO`, `SO_RCVTIMEO` are all set). Receivers owe nothing.
- Loader: the executor keeps firing timers while it spins. The disk owes
  nothing; `PlaylistLoops` asks only that the file in question stays readable.
- Bridge: its own threads are scheduled and waits end with
  `service_timeout_ms`. The detector owes nothing, it need not even be there.
- Page: every request ends, by the bridge's answer (`EveryRequestAnswered`) or
  by a broken connection. The user owes nothing. `fetch` has no time-out of its
  own: a host that vanishes without a word is left to TCP.

## 4. Proofs

TLAPS proves the following for every value of the constants.

| Module | Theorems | Along |
| --- | --- | --- |
| `DetectionResultWriterProofs` | `WriterTyped`, `WriterAlwaysStable`, `ReportedIsWritten`, `FilesOnlyGrow` | an invariant that ties the members to the file and to the history of reports; a failed write must leave the writer disabled, or the next report would not be a whole line |
| `DetectionSenderProofs` | `Typed`, `SettingsStayConsistent`, `WriterFollowsSettings`, `WakeupsNeverLost`, `QueueAlwaysServed`, `WorkerJoined`, `QueueStaysBounded`, `OldestLeaveFirst`, `FramesStayAccounted`, `SettledIsFinal`, `RetriesHonoured`, `AlwaysSavedAsConfigured`, `ChannelImplemented` | four layers, each using the ones below: types and settings, then the protocol of flag, wait and notify, then the queue against the histories, then the loop's counters. With them every step maps to one of `DetectionChannel` or a stutter |
| `HttpClientProofs` | `Typed`, `DescriptorsClosed`, `DeliversAtMostOnce` | only the call at work is posting and only calls that began have a connection; the payload is handled with the last unit of the request, and no 2xx comes before. The second part is what makes "ok" imply "delivered" |
| `WildcardMatchProofs` | `IndicesInRange`, `MatcherSound`, `MatcherComplete` | what lies before the last star matches what lies before its mark; a longer match of an earlier star can be traded for one of the last, so backtracking to the last is enough |
| `VehicleDetectorProofs` | `Typed`, `SettingsAlwaysSound`, `BoxesAlwaysMatch`, `DetectionsAlwaysFit` | the settings always passed the checks (so the comparisons can be read backwards, but for NaN), and half a frame on the screen is of the frame at work. For the geometry: a cluster is a part of the cropped cloud that no other point is near to, and the length and width the detector tests are the larger and the smaller extent, which the receivers compute again |
| `PcdLoaderProofs` | `Typed`, `CacheAlwaysMatches`, `RoundsInOrder`, `TurnsAlwaysAccounted`, `DirectoriesInOrder` | the four invariants of the run are inductive together with `Stages`: how far the constructor and the timers have come, and that a timer runs only on a playlist that was resolved. `SortedEnumerates` shows by ranks that a finite set of paths can be sorted at all |
| `ParameterBridgeProofs` | `BridgeTyped`, `AnswersAlwaysTruthful`, `ErrorsNeverSet`, `SettingsSoundThroughBridge` | see below |
| `ParameterPageProofs` | `LoneReloadAlwaysCurrent`, `OnlyEditedAlwaysSent` | while the last load overlapped with no other there is one load at most, the page is empty as long as it reads, and what it has read is what the nodes hold, but for what was set meanwhile by someone the page had no answer from (`OneLoad`, `ReadsCurrent`, `PageCurrent`); for the second theorem see below |

**The bridge.** That an answer is truthful is decided long before it is given.
`BridgeInv` says of each call under way that either its handler still waits for
it, in the phase of that call, or the handler has answered, and with 504 "during
set" if the call was `set_parameters` (`CallOK`); no handler has two calls under
way (`OneCall`). `Progress` follows `set_parameters` name by name: results and
names still to set make up `to_set_names`, in its order, and the parameters set so
far are those with a result of true. This is what makes it right to match results
with names by their index. `HandlerOK` says that nothing has been set for a
handler before it has called `set_parameters`, `AnswerOK` carries the two
properties through later steps. A call whose handler gave up may still set
parameters: then its answer was the 504 that promises nothing. `ConvertedAsAsked` shows
that a value that converts is set as it was asked for. The settings of the detector are
sound by its own invariant, which the module takes from `VehicleDetectorProofs`:
every step of the bridge is one of `SetParameter`, of its start or its stop, or
leaves it alone.

**The page.** `PageTyped` follows the types of values from the nodes through the
answers, the cards and the fields to the bodies of updates and back, since other
clients and the bridge set what the next card is made of, and says that a field
that was not edited holds what `InputForParameter` made of its card's value.
`RoundTrip` shows that `readInput` gives that value back, unless it is one of
`Unshowable`: a null, a text with line breaks, or a list with an element that a
comma-separated line does not return. So `collectChanged` finds a difference only
in an edited field. The text of a list is a function that is recursive in the number of elements
(`JoinedTexts`). What it is for every list is shown without the library's induction
theorems: `Least` gives the smallest number of elements for which a claim
about it would fail, and the step before that one contradicts it (`JoinExists`,
`JoinedTyped`, `JoinedSingles`).

Assumptions are those named in the modules (`...Assumption`): types of the
constants, at least one place in the queue, names that are distinct. Some are
there for the proofs: files and clouds are finite sets; `NameOrder` holds every
name once; a body's numbers are numbers, and one that converts gives a value of
the parameter's type; the nodes start with a value for each parameter they
declare, lists hold elements of their type, also those that other clients set or the
user types in, `Pieces` says of every text that occurs what is left of it
between commas, `OneLine` changes the texts it takes line breaks from, and no one
sets what is read-only. TLC evaluates all of them on the instances.

`RetriesHonoured` holds of every count; of the largest int64 it claims no more
than one attempt (see the findings). `DeliversAtMostOnce` is the safety part of
`KeepsPromise`; that calls return is model-checked. `AlwaysSavedAsConfigured`
rests on `WriterFollowsSettings`: an open writer holds the file the settings
name, so the line goes there, and a writer that is off although the settings ask
for it has kept its error.

Only model-checked is liveness, which is out of the prover's reach:
`EveryPayloadSettles`, `ShutdownCompletes`, `OnceDelivered`, `PlaylistLoops`,
`Terminates`, `EveryRequestAnswered`, `StopCompletes`, `LoadingEnds`,
`ButtonsComeBack` and the returns in `KeepsPromise`.

## 5. Findings

- `writer_torn_line`: a write that fails half-way leaves a fragment; after a
  reconfiguration or restart `append()` continues that line and reports the frame
  as written, in a file that is meant to be parseable line by line.
- `wildcard_star_name`: a `*` in a file name is compared with the `*` of the
  pattern before the star is recognised and uses it up.

Observations without a run:

- The checks accept every `http_retry_count >= 0`
  (`docs/vehicle_detection_design.md:281`), the worker computes
  `http_retry_count + 1`. For the largest int64 this overflows; with wrapping one
  attempt is made, which `RetriesAsConfigured` allows for that value alone.
- `cluster_min_size` and `cluster_max_size` are checked as int64 and cut down to
  `int`. With both at 2^32 + 1 every single point is a cluster and every larger
  one is dropped, against their definition
  (`docs/vehicle_detection_requirements.md:417-418`). `DetectionsFitSettings`
  without its exemption fails with the steps that set both.
- Of two loads that overlap (a second click on Reload, or Reload during an
  update, whose answer starts a load), each empties the page first and appends
  its cards later: every node is then on the page twice, with the values from
  before the update on one of the cards, although the page is to read the
  current values again (`docs/vehicle_detection_requirements.md:590`).
  `PageShowsCurrentValues`, which is `LoneReloadShowsCurrentValues` without its
  exemption, fails with these steps.
- The page's messages on an update, "partial: ... rejected ..." among them, are
  replaced by "loading..." in the same turn of the browser: the user never sees
  which parameters were rejected and why.
- A reload drops what was typed in other cards. A NaN is shown as 0, and an
  update of another field sends that 0; so with list elements that are empty or
  contain a comma, and with line breaks, which a text input takes out. A number field that was emptied sends 0.
- `docs/vehicle_detection_design.md:425` asks for a select for `send_mode`; the
  page has a text field.
- `docs/vehicle_detection_design.md:249-250` calls `bbox.size.x` the length; the
  detector publishes the extents along x and y and the sender sorts them.
- `format_double` of `detection_json` writes to 32 bytes with `%.6f`: a finite
  number of 32 or more characters, from about 1e31, loses its last digits and
  so its magnitude.
- `http_auth_type` is not checked by `on_parameter_change`, although
  `docs/vehicle_detection_design.md:282` allows `none` only.
- The attempts of one payload go on with the settings copied for it, also when
  the mode is switched or the node is stopped; `Join` waits for them.
- A bridge stopped before its server has begun to listen waits for ever
  (`stop_server` tests `is_running()`). `StopCompletes` allows this state, `join`
  with a server that listens, and no other in which the bridge does not end.
- `host` and `gui_port` of the bridge, and the topic names of the detector, are
  read once. A later `ros2 param set` is accepted and has no effect, although
  `README.md:191` of the repository names it as a way to set `host`.
- A POST of new bounds is set one name after the other in the order of the keys,
  so a region moved past its old upper or lower end is refused in part. The
  answer says so (`AnswersTruthful`).
- The response is parsed when it has been read to its end: after a complete 2xx
  answer on a connection that the server keeps open, `recv` runs into its
  time-out, and the call counts as a failure and is repeated. `HttpPost` therefore promises nothing for a call that failed.

## 6. Not modelled

- *JSON text* (`detection_json`): formatting only; no other part reads it.
- Of the validators, `validate_existing_file` and `validate_double_range`, which
  no node calls.
- Numbers beyond 2^53, which a browser rounds; `byte_array` parameters.
- *Launch file*: a static description.
- *ROS middleware*: topics are not queued between the nodes yet; a callback takes
  any next message.
- `parse_http_url` is a function from texts to targets or a failure.

## 7. Plan

Done: writer, sender and its channel, HTTP client and its promise, loader,
matcher, detector with its geometry, bridge, JSON conversions, page; proofs of
all of them. Every invariant and action property that a passing run checks is
proved.

Next, in this order:

1. `Pipeline`: loader, detector and sender joined by topics that keep the last
   message or the last ten; each detection comes from the clouds in order, and
   what is lost is lost between two nodes only.
2. Action properties of the bridge and the page that their invariants give for
   little more: an answer is final, an update never sends to another node than
   that of its card.
