----------------------------- MODULE PcdLoader -----------------------------
(***************************************************************************)
(* pcd_loader_node.cpp and resolve_pcd_playlist of pcd_playlist.cpp: the   *)
(* playlist is resolved once, its first entry loaded before the node runs, *)
(* and each tick of a wall timer loads and publishes the next entry, or a  *)
(* one-shot timer publishes the first one once.  Files change on the disk  *)
(* at any time.                                                            *)
(*                                                                         *)
(* A path is a number, in the order in which std::sort puts the paths.  A  *)
(* cloud is the version of a file's content; the node runs one thread, so  *)
(* a timer callback is one step.                                           *)
(***************************************************************************)
EXTENDS Integers, Sequences, FiniteSets

CONSTANTS
  Files,         \* the paths of files, numbers
  NoPath,        \* the path ""
  Directories,   \* the texts of pcd_directory
  Listing,       \* the paths in each directory, or NoDirectory
  NoDirectory,
  Matched,       \* the paths whose file name pcd_glob matches (WildcardMatch)
  Clouds,        \* versions of a readable file
  NoCloud,       \* cached_msg_ that is empty
  Configs        \* the parameter files the node may be started with

NoIndex == -1

\* What a path can lead to besides a readable file.
Faults == {"corrupt", "missing", "directory"}

ASSUME LoaderAssumption ==
  /\ Files \subseteq Nat /\ IsFiniteSet(Files)
  /\ NoPath \notin Files
  /\ NoPath \notin Directories
  /\ Listing \in [Directories -> (SUBSET Files) \cup {NoDirectory}]
  /\ Matched \subseteq Files
  /\ Clouds \cap Faults = {}
  /\ NoCloud \notin [path : Files, cloud : Clouds]
  /\ \A c \in Configs :
       /\ c.pcd_file \in Files \cup {NoPath}
       /\ c.pcd_files \in Seq(Files \cup {NoPath})
       /\ c.pcd_directory \in Directories \cup {NoPath}
       /\ {c.loop, c.publish_once, c.others_valid} \subseteq BOOLEAN

VARIABLES
  disk,           \* what each path leads to now
  config,         \* the parameters, read once by the constructor
  node,           \* "resolve", "load", "run", "failed" or "stopped"
  playlist,       \* playlist_
  current_index,  \* current_index_
  cached_index,   \* cached_index_, or NoIndex
  cached_msg,     \* cached_msg_, with the path it was read from
  timer,          \* timer_: "none", "armed" or "cancelled"
  one_shot_timer, \* one_shot_timer_: the same
  round,          \* history: what was published since the playlist last began
  skipped         \* history: the indices whose turn published nothing

cacheVars == <<cached_index, cached_msg>>
vars == <<disk, config, node, playlist, current_index, cacheVars, timer,
          one_shot_timer, round, skipped>>

Messages == [path : Files, cloud : Clouds]
Size == Len(playlist)
Entry(idx) == playlist[idx + 1]

-----------------------------------------------------------------------------
(***************************************************************************)
(* resolve_pcd_playlist.  The empty sequence stands for a failure: a list  *)
(* that is resolved is never empty.                                        *)
(***************************************************************************)

\* ensure_regular_file
IsEntry(path) == path # NoPath /\ disk[path] \notin {"missing", "directory"}

FromFiles(files) ==
  IF \A i \in DOMAIN files : IsEntry(files[i]) THEN files ELSE <<>>

\* std::sort
Ascending(paths) == \A i, j \in DOMAIN paths : i < j => paths[i] < paths[j]
Sorted(paths) == CHOOSE s \in [1 .. Cardinality(paths) -> paths] : Ascending(s)

FromDirectory(dir) ==
  IF Listing[dir] = NoDirectory
  THEN <<>>
  ELSE Sorted({f \in Listing[dir] : IsEntry(f) /\ f \in Matched})

FromFile(file) == IF IsEntry(file) THEN <<file>> ELSE <<>>

ResolvePcdPlaylist ==
  IF config.pcd_files # <<>> THEN FromFiles(config.pcd_files)
  ELSE IF config.pcd_directory # NoPath THEN FromDirectory(config.pcd_directory)
  ELSE FromFile(config.pcd_file)

-----------------------------------------------------------------------------
(***************************************************************************)
(* Loading and publishing                                                  *)
(***************************************************************************)
Cached(idx) == cached_index = idx /\ cached_msg # NoCloud

\* Slip: the cloud that was cached before stays when the load fails.
FailureKeepsCache(idx) ==
  IF Cached(idx) \/ disk[Entry(idx)] \notin Clouds
  THEN UNCHANGED cacheVars
  ELSE /\ cached_index' = idx
       /\ cached_msg' = [path |-> Entry(idx), cloud |-> disk[Entry(idx)]]

\* Slip: only the message is dropped when the load fails.
FailureKeepsIndex(idx) ==
  IF Cached(idx) THEN UNCHANGED cacheVars
  ELSE /\ cached_index' = idx
       /\ cached_msg' = IF disk[Entry(idx)] \in Clouds
                        THEN [path |-> Entry(idx), cloud |-> disk[Entry(idx)]]
                        ELSE NoCloud

\* Slip: what loadPCDFile returned is not looked at.
LoadUnchecked(idx) ==
  IF Cached(idx) THEN UNCHANGED cacheVars
  ELSE /\ cached_index' = idx
       /\ cached_msg' = [path |-> Entry(idx), cloud |-> disk[Entry(idx)]]

\* load_index(idx), for an index within the playlist.
LoadIndex(idx) ==
  IF Cached(idx) THEN UNCHANGED cacheVars
  ELSE IF disk[Entry(idx)] \in Clouds
  THEN /\ cached_index' = idx
       /\ cached_msg' = [path |-> Entry(idx), cloud |-> disk[Entry(idx)]]
  ELSE /\ cached_index' = NoIndex
       /\ cached_msg' = NoCloud

\* publish_cached in the turn of an index, after what the histories hold.
PublishCached(idx, sent, passed) ==
  IF cached_msg' # NoCloud
  THEN /\ round' = Append(sent, [index |-> idx, msg |-> cached_msg'])
       /\ skipped' = passed
  ELSE /\ round' = sent
       /\ skipped' = passed \cup {idx}

-----------------------------------------------------------------------------
(***************************************************************************)
(* The constructor                                                         *)
(***************************************************************************)

\* enforce_parameters: the texts and the rate, then the playlist.
EnforceParameters ==
  /\ node = "resolve"
  /\ IF config.others_valid /\ ResolvePcdPlaylist # <<>>
     THEN node' = "load" /\ playlist' = ResolvePcdPlaylist
     ELSE node' = "failed" /\ UNCHANGED playlist
  /\ UNCHANGED <<disk, config, current_index, cacheVars, timer,
                 one_shot_timer, round, skipped>>

\* Slip: the constructor does not look at what the eager load gave.
EagerLoadUnchecked ==
  /\ node = "load"
  /\ LoadIndex(0)
  /\ node' = "run"
  /\ timer' = IF config.publish_once THEN "none" ELSE "armed"
  /\ one_shot_timer' = IF config.publish_once THEN "armed" ELSE "none"
  /\ UNCHANGED <<disk, config, playlist, current_index, round, skipped>>

\* The eager load of the first entry, and the timer.
EagerLoad ==
  /\ node = "load"
  /\ LoadIndex(0)
  /\ IF cached_msg' = NoCloud
     THEN node' = "failed" /\ UNCHANGED <<timer, one_shot_timer>>
     ELSE /\ node' = "run"
          /\ timer' = IF config.publish_once THEN "none" ELSE "armed"
          /\ one_shot_timer' = IF config.publish_once THEN "armed" ELSE "none"
  /\ UNCHANGED <<disk, config, playlist, current_index, round, skipped>>

-----------------------------------------------------------------------------
(***************************************************************************)
(* The timers                                                              *)
(***************************************************************************)

\* Slip: the file is read again instead of the cache.
OneShotReads ==
  /\ node = "run" /\ one_shot_timer = "armed"
  /\ one_shot_timer' = "cancelled"
  /\ cached_index' = 0
  /\ cached_msg' = IF disk[Entry(0)] \in Clouds
                   THEN [path |-> Entry(0), cloud |-> disk[Entry(0)]]
                   ELSE NoCloud
  /\ PublishCached(0, round, skipped)
  /\ UNCHANGED <<disk, config, node, playlist, current_index, timer>>

PublishOnce ==
  /\ node = "run" /\ one_shot_timer = "armed"
  /\ one_shot_timer' = "cancelled"
  /\ LoadIndex(0)
  /\ PublishCached(0, round, skipped)
  /\ UNCHANGED <<disk, config, node, playlist, current_index, timer>>

\* Slip: the index is compared with the last one, not with the size.
AdvanceOneShort ==
  /\ current_index' = IF current_index + 1 >= Size - 1 /\ config.loop
                      THEN 0 ELSE current_index + 1
  /\ timer' = IF current_index + 1 >= Size - 1 /\ ~config.loop
              THEN "cancelled" ELSE timer

Advance ==
  LET next == current_index + 1
      ended == next >= Size
  IN  /\ current_index' = IF ended /\ config.loop THEN 0 ELSE next
      /\ timer' = IF ended /\ ~config.loop THEN "cancelled" ELSE timer

\* The histories start again with the playlist.
PublishTurn ==
  IF current_index = 0
  THEN PublishCached(0, <<>>, {})
  ELSE PublishCached(current_index, round, skipped)

\* Slip: a file that cannot be loaded holds up the playlist.
TickWaitsForFile ==
  /\ node = "run" /\ timer = "armed"
  /\ current_index < Size
  /\ LoadIndex(current_index)
  /\ PublishTurn
  /\ IF cached_msg' # NoCloud THEN Advance ELSE UNCHANGED <<current_index, timer>>
  /\ UNCHANGED <<disk, config, node, playlist, one_shot_timer>>

TickPublish ==
  /\ node = "run" /\ timer = "armed"
  /\ current_index < Size
  /\ LoadIndex(current_index)
  /\ PublishTurn
  /\ Advance
  /\ UNCHANGED <<disk, config, node, playlist, one_shot_timer>>

-----------------------------------------------------------------------------
\* Files are replaced, broken, removed and put back.
ChangeFile(path, content) ==
  /\ node \notin {"failed", "stopped"}
  /\ disk[path] # content
  /\ disk' = [disk EXCEPT ![path] = content]
  /\ UNCHANGED <<config, node, playlist, current_index, cacheVars, timer,
                 one_shot_timer, round, skipped>>

\* spin() ends and the node is destroyed with its timers.
Stop ==
  /\ node = "run"
  /\ node' = "stopped"
  /\ UNCHANGED <<disk, config, playlist, current_index, cacheVars, timer,
                 one_shot_timer, round, skipped>>

Terminated == node \in {"failed", "stopped"} /\ UNCHANGED vars

Init ==
  /\ disk \in [Files -> Clouds \cup Faults]
  /\ config \in Configs
  /\ node = "resolve"
  /\ playlist = <<>>
  /\ current_index = 0
  /\ cached_index = NoIndex
  /\ cached_msg = NoCloud
  /\ timer = "none" /\ one_shot_timer = "none"
  /\ round = <<>> /\ skipped = {}

NodeStep == EnforceParameters \/ EagerLoad \/ PublishOnce \/ TickPublish

Next ==
  \/ NodeStep
  \/ \E path \in Files, content \in Clouds \cup Faults : ChangeFile(path, content)
  \/ Stop
  \/ Terminated

Spec == Init /\ [][Next]_vars

\* Timers keep firing while the node spins.
FairSpec == Spec /\ WF_vars(NodeStep)

-----------------------------------------------------------------------------
(***************************************************************************)
(* Properties                                                              *)
(***************************************************************************)
TypeOK ==
  /\ disk \in [Files -> Clouds \cup Faults]
  /\ config \in Configs
  /\ node \in {"resolve", "load", "run", "failed", "stopped"}
  /\ playlist \in Seq(Files)
  /\ current_index \in 0 .. Size
  /\ cached_index \in NoIndex .. Size - 1
  /\ cached_msg \in Messages \cup {NoCloud}
  /\ timer \in {"none", "armed", "cancelled"}
  /\ one_shot_timer \in {"none", "armed", "cancelled"}
  /\ round \in Seq([index : Nat, msg : Messages])
  /\ skipped \subseteq Nat

\* A cached cloud is that of the entry it is filed under, so no turn publishes
\* another file's points under its own.
CacheMatchesEntry ==
  IF cached_index = NoIndex
  THEN cached_msg = NoCloud
  ELSE cached_msg # NoCloud /\ cached_msg.path = Entry(cached_index)

\* One pass over the playlist publishes its entries in their order, each at
\* most once and each from its own file.
RoundInOrder ==
  \A i \in DOMAIN round :
    /\ round[i].index \in 0 .. Size - 1
    /\ round[i].msg.path = Entry(round[i].index)
    /\ \A j \in DOMAIN round : i < j => round[i].index < round[j].index

\* Every entry whose turn has come was published or skipped because it could
\* not be read; the playlist begins again with loop = true only, and the timer
\* stops without it, behind the last entry and not before.
TurnsAccounted ==
  LET passed == {round[i].index : i \in DOMAIN round} \cup skipped
  IN  timer \in {"armed", "cancelled"} =>
        /\ passed = IF config.loop /\ current_index = 0 /\ passed # {} THEN 0 .. Size - 1
                    ELSE 0 .. current_index - 1
        /\ timer = "cancelled" <=> current_index = Size

\* publish_once: the one message comes, although the file may be gone by then;
\* RoundInOrder allows no second one.
OnceDelivered ==
  (node = "run" /\ config.publish_once) ~> (Len(round) = 1 \/ node = "stopped")

\* With loop every entry that stays readable is published again and again,
\* whatever happens to the others.
PlaylistLoops ==
  \A f \in Files :
    (/\ <>[](disk[f] \in Clouds)
     /\ <>[](/\ node = "run" /\ config.loop /\ ~config.publish_once
             /\ f \in {playlist[i] : i \in DOMAIN playlist}))
    => []<>(\E i \in DOMAIN round : round[i].msg.path = f)
=============================================================================
