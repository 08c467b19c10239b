--------------------------- MODULE PcdLoaderProofs ---------------------------
(***************************************************************************)
(* For every set of files, every listing and every parameter file, and     *)
(* however the files change meanwhile: what PcdLoader promises of its      *)
(* cache, its order and its turns.                                         *)
(***************************************************************************)
EXTENDS PcdLoader, FiniteSetTheorems, TLAPS

-----------------------------------------------------------------------------
(***************************************************************************)
(* Sorting.  That every finite set of paths has an ascending enumeration   *)
(* is shown by the rank of each path, the number of paths up to it.        *)
(***************************************************************************)

\* A function from 1 .. n is a sequence.
LEMMA SeqDef ==
  ASSUME NEW T, NEW n \in Nat, NEW s \in [1 .. n -> T]
  PROVE  s \in Seq(T)
OBVIOUS

\* std::sort of a set of paths: each of them once, in ascending order.
LEMMA SortedEnumerates ==
  ASSUME NEW S, S \subseteq Nat, IsFiniteSet(S)
  PROVE  /\ Sorted(S) \in [1 .. Cardinality(S) -> S]
         /\ Ascending(Sorted(S))
         /\ Cardinality(S) \in Nat
<1> DEFINE n == Cardinality(S)
           UpTo(x) == {y \in S : y <= x}
           rank == [x \in S |-> Cardinality(UpTo(x))]
           at == [i \in 1 .. n |-> CHOOSE x \in S : rank[x] = i]
<1>1. n \in Nat
  BY FS_CardinalityType
<1>2. \A x \in S : IsFiniteSet(UpTo(x)) /\ Cardinality(UpTo(x)) \in 1 .. n
  <2> TAKE x \in S
  <2>1. IsFiniteSet(UpTo(x)) /\ Cardinality(UpTo(x)) <= n
    BY FS_Subset
  <2>2. Cardinality(UpTo(x)) \in Nat
    BY <2>1, FS_CardinalityType
  <2>3. UpTo(x) # {}
    BY SMT
  <2>4. Cardinality(UpTo(x)) # 0
    BY <2>1, <2>3, FS_EmptySet
  <2> QED
    BY <1>1, <2>1, <2>2, <2>4
<1>3. \A x, y \in S : x < y => Cardinality(UpTo(x)) < Cardinality(UpTo(y))
  <2> TAKE x, y \in S
  <2> HAVE x < y
  <2>0. x \in Nat /\ y \in Nat /\ x <= y /\ y <= y /\ ~(y <= x)
    OBVIOUS
  <2>1. UpTo(x) \subseteq UpTo(y) /\ y \in UpTo(y) /\ y \notin UpTo(x)
    <3>1. \A z \in S : z <= x => z <= y
      BY <2>0
    <3> QED
      BY <2>0, <3>1
  <2>2. Cardinality(UpTo(x)) <= Cardinality(UpTo(y))
    BY <1>2, <2>1, FS_Subset
  <2>3. Cardinality(UpTo(x)) # Cardinality(UpTo(y))
    BY <1>2, <2>1, FS_Subset
  <2> QED
    BY <1>1, <1>2, <2>2, <2>3
<1> HIDE DEF n, UpTo
<1>4. rank \in Injection(S, 1 .. n)
  BY <1>1, <1>2, <1>3 DEF Injection, IsInjective
<1>5. rank \in Surjection(S, 1 .. n)
  <2>1. IsFiniteSet(1 .. n) /\ Cardinality(1 .. n) = n
    BY <1>1, FS_Interval
  <2> QED
    BY <1>4, <2>1, FS_Injection DEF n
<1>6. \A i \in 1 .. n : at[i] \in S /\ rank[at[i]] = i
  BY <1>5 DEF Surjection
<1>7. at \in [1 .. n -> S] /\ Ascending(at)
  <2>1. at \in [1 .. n -> S]
    BY <1>6
  <2> SUFFICES ASSUME NEW i \in 1 .. n, NEW j \in 1 .. n, i < j
               PROVE  at[i] < at[j]
    BY <2>1 DEF Ascending
  <2>2. at[i] \in S /\ at[j] \in S /\ rank[at[i]] = i /\ rank[at[j]] = j
    BY <1>6
  <2> HIDE DEF at
  <2>3. rank[at[i]] = Cardinality(UpTo(at[i])) /\ rank[at[j]] = Cardinality(UpTo(at[j]))
    BY <2>2
  <2>4. i \in Int /\ j \in Int /\ ~(j < i) /\ i # j
    BY <1>1
  <2>5. ~(at[j] < at[i])
    BY <1>3, <2>2, <2>3, <2>4
  <2>6. at[i] # at[j]
    BY <2>2, <2>4
  <2>7. at[i] \in Nat /\ at[j] \in Nat
    BY <2>2
  <2> QED
    BY <2>5, <2>6, <2>7
<1>8. \E s \in [1 .. n -> S] : Ascending(s)
  BY <1>7
<1> QED
  BY <1>1, <1>8 DEF Sorted, n

-----------------------------------------------------------------------------
(***************************************************************************)
(* The inductive invariant                                                 *)
(***************************************************************************)

\* How far the node is, its playlist and its timers go together.
Stages ==
  /\ node = "resolve" => playlist = <<>>
  /\ node \in {"load", "run", "stopped"} => playlist # <<>>
  /\ node \notin {"run", "stopped"} => timer = "none" /\ one_shot_timer = "none"
  /\ node \notin {"run", "stopped", "failed"} => cached_index = NoIndex
  /\ node # "run" /\ node # "stopped" => round = <<>> /\ skipped = {}
  /\ timer = "none" => current_index = 0
  /\ timer = "none" \/ one_shot_timer = "none"
  /\ (timer = "none" /\ one_shot_timer # "cancelled") => round = <<>> /\ skipped = {}

Inv ==
  TypeOK /\ Stages /\ CacheMatchesEntry /\ RoundInOrder /\ TurnsAccounted

-----------------------------------------------------------------------------
(***************************************************************************)
(* The playlist                                                            *)
(***************************************************************************)

\* Whatever the source, the playlist is a list of paths.
LEMMA ResolvedTyped ==
  ASSUME config \in Configs
  PROVE  ResolvePcdPlaylist \in Seq(Files)
<1> USE LoaderAssumption
<1>1. /\ config.pcd_file \in Files \cup {NoPath}
      /\ config.pcd_files \in Seq(Files \cup {NoPath})
      /\ config.pcd_directory \in Directories \cup {NoPath}
  OBVIOUS
<1>2. FromFiles(config.pcd_files) \in Seq(Files)
  BY <1>1 DEF FromFiles, IsEntry
<1>3. ASSUME NEW dir \in Directories
      PROVE  FromDirectory(dir) \in Seq(Files)
  <2> DEFINE paths == {f \in Listing[dir] : IsEntry(f) /\ f \in Matched}
  <2>1. CASE Listing[dir] = NoDirectory
    BY <2>1 DEF FromDirectory
  <2>2. CASE Listing[dir] # NoDirectory
    <3>1. paths \subseteq Files
      OBVIOUS
    <3>2. IsFiniteSet(paths)
      BY <3>1, FS_Subset
    <3> HIDE DEF paths
    <3>3. Sorted(paths) \in [1 .. Cardinality(paths) -> paths] /\ Cardinality(paths) \in Nat
      BY <3>1, <3>2, SortedEnumerates
    <3>4. Sorted(paths) \in [1 .. Cardinality(paths) -> Files]
      BY <3>1, <3>3
    <3>5. Sorted(paths) \in Seq(Files)
      BY <3>3, <3>4, SeqDef
    <3> QED
      BY <2>2, <3>5 DEF FromDirectory, paths
  <2> QED
    BY <2>1, <2>2
<1>4. FromFile(config.pcd_file) \in Seq(Files)
  BY <1>1 DEF FromFile, IsEntry
<1> QED
  BY <1>1, <1>2, <1>3, <1>4 DEF ResolvePcdPlaylist

-----------------------------------------------------------------------------
(***************************************************************************)
(* Loading and publishing                                                  *)
(***************************************************************************)

\* load_index leaves the cache with the entry it was asked for, or empty.
LEMMA LoadIndexCache ==
  ASSUME Inv, NEW idx \in 0 .. Size - 1, LoadIndex(idx), UNCHANGED playlist
  PROVE  /\ cached_index' \in {NoIndex, idx}
         /\ cached_msg' \in Messages \cup {NoCloud}
         /\ IF cached_index' = NoIndex THEN cached_msg' = NoCloud
            ELSE cached_msg' # NoCloud /\ cached_msg'.path = Entry(idx)
<1> USE LoaderAssumption
<1>1. Entry(idx) \in Files /\ idx # NoIndex
  BY DEF Inv, TypeOK, Entry, Size, NoIndex
<1>2. CASE Cached(idx)
  BY <1>1, <1>2 DEF LoadIndex, cacheVars, Cached, Inv, CacheMatchesEntry, TypeOK
<1>3. CASE ~Cached(idx) /\ disk[Entry(idx)] \in Clouds
  <2>1. cached_index' = idx /\ cached_msg' = [path |-> Entry(idx), cloud |-> disk[Entry(idx)]]
    BY <1>3 DEF LoadIndex
  <2>2. cached_msg' \in Messages
    BY <1>1, <1>3, <2>1 DEF Messages
  <2>3. cached_msg' # NoCloud
    BY <2>2 DEF Messages
  <2> QED
    BY <1>1, <2>1, <2>2, <2>3
<1>4. CASE ~Cached(idx) /\ disk[Entry(idx)] \notin Clouds
  BY <1>4 DEF LoadIndex
<1> QED
  BY <1>2, <1>3, <1>4

\* With that the cache stays what it should be.
LEMMA CacheKept ==
  ASSUME Inv, NEW idx \in 0 .. Size - 1, LoadIndex(idx), UNCHANGED playlist
  PROVE  /\ CacheMatchesEntry'
         /\ cached_index' \in NoIndex .. Size' - 1
         /\ cached_msg' \in Messages \cup {NoCloud}
<1>1. Size \in Nat /\ Size' = Size /\ Entry(idx)' = Entry(idx)
  BY DEF Inv, TypeOK, Size, Entry
<1>2. cached_index' \in NoIndex .. Size' - 1
  BY <1>1, LoadIndexCache DEF NoIndex
<1>3. CacheMatchesEntry'
  BY LoadIndexCache DEF CacheMatchesEntry, Entry, NoIndex
<1> QED
  BY <1>2, <1>3, LoadIndexCache

\* The indices that a pass has sent or passed over.
Indices(sent) == {sent[i].index : i \in DOMAIN sent}

InOrder(sent) ==
  \A i \in DOMAIN sent :
    /\ sent[i].index \in 0 .. Size - 1
    /\ sent[i].msg.path = Entry(sent[i].index)
    /\ \A j \in DOMAIN sent : i < j => sent[i].index < sent[j].index

\* One turn adds its index to a pass whose indices are all smaller.
LEMMA TurnAdds ==
  ASSUME Inv, NEW idx \in 0 .. Size - 1, LoadIndex(idx), UNCHANGED playlist,
         NEW sent \in Seq([index : Nat, msg : Messages]), InOrder(sent),
         NEW passed \in SUBSET Nat,
         \A k \in Indices(sent) : k < idx,
         PublishCached(idx, sent, passed)
  PROVE  /\ round' \in Seq([index : Nat, msg : Messages])
         /\ skipped' \subseteq Nat
         /\ RoundInOrder'
         /\ Indices(round') \cup skipped' = Indices(sent) \cup passed \cup {idx}
<1>1. /\ idx \in Nat /\ Size \in Nat /\ Size' = Size
      /\ \A k : Entry(k)' = Entry(k)
  BY DEF Inv, TypeOK, Size, Entry
<1>2. CASE cached_msg' # NoCloud
  <2> DEFINE item == [index |-> idx, msg |-> cached_msg']
  <2>1. cached_msg' \in Messages /\ cached_msg'.path = Entry(idx)
    BY <1>2, LoadIndexCache
  <2>2. item \in [index : Nat, msg : Messages]
    BY <1>1, <2>1
  <2>3. round' = Append(sent, item) /\ skipped' = passed
    BY <1>2 DEF PublishCached
  <2>4. item.index = idx /\ item.msg.path = Entry(idx)
    BY <2>1
  <2> HIDE DEF item
  <2>5. /\ round' \in Seq([index : Nat, msg : Messages])
        /\ Len(round') = Len(sent) + 1 /\ Len(sent) \in Nat
        /\ \A i \in 1 .. Len(sent) : round'[i] = sent[i]
        /\ round'[Len(sent) + 1] = item
    BY <2>2, <2>3
  <2>6. DOMAIN round' = DOMAIN sent \cup {Len(sent) + 1} /\ DOMAIN sent = 1 .. Len(sent)
    BY <2>5
  <2>7. Indices(round') = Indices(sent) \cup {idx}
    BY <2>4, <2>5, <2>6 DEF Indices
  <2>8. RoundInOrder'
    <3> SUFFICES ASSUME NEW i \in DOMAIN round'
                 PROVE  /\ round'[i].index \in 0 .. Size - 1
                        /\ round'[i].msg.path = Entry(round'[i].index)
                        /\ \A j \in DOMAIN round' : i < j => round'[i].index < round'[j].index
      BY <1>1 DEF RoundInOrder
    <3>1. CASE i \in DOMAIN sent
      <4>1. \A j \in DOMAIN round' : i < j => round'[i].index < round'[j].index
        BY <2>4, <2>5, <2>6, <3>1 DEF Indices, InOrder
      <4> QED
        BY <2>5, <2>6, <3>1, <4>1 DEF InOrder
    <3>2. CASE i = Len(sent) + 1
      BY <1>1, <2>4, <2>5, <2>6, <3>2
    <3> QED
      BY <2>6, <3>1, <3>2
  <2> QED
    BY <2>3, <2>5, <2>7, <2>8
<1>3. CASE cached_msg' = NoCloud
  <2>1. round' = sent /\ skipped' = passed \cup {idx}
    BY <1>3 DEF PublishCached
  <2>2. RoundInOrder'
    BY <1>1, <2>1 DEF RoundInOrder, InOrder
  <2> QED
    BY <1>1, <2>1, <2>2
<1> QED
  BY <1>2, <1>3

-----------------------------------------------------------------------------
(***************************************************************************)
(* The steps                                                               *)
(***************************************************************************)
LEMMA InitInv == Init => Inv
BY LoaderAssumption DEF Init, Inv, TypeOK, Stages, CacheMatchesEntry, RoundInOrder,
   TurnsAccounted, NoIndex, Size

\* The playlist comes before everything that depends on it.
LEMMA EnforceParametersStep == Inv /\ EnforceParameters => Inv'
<1> SUFFICES ASSUME Inv, EnforceParameters PROVE Inv'
  OBVIOUS
<1> USE DEF Inv, EnforceParameters, cacheVars
<1>1. playlist' \in Seq(Files)
  BY ResolvedTyped DEF TypeOK
<1>2. /\ cached_index = NoIndex /\ cached_msg = NoCloud /\ current_index = 0
      /\ round = <<>> /\ skipped = {} /\ timer = "none" /\ one_shot_timer = "none"
  BY DEF Stages, CacheMatchesEntry
<1>3. TypeOK'
  <2>1. Len(playlist') \in Nat
    BY <1>1
  <2> QED
    BY <1>1, <1>2, <2>1 DEF TypeOK, Size, NoIndex
<1>4. Stages'
  BY <1>2 DEF Stages
<1>5. CacheMatchesEntry' /\ RoundInOrder' /\ TurnsAccounted'
  BY <1>2 DEF CacheMatchesEntry, RoundInOrder, TurnsAccounted
<1> QED
  BY <1>3, <1>4, <1>5

\* The first entry is loaded, or the node does not start.
LEMMA EagerLoadStep == Inv /\ EagerLoad => Inv'
<1> SUFFICES ASSUME Inv, EagerLoad PROVE Inv'
  OBVIOUS
<1>0. /\ playlist \in Seq(Files) /\ playlist # <<>> /\ Size \in Nat /\ 0 \in 0 .. Size - 1
      /\ current_index = 0 /\ round = <<>> /\ skipped = {}
      /\ timer = "none" /\ one_shot_timer = "none" /\ node = "load"
  BY DEF Inv, TypeOK, Stages, EagerLoad, Size
<1>1. LoadIndex(0) /\ UNCHANGED <<disk, config, playlist, current_index, round, skipped>>
  BY DEF EagerLoad
<1>2. /\ CacheMatchesEntry' /\ cached_index' \in NoIndex .. Size' - 1
      /\ cached_msg' \in Messages \cup {NoCloud}
  BY <1>0, <1>1, CacheKept
<1>3. /\ node' \in {"failed", "run"}
      /\ node' = "failed" => UNCHANGED <<timer, one_shot_timer>>
      /\ node' = "run" => /\ timer' = IF config.publish_once THEN "none" ELSE "armed"
                          /\ one_shot_timer' = IF config.publish_once THEN "armed" ELSE "none"
  BY DEF EagerLoad
<1>4. TypeOK'
  BY <1>0, <1>1, <1>2, <1>3 DEF Inv, TypeOK, Size
<1>5. Stages'
  BY <1>0, <1>1, <1>3 DEF Stages
<1>6. RoundInOrder' /\ TurnsAccounted'
  BY <1>0, <1>1, <1>3 DEF RoundInOrder, TurnsAccounted, Size
<1> QED
  BY <1>2, <1>4, <1>5, <1>6 DEF Inv

\* The one-shot timer publishes into an empty round.
LEMMA PublishOnceStep == Inv /\ PublishOnce => Inv'
<1> SUFFICES ASSUME Inv, PublishOnce PROVE Inv'
  OBVIOUS
<1>0. /\ playlist \in Seq(Files) /\ playlist # <<>> /\ Size \in Nat /\ 0 \in 0 .. Size - 1
      /\ timer = "none" /\ round = <<>> /\ skipped = {} /\ node = "run"
      /\ current_index = 0
  BY DEF Inv, TypeOK, Stages, PublishOnce, Size
<1>1. /\ LoadIndex(0) /\ PublishCached(0, <<>>, {}) /\ one_shot_timer' = "cancelled"
      /\ UNCHANGED <<disk, config, node, playlist, current_index, timer>>
  BY <1>0 DEF PublishOnce
<1>2. /\ CacheMatchesEntry' /\ cached_index' \in NoIndex .. Size' - 1
      /\ cached_msg' \in Messages \cup {NoCloud}
  BY <1>0, <1>1, CacheKept
<1>3. /\ round' \in Seq([index : Nat, msg : Messages]) /\ skipped' \subseteq Nat
      /\ RoundInOrder'
  <2>1. <<>> \in Seq([index : Nat, msg : Messages]) /\ InOrder(<<>>) /\ Indices(<<>>) = {}
    BY DEF InOrder, Indices
  <2> QED
    BY <1>0, <1>1, <2>1, TurnAdds
<1>4. TypeOK'
  BY <1>1, <1>2, <1>3 DEF Inv, TypeOK, Size
<1>5. Stages' /\ TurnsAccounted'
  BY <1>0, <1>1 DEF Stages, TurnsAccounted
<1> QED
  BY <1>2, <1>3, <1>4, <1>5 DEF Inv

\* Each tick adds the index of its turn; a tick at the first index starts the
\* round again.
LEMMA TickStep == Inv /\ TickPublish => Inv'
<1> SUFFICES ASSUME Inv, TickPublish PROVE Inv'
  OBVIOUS
<1> DEFINE idx == current_index
           sent == IF idx = 0 THEN <<>> ELSE round
           passed == IF idx = 0 THEN {} ELSE skipped
<1>0. /\ playlist \in Seq(Files) /\ Size \in Nat /\ idx \in 0 .. Size - 1
      /\ timer = "armed" /\ one_shot_timer = "none" /\ node = "run"
  BY DEF Inv, TypeOK, Stages, TickPublish, Size
<1>1. /\ LoadIndex(idx) /\ PublishCached(idx, sent, passed) /\ Advance
      /\ UNCHANGED <<disk, config, node, playlist, one_shot_timer>>
  BY DEF TickPublish, PublishTurn
<1>2. /\ CacheMatchesEntry' /\ cached_index' \in NoIndex .. Size' - 1
      /\ cached_msg' \in Messages \cup {NoCloud}
  BY <1>0, <1>1, CacheKept
<1>3. /\ sent \in Seq([index : Nat, msg : Messages]) /\ passed \subseteq Nat
      /\ InOrder(sent)
  <2>1. InOrder(<<>>) /\ InOrder(round)
    BY DEF Inv, RoundInOrder, InOrder
  <2>2. /\ round \in Seq([index : Nat, msg : Messages]) /\ skipped \subseteq Nat
        /\ <<>> \in Seq([index : Nat, msg : Messages])
    BY DEF Inv, TypeOK
  <2> QED
    BY <2>1, <2>2
<1>4. Indices(sent) \cup passed = 0 .. idx - 1
  <2>1. CASE idx = 0
    BY <2>1 DEF Indices
  <2>2. CASE idx # 0
    BY <1>0, <2>2 DEF Inv, TurnsAccounted, Indices
  <2> QED
    BY <2>1, <2>2
<1> HIDE DEF sent, passed
<1>5. \A k \in Indices(sent) : k < idx
  BY <1>0, <1>4
<1>6. /\ round' \in Seq([index : Nat, msg : Messages]) /\ skipped' \subseteq Nat
      /\ RoundInOrder'
      /\ Indices(round') \cup skipped' = Indices(sent) \cup passed \cup {idx}
  BY <1>0, <1>1, <1>3, <1>5, TurnAdds
<1>7. Indices(round') \cup skipped' = 0 .. idx
  BY <1>0, <1>4, <1>6
<1>8. /\ config.loop \in BOOLEAN /\ Size' = Size
      /\ current_index' = IF idx + 1 >= Size /\ config.loop THEN 0 ELSE idx + 1
      /\ timer' = IF idx + 1 >= Size /\ ~config.loop THEN "cancelled" ELSE "armed"
  BY <1>0, <1>1, LoaderAssumption DEF Advance, Inv, TypeOK, Size
<1> HIDE DEF idx
<1>9. TypeOK'
  BY <1>0, <1>1, <1>2, <1>6, <1>8 DEF Inv, TypeOK, Size
<1>10. Stages'
  BY <1>0, <1>1, <1>8 DEF Inv, Stages
<1>11. TurnsAccounted'
  <2> DEFINE all == Indices(round') \cup skipped'
  <2>1. all = IF config.loop /\ current_index' = 0 /\ all # {} THEN 0 .. Size - 1
              ELSE 0 .. current_index' - 1
    <3>1. CASE idx + 1 >= Size /\ config.loop
      BY <1>0, <1>7, <1>8, <3>1
    <3>2. CASE ~(idx + 1 >= Size /\ config.loop)
      BY <1>0, <1>7, <1>8, <3>2
    <3> QED
      BY <3>1, <3>2
  <2>2. timer' = "cancelled" <=> current_index' = Size
    BY <1>0, <1>8
  <2> QED
    BY <1>1, <1>8, <2>1, <2>2 DEF TurnsAccounted, Indices
<1> QED
  BY <1>2, <1>6, <1>9, <1>10, <1>11 DEF Inv

\* Files that change and the end of the node touch nothing of it.
LEMMA OutsideStep ==
  ASSUME Inv,
         \/ \E path \in Files, content \in Clouds \cup Faults : ChangeFile(path, content)
         \/ Stop
         \/ UNCHANGED vars
  PROVE  Inv'
<1>1. /\ disk' \in [Files -> Clouds \cup Faults]
      /\ node' = node \/ (node = "run" /\ node' = "stopped")
      /\ UNCHANGED <<config, playlist, current_index, cached_index, cached_msg, timer,
                     one_shot_timer, round, skipped>>
  BY DEF Inv, TypeOK, ChangeFile, Stop, vars, cacheVars
<1> USE <1>1 DEF Inv
<1>2. TypeOK'
  BY DEF TypeOK, Size
<1>3. Stages'
  BY DEF Stages
<1>4. CacheMatchesEntry'
  BY DEF CacheMatchesEntry, Entry
<1>5. RoundInOrder'
  BY DEF RoundInOrder, Size, Entry
<1>6. TurnsAccounted'
  BY DEF TurnsAccounted, Size
<1> QED
  BY <1>2, <1>3, <1>4, <1>5, <1>6

\* The invariant holds always.
LEMMA Invariant == Spec => []Inv
<1>1. Inv /\ [Next]_vars => Inv'
  BY EnforceParametersStep, EagerLoadStep, PublishOnceStep, TickStep, OutsideStep
     DEF Next, NodeStep, Terminated
<1> QED
  BY <1>1, InitInv, PTL DEF Spec

-----------------------------------------------------------------------------
(***************************************************************************)
(* The theorems                                                            *)
(***************************************************************************)

\* The position never leaves the playlist, nor does the index of the cache.
THEOREM Typed == Spec => []TypeOK
<1>1. Inv => TypeOK
  BY DEF Inv
<1> QED
  BY <1>1, Invariant, PTL

\* No file's points are cached, and so published, as those of another.
THEOREM CacheAlwaysMatches == Spec => []CacheMatchesEntry
<1>1. Inv => CacheMatchesEntry
  BY DEF Inv
<1> QED
  BY <1>1, Invariant, PTL

\* A pass publishes the entries in order, each once at most.
THEOREM RoundsInOrder == Spec => []RoundInOrder
<1>1. Inv => RoundInOrder
  BY DEF Inv
<1> QED
  BY <1>1, Invariant, PTL

\* No entry is forgotten, and the playlist ends where it should.
THEOREM TurnsAlwaysAccounted == Spec => []TurnsAccounted
<1>1. Inv => TurnsAccounted
  BY DEF Inv
<1> QED
  BY <1>1, Invariant, PTL

\* With a directory the entries are the files that pcd_glob matches, each once,
\* in the order of their paths; with RoundInOrder they are published so.
DirectorySorted ==
  (config.pcd_files = <<>> /\ config.pcd_directory # NoPath) =>
    Ascending(playlist) /\ \A i \in DOMAIN playlist : playlist[i] \in Matched

THEOREM DirectoriesInOrder == Spec => []DirectorySorted
<1>1. Init => DirectorySorted
  BY DEF Init, DirectorySorted, Ascending
<1>2. TypeOK /\ DirectorySorted /\ [Next]_vars => DirectorySorted'
  <2> SUFFICES ASSUME TypeOK, DirectorySorted, [Next]_vars PROVE DirectorySorted'
    OBVIOUS
  <2>1. CASE EnforceParameters /\ UNCHANGED playlist
    BY <2>1 DEF EnforceParameters, DirectorySorted, Ascending
  <2>2. CASE EnforceParameters /\ playlist' = ResolvePcdPlaylist
    <3> SUFFICES ASSUME config.pcd_files = <<>>, config.pcd_directory # NoPath
                 PROVE  /\ Ascending(ResolvePcdPlaylist)
                        /\ \A i \in DOMAIN ResolvePcdPlaylist : ResolvePcdPlaylist[i] \in Matched
      BY <2>2 DEF EnforceParameters, DirectorySorted
    <3> DEFINE dir == config.pcd_directory
               paths == {f \in Listing[dir] : IsEntry(f) /\ f \in Matched}
    <3>1. dir \in Directories /\ ResolvePcdPlaylist = FromDirectory(dir)
      BY LoaderAssumption DEF TypeOK, ResolvePcdPlaylist
    <3>2. CASE Listing[dir] = NoDirectory
      BY <3>1, <3>2 DEF FromDirectory, Ascending
    <3>3. CASE Listing[dir] # NoDirectory
      <4>1. paths \subseteq Files /\ paths \subseteq Matched
        BY <3>1, <3>3, LoaderAssumption
      <4>2. paths \subseteq Nat /\ IsFiniteSet(paths)
        BY <4>1, FS_Subset, LoaderAssumption
      <4>3. ResolvePcdPlaylist = Sorted(paths)
        BY <3>1, <3>3 DEF FromDirectory
      <4> HIDE DEF paths
      <4> QED
        BY <4>1, <4>2, <4>3, SortedEnumerates
    <3> QED
      BY <3>2, <3>3
  <2>3. CASE UNCHANGED <<config, playlist>>
    BY <2>3 DEF DirectorySorted, Ascending
  <2> QED
    BY <2>1, <2>2, <2>3 DEF Next, NodeStep, EnforceParameters, EagerLoad, PublishOnce,
       TickPublish, ChangeFile, Stop, Terminated, vars
<1> QED
  BY <1>1, <1>2, Typed, PTL DEF Spec
=============================================================================
