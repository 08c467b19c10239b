-------------------- MODULE DetectionResultWriterProofs --------------------
(***************************************************************************)
(* What holds of the writer for every set of paths and every number of     *)
(* frames.                                                                 *)
(***************************************************************************)
EXTENDS DetectionResultWriter, SequenceTheorems, TLAPS

\* Whatever append() is told to write, what it leaves at the end of the file
\* consists of chunks of that frame.
LEMMA FailedTailsType ==
  ASSUME NEW f \in Frames, NEW tail \in FailedTails(f) \cup {<<Line(f)>>}
  PROVE  tail \in Seq(Chunks)
<1>1. Line(f) \in Chunks /\ Fragment(f) \in Chunks
  BY DEF Line, Fragment, Chunks
<1>2. /\ <<>> \in Seq(Chunks)
      /\ <<Line(f)>> \in Seq(Chunks)
      /\ <<Fragment(f)>> \in Seq(Chunks)
      /\ <<Fragment(f), Line(f)>> \in Seq(Chunks)
  BY <1>1
<1> QED BY <1>2 DEF FailedTails

\* Every outcome of configure() is a stable state of the stream.
LEMMA ConfigureOutcomesStable ==
  ASSUME NEW save \in BOOLEAN, NEW path \in Paths \cup {EmptyPath},
         NEW r \in ConfigureOutcomes(save, path)
  PROVE  /\ r.enabled \in BOOLEAN
         /\ r.out \in Paths \cup {NoFile}
         /\ r.last_error \in Errors
         /\ r.enabled <=> r.out # NoFile
         /\ r.enabled => r.last_error = "none" /\ save /\ r.out = path
         /\ save /\ ~r.enabled => r.last_error # "none"
<1> DEFINE Stable(s) ==
             /\ s.enabled \in BOOLEAN
             /\ s.out \in Paths \cup {NoFile}
             /\ s.last_error \in Errors
             /\ s.enabled <=> s.out # NoFile
             /\ s.enabled => s.last_error = "none" /\ save /\ s.out = path
             /\ save /\ ~s.enabled => s.last_error # "none"
<1>1. CASE ~save
  <2>1. r = Disabled("none")
    BY <1>1 DEF ConfigureOutcomes
  <2>2. Stable(Disabled("none"))
    BY <1>1 DEF Disabled, Errors
  <2> QED BY <2>1, <2>2
<1>2. ASSUME save, NEW e \in {"empty_path", "open_failed"}, r = Disabled(e)
      PROVE  Stable(r)
  <2>1. Stable(Disabled(e))
    BY DEF Disabled, Errors
  <2> QED BY <1>2, <2>1
<1>3. CASE save /\ path # EmptyPath /\ r = OpenOn(path)
  <2>1. path \in Paths /\ path # NoFile
    BY <1>3, WriterAssumption
  <2>2. Stable(OpenOn(path))
    BY <1>3, <2>1 DEF OpenOn, Errors
  <2> QED BY <1>3, <2>2
<1>4. save => \/ path # EmptyPath /\ r = OpenOn(path)
              \/ \E e \in {"empty_path", "open_failed"} : r = Disabled(e)
  BY DEF ConfigureOutcomes
<1> QED BY <1>1, <1>2, <1>3, <1>4

\* Nothing in the files is newer than the frame received last.
ChunksArrived ==
  \A p \in Paths : \A i \in DOMAIN files[p] : files[p][i].frame <= arrived

WriterInv == WriterTypeOK /\ WriterStable /\ ChunksArrived /\ ReportedOnceInOrder

\* configure() opens, closes or fails, and leaves the files as they are.
LEMMA ConfigureKeepsInv ==
  ASSUME WriterInv,
         NEW save \in BOOLEAN, NEW path \in Paths \cup {EmptyPath},
         Configure(save, path), arrived' = arrived
  PROVE  /\ WriterInv'
         /\ files' = files
         /\ enabled' => save /\ out' = path
         /\ save /\ ~enabled' => last_error' # "none"
<1>1. PICK r \in ConfigureOutcomes(save, path) :
             /\ enabled' = r.enabled /\ out' = r.out
             /\ last_error' = r.last_error
             /\ files' = IF r.enabled
                         THEN [files EXCEPT ![path] = ContentAfterOpen(@)]
                         ELSE files
             /\ UNCHANGED reported
  BY DEF Configure
<1>2. files' = files
  BY <1>1, ConfigureOutcomesStable
     DEF ContentAfterOpen, WriterInv, WriterTypeOK
<1>3. WriterTypeOK'
  BY <1>1, <1>2, ConfigureOutcomesStable DEF WriterInv, WriterTypeOK
<1>4. WriterStable'
  BY <1>1, ConfigureOutcomesStable DEF WriterStable
<1>5. ChunksArrived' /\ ReportedOnceInOrder'
  BY <1>1, <1>2 DEF WriterInv, ChunksArrived, ReportedOnceInOrder, WrittenAt
<1> QED BY <1>1, <1>2, <1>3, <1>4, <1>5, ConfigureOutcomesStable DEF WriterInv

\* A file of old chunks stays in order when chunks of a newer frame, at most
\* the last of them whole, are put behind them.
LEMMA TailKeepsOrder ==
  ASSUME WriterInv, out \in Paths, arrived' = arrived + 1, arrived' \in Frames,
         NEW tail \in FailedTails(arrived') \cup {<<Line(arrived')>>},
         WriteTail(tail)
  PROVE  /\ files' \in [Paths -> Seq(Chunks)]
         /\ ChunksArrived'
         /\ \A p \in Paths :
              \A i \in DOMAIN files[p] :
                i \in DOMAIN files'[p] /\ files'[p][i] = files[p][i]
         /\ \A p \in Paths : \A i, j \in DOMAIN files'[p] :
              (i < j /\ files'[p][i].whole) =>
                files'[p][i].frame < files'[p][j].frame
<1> DEFINE n == Len(files[out])
<1>1. tail \in Seq(Chunks)
  BY FailedTailsType
<1>2. /\ files[out] \in Seq(Chunks) /\ n \in Nat
      /\ files' = [files EXCEPT ![out] = files[out] \o tail]
  BY DEF WriterInv, WriterTypeOK, WriteTail
<1>3. files' \in [Paths -> Seq(Chunks)]
  BY <1>1, <1>2 DEF WriterInv, WriterTypeOK
<1>4. /\ Len(tail) \in 0 .. 2
      /\ \A k \in 1 .. Len(tail) : /\ tail[k].frame = arrived'
                                   /\ tail[k].whole => k = Len(tail)
  <2>1. /\ Line(arrived').frame = arrived' /\ Line(arrived').whole
        /\ Fragment(arrived').frame = arrived' /\ ~Fragment(arrived').whole
    BY DEF Line, Fragment
  <2>2. CASE tail = <<>>
    BY <2>2
  <2>3. CASE tail = <<Line(arrived')>>
    BY <2>1, <2>3
  <2>4. CASE tail = <<Fragment(arrived')>>
    BY <2>1, <2>4
  <2>5. CASE tail = <<Fragment(arrived'), Line(arrived')>>
    BY <2>1, <2>5
  <2> QED BY <2>2, <2>3, <2>4, <2>5 DEF FailedTails
<1>5. /\ DOMAIN files'[out] = 1 .. n + Len(tail)
      /\ \A i \in 1 .. n : files'[out][i] = files[out][i]
      /\ \A i \in n + 1 .. n + Len(tail) : files'[out][i] = tail[i - n]
  <2>1. files'[out] = files[out] \o tail
    BY <1>2 DEF WriterInv, WriterTypeOK
  <2> QED BY <1>1, <1>2, <1>4, <2>1, ConcatProperties
<1>6. \A p \in Paths : p # out => files'[p] = files[p]
  BY <1>2 DEF WriterInv, WriterTypeOK
<1>7. ASSUME NEW i \in 1 .. n
      PROVE  files[out][i].frame <= arrived /\ files[out][i] \in Chunks
  BY <1>2 DEF WriterInv, ChunksArrived
<1>8. arrived \in Nat
  BY WriterAssumption DEF WriterInv, WriterTypeOK
<1>9. ChunksArrived'
  <2> SUFFICES ASSUME NEW p \in Paths, NEW i \in DOMAIN files'[p]
               PROVE  files'[p][i].frame <= arrived'
    BY DEF ChunksArrived
  <2>1. CASE p # out
    <3>1. files[p] \in Seq(Chunks) /\ i \in DOMAIN files[p]
      BY <1>6, <2>1 DEF WriterInv, WriterTypeOK
    <3>2. files[p][i] \in Chunks /\ files[p][i].frame <= arrived
      BY <3>1 DEF WriterInv, ChunksArrived
    <3> QED BY <1>6, <1>8, <2>1, <3>2 DEF Chunks, Frames
  <2>2. CASE p = out /\ i \in 1 .. n
    BY <1>5, <1>7, <1>8, <2>2 DEF Chunks, Frames
  <2>3. CASE p = out /\ i \notin 1 .. n
    <3>1. i \in n + 1 .. n + Len(tail) /\ i - n \in 1 .. Len(tail)
      BY <1>2, <1>4, <1>5, <2>3
    <3>2. files'[p][i] = tail[i - n] /\ tail[i - n].frame = arrived'
      BY <1>4, <1>5, <2>3, <3>1
    <3> QED BY <1>8, <3>2
  <2> QED BY <2>1, <2>2, <2>3
<1>10. ASSUME NEW p \in Paths, NEW i \in DOMAIN files[p]
       PROVE  i \in DOMAIN files'[p] /\ files'[p][i] = files[p][i]
  <2>1. CASE p # out
    BY <1>6, <2>1
  <2>2. CASE p = out
    BY <1>2, <1>4, <1>5, <2>2
  <2> QED BY <2>1, <2>2
<1>11. ASSUME NEW p \in Paths, NEW i \in DOMAIN files'[p],
              NEW j \in DOMAIN files'[p], i < j, files'[p][i].whole
       PROVE  files'[p][i].frame < files'[p][j].frame
  <2>1. CASE p # out
    BY <1>6, <1>11, <2>1 DEF WriterInv, ReportedOnceInOrder
  <2>2. CASE p = out /\ j \in 1 .. n
    <3>1. i \in 1 .. n
      BY <1>2, <1>4, <1>5, <1>11, <2>2
    <3> QED BY <1>2, <1>5, <1>11, <2>2, <3>1 DEF WriterInv, ReportedOnceInOrder
  <2>3. CASE p = out /\ j \notin 1 .. n
    <3>1. j - n \in 1 .. Len(tail) /\ j \in n + 1 .. n + Len(tail)
      BY <1>2, <1>4, <1>5, <2>3
    <3>2. files'[out][j].frame = arrived'
      BY <1>4, <1>5, <3>1
    <3>3. CASE i \in 1 .. n
      BY <1>5, <1>7, <1>8, <2>3, <3>2, <3>3 DEF Chunks, Frames
    <3>4. CASE i \notin 1 .. n
      <4>1. i - n \in 1 .. Len(tail) /\ i \in n + 1 .. n + Len(tail)
        BY <1>2, <1>4, <1>5, <2>3, <3>4
      <4>2. i - n = Len(tail)
        BY <1>4, <1>5, <1>11, <2>3, <4>1
      <4>3. i - n < j - n /\ j - n <= Len(tail)
        BY <1>2, <1>4, <1>5, <1>11, <2>3, <3>1, <4>1
      <4>4. FALSE
        BY <1>4, <3>1, <4>1, <4>2, <4>3
      <4> QED BY <4>4
    <3> QED BY <3>3, <3>4
  <2> QED BY <2>1, <2>2, <2>3
<1> QED BY <1>3, <1>9, <1>10, <1>11

\* Putting such a tail behind a file keeps what was reported to be written.
LEMMA TailKeepsReported ==
  ASSUME WriterInv, out \in Paths, arrived' = arrived + 1, arrived' \in Frames,
         NEW tail \in FailedTails(arrived') \cup {<<Line(arrived')>>},
         WriteTail(tail), reported' = reported
  PROVE  ReportedOnceInOrder'
<1>1. ASSUME NEW p \in Paths, NEW f \in reported'[p]
      PROVE  \E i \in DOMAIN files'[p] : files'[p][i] = Line(f)
  <2>1. PICK i \in DOMAIN files[p] : files[p][i] = Line(f)
    BY <1>1 DEF WriterInv, ReportedOnceInOrder, WrittenAt
  <2> QED BY <2>1, TailKeepsOrder
<1> QED BY <1>1, TailKeepsOrder DEF ReportedOnceInOrder, WrittenAt

\* append() of the next frame, in each of its three outcomes.
LEMMA AppendKeepsInv ==
  ASSUME WriterInv, arrived' = arrived + 1, arrived' \in Frames,
         AppendPayload(arrived')
  PROVE  /\ WriterInv'
         /\ enabled' => enabled /\ out' = out
         /\ enabled /\ ~enabled' => last_error' # "none"
         /\ ~enabled => UNCHANGED streamVars
<1>1. /\ arrived \in Nat /\ arrived' \in 0 .. MaxFrames
      /\ enabled \in BOOLEAN /\ (enabled <=> out # NoFile)
  BY WriterAssumption DEF WriterInv, WriterTypeOK, WriterStable, Frames
<1>2. CASE AppendDisabled
  <2>1. UNCHANGED writerVars
    BY <1>2 DEF AppendDisabled
  <2>2. ChunksArrived'
    <3> SUFFICES ASSUME NEW p \in Paths, NEW i \in DOMAIN files[p]
                 PROVE  files[p][i].frame <= arrived'
      BY <2>1 DEF writerVars, ChunksArrived
    <3>1. files[p][i] \in Chunks /\ files[p][i].frame <= arrived
      BY DEF WriterInv, WriterTypeOK, ChunksArrived
    <3> QED BY <1>1, <3>1 DEF Chunks, Frames
  <2> QED BY <1>1, <2>1, <2>2
      DEF writerVars, streamVars, WriterInv, WriterTypeOK, WriterStable,
          ReportedOnceInOrder, WrittenAt
<1>3. CASE AppendSucceeds(arrived')
  <2>1. /\ out \in Paths /\ enabled
        /\ WriteTail(<<Line(arrived')>>)
        /\ reported' = [reported EXCEPT ![out] = @ \cup {arrived'}]
        /\ UNCHANGED streamVars
    BY <1>3 DEF AppendSucceeds, WriterInv, WriterTypeOK
  <2>2. ASSUME NEW p \in Paths, NEW f \in reported'[p]
        PROVE  \E i \in DOMAIN files'[p] : files'[p][i] = Line(f)
    <3>1. CASE f \in reported[p]
      <4>1. PICK i \in DOMAIN files[p] : files[p][i] = Line(f)
        BY <3>1 DEF WriterInv, ReportedOnceInOrder, WrittenAt
      <4> QED BY <2>1, <4>1, TailKeepsOrder
    <3>2. CASE f \notin reported[p]
      <4>1. p = out /\ f = arrived'
        BY <2>1, <2>2, <3>2 DEF WriterInv, WriterTypeOK
      <4>2. files'[out] = Append(files[out], Line(f))
        BY <2>1, <4>1 DEF WriteTail, WriterInv, WriterTypeOK
      <4>3. files[out] \in Seq(Chunks)
        BY <2>1 DEF WriterInv, WriterTypeOK
      <4>4. Line(f) \in Chunks
        BY <4>1 DEF Line, Chunks
      <4> QED BY <4>1, <4>2, <4>3, <4>4
    <3> QED BY <3>1, <3>2
  <2>3. ReportedOnceInOrder'
    BY <2>1, <2>2, TailKeepsOrder DEF ReportedOnceInOrder, WrittenAt
  <2>4. reported' \in [Paths -> SUBSET Frames]
    BY <2>1 DEF WriterInv, WriterTypeOK
  <2>5. WriterTypeOK'
    BY <1>1, <2>1, <2>4, TailKeepsOrder DEF WriterInv, WriterTypeOK, streamVars
  <2>6. WriterStable'
    BY <2>1 DEF WriterInv, WriterStable, streamVars
  <2> QED BY <2>1, <2>3, <2>5, <2>6, TailKeepsOrder DEF WriterInv, streamVars
<1>4. CASE AppendFails(arrived')
  <2>1. /\ out \in Paths /\ enabled
        /\ out' = NoFile /\ enabled' = FALSE /\ last_error' = "write_failed"
        /\ reported' = reported
    BY <1>4 DEF AppendFails, WriterInv, WriterTypeOK
  <2>2. PICK tail \in FailedTails(arrived') : WriteTail(tail)
    BY <1>4 DEF AppendFails
  <2>3. ReportedOnceInOrder'
    BY <2>1, <2>2, TailKeepsReported
  <2>4. WriterTypeOK'
    BY <1>1, <2>1, <2>2, TailKeepsOrder DEF WriterInv, WriterTypeOK, Errors
  <2>5. WriterStable'
    BY <2>1 DEF WriterStable
  <2> QED BY <2>1, <2>2, <2>3, <2>4, <2>5, TailKeepsOrder DEF WriterInv
<1> QED BY <1>2, <1>3, <1>4 DEF AppendPayload

\* The inductive invariant of the writer on its own.
LEMMA WriterInvariant == WriterSpec => []WriterInv
<1>1. WriterInit => WriterInv
  <2> SUFFICES ASSUME WriterInit PROVE WriterInv
    OBVIOUS
  <2>1. files \in [Paths -> Seq(Chunks)]
    <3> <<>> \in Seq(Chunks) OBVIOUS
    <3> QED BY DEF WriterInit
  <2>2. reported \in [Paths -> SUBSET Frames]
    BY DEF WriterInit
  <2>3. enabled = FALSE /\ out = NoFile /\ last_error \in Errors
    BY DEF WriterInit, Errors
  <2>4. arrived \in 0 .. MaxFrames
    BY WriterAssumption DEF WriterInit
  <2>5. ChunksArrived /\ ReportedOnceInOrder
    BY DEF WriterInit, ChunksArrived, ReportedOnceInOrder
  <2> QED BY <2>1, <2>2, <2>3, <2>4, <2>5
      DEF WriterInv, WriterTypeOK, WriterStable
<1>2. WriterInv /\ [WriterNext]_<<writerVars, arrived>> => WriterInv'
  <2> SUFFICES ASSUME WriterInv, [WriterNext]_<<writerVars, arrived>>
               PROVE  WriterInv'
    OBVIOUS
  <2>1. ASSUME NEW save \in BOOLEAN, NEW path \in Paths \cup {EmptyPath},
               CallConfigure(save, path)
        PROVE  WriterInv'
    BY <2>1, ConfigureKeepsInv DEF CallConfigure
  <2>2. CASE CallAppend
    <3>1. arrived' = arrived + 1 /\ arrived' \in Frames /\ AppendPayload(arrived')
      BY <2>2, WriterAssumption
         DEF CallAppend, Frames, WriterInv, WriterTypeOK
    <3> QED BY <3>1, AppendKeepsInv
  <2>3. CASE Restart
    BY <2>3 DEF Restart, FreshWriter, Errors, WriterInv, WriterTypeOK,
                WriterStable, ChunksArrived, ReportedOnceInOrder, WrittenAt
  <2>4. CASE CrashInAppend
    <3>1. /\ arrived' = arrived + 1 /\ arrived' \in Frames /\ out \in Paths
          /\ arrived' \in 0 .. MaxFrames
      BY <2>4, WriterAssumption
         DEF CrashInAppend, Frames, WriterInv, WriterTypeOK
    <3>2. PICK tail \in FailedTails(arrived') : WriteTail(tail)
      BY <2>4 DEF CrashInAppend, FailedTails
    <3>3. FreshWriter
      BY <2>4 DEF CrashInAppend
    <3>4. ReportedOnceInOrder'
      BY <3>1, <3>2, <3>3, TailKeepsReported DEF FreshWriter
    <3>5. files' \in [Paths -> Seq(Chunks)] /\ ChunksArrived'
      BY <3>1, <3>2, TailKeepsOrder
    <3> QED BY <3>1, <3>3, <3>4, <3>5
        DEF FreshWriter, WriterInv, WriterTypeOK, WriterStable, Errors
  <2>5. CASE UNCHANGED <<writerVars, arrived>>
    BY <2>5 DEF writerVars, WriterInv, WriterTypeOK, WriterStable,
                ChunksArrived, ReportedOnceInOrder, WrittenAt
  <2> QED BY <2>1, <2>2, <2>3, <2>4, <2>5 DEF WriterNext
<1> QED BY <1>1, <1>2, PTL DEF WriterSpec

\* Every variable of the writer keeps its type, whatever is configured, fails
\* or is restarted.
THEOREM WriterTyped == WriterSpec => []WriterTypeOK
BY WriterInvariant, PTL DEF WriterInv

\* The header's "stable state": after every configure, append and restart the
\* writer is disabled, or open for append with no error pending.
THEOREM WriterAlwaysStable == WriterSpec => []WriterStable
BY WriterInvariant, PTL DEF WriterInv

\* A frame append() reported is on the disk, once and in order, for any number
\* of files, frames, failures and restarts.
THEOREM ReportedIsWritten == WriterSpec => []ReportedOnceInOrder
BY WriterInvariant, PTL DEF WriterInv

\* "Previous runs are preserved": no step of the writer shortens a file or
\* changes what it holds.
THEOREM FilesOnlyGrow == WriterSpec => AppendOnly
<1> DEFINE Grows == \A p \in Paths :
              /\ Len(files'[p]) >= Len(files[p])
              /\ \A i \in DOMAIN files[p] : files'[p][i] = files[p][i]
<1>1. WriterInv /\ [WriterNext]_<<writerVars, arrived>> => [Grows]_files
  <2> SUFFICES ASSUME WriterInv, [WriterNext]_<<writerVars, arrived>>,
                      files' # files
               PROVE  Grows
    OBVIOUS
  <2> USE DEF WriterInv, WriterTypeOK
  <2>1. /\ out \in Paths /\ arrived' = arrived + 1 /\ arrived' \in Frames
        /\ \E tail \in FailedTails(arrived') \cup {<<Line(arrived')>>} :
             WriteTail(tail)
    <3>1. CASE CallAppend
      <4>1. arrived' = arrived + 1 /\ arrived' \in Frames
        BY <3>1, WriterAssumption DEF CallAppend, Frames
      <4>2. ~AppendDisabled
        BY DEF AppendDisabled, writerVars
      <4> QED BY <3>1, <4>1, <4>2
          DEF CallAppend, AppendPayload, AppendSucceeds, AppendFails
    <3>2. CASE CrashInAppend
      <4>1. out \in Paths /\ arrived' = arrived + 1 /\ arrived' \in Frames
        BY <3>2, WriterAssumption DEF CrashInAppend, Frames
      <4>2. \E tail \in FailedTails(arrived') : WriteTail(tail)
        BY <3>2 DEF CrashInAppend, FailedTails
      <4> QED BY <4>1, <4>2
    <3>3. ASSUME NEW save \in BOOLEAN, NEW path \in Paths \cup {EmptyPath},
                 CallConfigure(save, path)
          PROVE  FALSE
      BY <3>3, ConfigureKeepsInv DEF CallConfigure
    <3> QED BY <3>1, <3>2, <3>3 DEF WriterNext, Restart, writerVars
  <2>2. ASSUME NEW p \in Paths
        PROVE  /\ \A i \in DOMAIN files[p] : /\ i \in DOMAIN files'[p]
                                             /\ files'[p][i] = files[p][i]
               /\ files[p] \in Seq(Chunks) /\ files'[p] \in Seq(Chunks)
    BY <2>1, TailKeepsOrder
  <2>3. ASSUME NEW p \in Paths PROVE Len(files'[p]) >= Len(files[p])
    <3>1. CASE Len(files[p]) = 0
      BY <2>2, <3>1
    <3>2. CASE Len(files[p]) # 0
      <4>1. Len(files[p]) \in DOMAIN files'[p]
        BY <2>2, <3>2
      <4> QED BY <2>2, <4>1
    <3> QED BY <3>1, <3>2
  <2> QED BY <2>2, <2>3
<1> QED BY <1>1, WriterInvariant, PTL DEF WriterSpec, AppendOnly
=============================================================================
