----------------------- MODULE DetectionResultWriter -----------------------
(***************************************************************************)
(* The append-only JSON Lines sink of detection_sender_node                *)
(* (detection_result_writer.cpp): configure() closes and re-opens the      *)
(* output file, append() writes one line and flushes it, and any failure   *)
(* leaves the writer disabled until the next configure().                  *)
(*                                                                         *)
(* A frame is the number of the Detection3DArray that was received, its    *)
(* JSON text is not modelled.  A file is a sequence of chunks: a whole     *)
(* chunk is a line with its '\n', a torn one a fragment without it.        *)
(* path_ and format_ only serve messages and are left out; a file that is  *)
(* open is identified by its path.                                         *)
(***************************************************************************)
EXTENDS Naturals, Sequences

CONSTANTS
  Paths,       \* the non-empty values of result_output_path
  EmptyPath,   \* the value "" of result_output_path
  NoFile,      \* out_ of a stream that is not open
  MaxFrames    \* bound: the number of frames a behaviour receives

ASSUME WriterAssumption ==
  /\ EmptyPath \notin Paths
  /\ NoFile \notin Paths
  /\ MaxFrames \in Nat

VARIABLES
  enabled,     \* enabled_
  out,         \* out_: the path of the open file, or NoFile
  last_error,  \* last_error_, reduced to the kind of the message
  files,       \* the disk: the chunks of each file
  reported,    \* history: the frames append() said it wrote to each file
  arrived      \* the number of frames received so far

streamVars == <<enabled, out, last_error>>
diskVars == <<files, reported>>
writerVars == <<enabled, out, last_error, files, reported>>

Frames == 1 .. MaxFrames
Errors == {"none", "empty_path", "open_failed", "write_failed"}
Chunks == [frame : Frames, whole : BOOLEAN]

Line(f) == [frame |-> f, whole |-> TRUE]
Fragment(f) == [frame |-> f, whole |-> FALSE]

WriterTypeOK ==
  /\ enabled \in BOOLEAN
  /\ out \in Paths \cup {NoFile}
  /\ last_error \in Errors
  /\ files \in [Paths -> Seq(Chunks)]
  /\ reported \in [Paths -> SUBSET Frames]
  /\ arrived \in 0 .. MaxFrames

-----------------------------------------------------------------------------
(***************************************************************************)
(* configure()                                                             *)
(***************************************************************************)
Disabled(error) == [enabled |-> FALSE, out |-> NoFile, last_error |-> error]
OpenOn(path) == [enabled |-> TRUE, out |-> path, last_error |-> "none"]

\* Slip: the empty path is handed to open() like any other.
EmptyPathNotRefused(save, path) ==
  IF save THEN {OpenOn(path), Disabled("open_failed")} ELSE {Disabled("none")}

\* The states configure({enabled: save, path}) can leave the stream in; the
\* operating system decides whether the file can be opened.
ConfigureOutcomes(save, path) ==
  IF ~save THEN {Disabled("none")}
  ELSE IF path = EmptyPath THEN {Disabled("empty_path")}
  ELSE {OpenOn(path), Disabled("open_failed")}

\* Slip: the file is opened without std::ios::app.
TruncatedByOpen(content) == <<>>

\* What a file holds after out_.open(..., out | app | binary).
ContentAfterOpen(content) == content

Configure(save, path) ==
  \E r \in ConfigureOutcomes(save, path) :
    /\ enabled' = r.enabled
    /\ out' = r.out
    /\ last_error' = r.last_error
    /\ files' = IF r.enabled
                THEN [files EXCEPT ![path] = ContentAfterOpen(@)]
                ELSE files
    /\ UNCHANGED reported

-----------------------------------------------------------------------------
(***************************************************************************)
(* append()                                                                *)
(***************************************************************************)
WriteTail(tail) == files' = [files EXCEPT ![out] = @ \o tail]

AppendDisabled ==
  /\ ~enabled \/ out = NoFile
  /\ UNCHANGED writerVars

AppendSucceeds(f) ==
  /\ enabled /\ out # NoFile
  /\ WriteTail(<<Line(f)>>)
  /\ reported' = [reported EXCEPT ![out] = @ \cup {f}]
  /\ UNCHANGED streamVars

\* What a failed write or flush can leave at the end of the file: the stream
\* buffer may have gone out not at all, in part, or whole, and close() writes
\* what the stream still holds once more.
FailedTails(f) ==
  {<<>>, <<Fragment(f)>>, <<Line(f)>>, <<Fragment(f), Line(f)>>}

\* Slip: the stream is tested before flush() only, so a lost line passes.
FlushNotChecked(f) ==
  /\ enabled /\ out # NoFile
  /\ \E tail \in FailedTails(f) : WriteTail(tail)
  /\ reported' = [reported EXCEPT ![out] = @ \cup {f}]
  /\ UNCHANGED streamVars

\* Slip: the failure is recorded and the file closed, enabled_ stays set.
FailureKeepsEnabled(f) ==
  /\ enabled /\ out # NoFile
  /\ \E tail \in FailedTails(f) : WriteTail(tail)
  /\ last_error' = "write_failed"
  /\ out' = NoFile
  /\ UNCHANGED <<enabled, reported>>

AppendFails(f) ==
  /\ enabled /\ out # NoFile
  /\ \E tail \in FailedTails(f) : WriteTail(tail)
  /\ last_error' = "write_failed"
  /\ out' = NoFile
  /\ enabled' = FALSE
  /\ UNCHANGED reported

AppendPayload(f) == AppendDisabled \/ AppendSucceeds(f) \/ AppendFails(f)

-----------------------------------------------------------------------------
(***************************************************************************)
(* The writer driven on its own: any caller, and a process that can be     *)
(* killed and started again at any time, also in the middle of an append.  *)
(***************************************************************************)
WriterInit ==
  /\ enabled = FALSE
  /\ out = NoFile
  /\ last_error = "none"
  /\ files = [p \in Paths |-> <<>>]
  /\ reported = [p \in Paths |-> {}]
  /\ arrived = 0

CallConfigure(save, path) ==
  /\ Configure(save, path)
  /\ UNCHANGED arrived

CallAppend ==
  /\ arrived < MaxFrames
  /\ arrived' = arrived + 1
  /\ AppendPayload(arrived')

\* A new process starts with a writer that was never configured.
FreshWriter ==
  /\ enabled' = FALSE
  /\ out' = NoFile
  /\ last_error' = "none"
  /\ UNCHANGED reported

Restart ==
  /\ FreshWriter
  /\ UNCHANGED <<files, arrived>>

\* The process dies inside append(), before it returns.
CrashInAppend ==
  /\ enabled /\ out # NoFile
  /\ arrived < MaxFrames
  /\ arrived' = arrived + 1
  /\ \E tail \in {<<>>, <<Fragment(arrived')>>, <<Line(arrived')>>} :
       WriteTail(tail)
  /\ FreshWriter

WriterNext ==
  \/ \E save \in BOOLEAN, path \in Paths \cup {EmptyPath} :
       CallConfigure(save, path)
  \/ CallAppend
  \/ Restart
  \/ CrashInAppend

WriterSpec == WriterInit /\ [][WriterNext]_<<writerVars, arrived>>

-----------------------------------------------------------------------------
(***************************************************************************)
(* Properties                                                              *)
(***************************************************************************)

\* The header promises "a stable state (either disabled or open for append)"
\* after every configure, and a writer that is disabled after every failure:
\* enabled_ and the open stream never disagree, and no error is pending while
\* the writer is open.
WriterStable ==
  /\ enabled <=> out # NoFile
  /\ enabled => last_error = "none"

\* "Previous runs at the same path are preserved": whatever is configured,
\* fails or is restarted, a file is only ever extended at its end.
AppendOnly ==
  [][\A p \in Paths :
       /\ Len(files'[p]) >= Len(files[p])
       /\ \A i \in DOMAIN files[p] : files'[p][i] = files[p][i]]_files

\* A frame that append() reported as written is on the disk as a whole line,
\* exactly once, and the lines of a file are in the order of the frames
\* (FR-012: one frame, one line, in publish order), across reconfigurations,
\* failures and restarts.
WrittenAt(p, i, f) == files[p][i] = Line(f)

ReportedOnceInOrder ==
  \A p \in Paths :
    /\ \A f \in reported[p] : \E i \in DOMAIN files[p] : WrittenAt(p, i, f)
    /\ \A i, j \in DOMAIN files[p] :
         (i < j /\ files[p][i].whole) => files[p][i].frame < files[p][j].frame

\* The header's reason for the trailing '\n': it keeps "the file parseable
\* line-by-line", so a frame reported as written starts on a line of its own.
ReportedLinesParseable ==
  \A p \in Paths : \A f \in reported[p] :
    \E i \in DOMAIN files[p] :
      /\ WrittenAt(p, i, f)
      /\ i > 1 => files[p][i - 1].whole
=============================================================================
