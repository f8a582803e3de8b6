-------------------------- MODULE CommandRecorder --------------------------
(***************************************************************************)
(* Recording a command: the child's two streams are copied to the          *)
(* operator's, which may push back, and captured on the way, the digest    *)
(* whole and the text up to a limit; when the child has ended and closed   *)
(* both, one file is written.  Two recorders of one command use one file,  *)
(* and a review reads it whenever it likes.                                *)
(*                                                                         *)
(* A stream is the offsets at which its chunks end; a file is the blocks   *)
(* it holds, each tagged with the recorder that wrote it.                  *)
(***************************************************************************)
EXTENDS Integers, Sequences

CONSTANTS
  Recorders,
  ChunkLengths,         \* lengths of a chunk
  MaxChunks(_),         \* bound on what the child of a recorder says in all
  RawCap, ExcerptLimit, \* of the text captured and of the text written
  Blocks(_),            \* length of the file a recorder writes
  Handwritten           \* transcripts written by other tools: [status, exit]

\* A file holds at least one block, and a review that reads no recorder names none.
ASSUME RecorderAssumption ==
  /\ ChunkLengths \subseteq Nat /\ RawCap \in Nat /\ ExcerptLimit \in Nat
  /\ \A r \in Recorders : Blocks(r) \in Nat \ {0}
  /\ "nobody" \notin Recorders /\ "hand" \notin Recorders

VARIABLES
  recorder, \* recorder -> "idle", "running", "settled", "opened", "done" or "dead"
  child,    \* recorder -> "none", "running", "exited" or "closed"
  code,     \* recorder -> how its child ended
  said,     \* recorder -> stream -> what the child wrote
  capture,  \* recorder -> stream -> what was captured
  paused,   \* recorder -> streams that wait for the operator's to drain
  exitCode, \* recorder -> what the recorder was told
  file,     \* the blocks of the transcript file; a handwritten one is a record
  review    \* what the review read

reVars == <<recorder, child, code, said, capture, paused, exitCode, file, review>>

Streams == {"stdout", "stderr"}
Length(stream) == IF stream = <<>> THEN 0 ELSE stream[Len(stream)]
Longer(stream, n) == Append(stream, Length(stream) + n)
AtMost(limit, n) == IF n <= limit THEN n ELSE limit
NoCapture == [digest |-> <<>>, raw |-> 0, truncated |-> FALSE]
NotRun == -1
NotRead == [status |-> "unread", by |-> "nobody"]

RecorderInit ==
  /\ recorder = [r \in Recorders |-> "idle"] /\ child = [r \in Recorders |-> "none"]
  /\ code = [r \in Recorders |-> "none"]
  /\ said = [r \in Recorders |-> [s \in Streams |-> <<>>]]
  /\ capture = [r \in Recorders |-> [s \in Streams |-> NoCapture]]
  /\ paused = [r \in Recorders |-> {}]
  /\ exitCode = [r \in Recorders |-> NotRun]
  /\ file = <<>> /\ review = NotRead

-----------------------------------------------------------------------------
(* The child *)

Spawn(r) ==
  /\ recorder[r] = "idle" /\ recorder' = [recorder EXCEPT ![r] = "running"]
  /\ \E started \in BOOLEAN :
       /\ child' = [child EXCEPT ![r] = IF started THEN "running" ELSE "closed"]
       /\ code' = [code EXCEPT ![r] = IF started THEN "none" ELSE "absent"]
  /\ UNCHANGED <<said, capture, paused, exitCode, file, review>>

\* The child, or after it ended a process that it left behind, writes to a pipe.
Say(r, s) ==
  /\ child[r] \in {"running", "exited"}
  /\ Len(said[r]["stdout"]) + Len(said[r]["stderr"]) < MaxChunks(r)
  /\ \E n \in ChunkLengths : said' = [said EXCEPT ![r][s] = Longer(@, n)]
  /\ UNCHANGED <<recorder, child, code, capture, paused, exitCode, file, review>>

End(r) ==
  /\ child[r] = "running" /\ child' = [child EXCEPT ![r] = "exited"]
  /\ \E c \in {"zero", "other", "signal"} : code' = [code EXCEPT ![r] = c]
  /\ UNCHANGED <<recorder, said, capture, paused, exitCode, file, review>>

\* Nobody holds the pipes any more and they are read to their end.
ClosePipes(r) ==
  /\ child[r] = "exited" /\ child' = [child EXCEPT ![r] = "closed"]
  /\ \A s \in Streams : Len(capture[r][s].digest) = Len(said[r][s])
  /\ UNCHANGED <<recorder, code, said, capture, paused, exitCode, file, review>>

-----------------------------------------------------------------------------
(* The recorder *)

\* The digest sees every chunk, the text is cut.
Captured(c, n) ==
  [digest |-> Longer(c.digest, n), raw |-> AtMost(RawCap, c.raw + n),
   truncated |-> c.truncated \/ c.raw + n > RawCap]

TeeChunk(r, s) ==
  /\ recorder[r] = "running" /\ s \notin paused[r]
  /\ LET read == capture[r][s].digest
     IN /\ Len(read) < Len(said[r][s])
        /\ capture' = [capture EXCEPT ![r][s] = Captured(@, said[r][s][Len(read) + 1] - Length(read))]
  /\ \E canContinue \in BOOLEAN : paused' = IF canContinue THEN paused ELSE [paused EXCEPT ![r] = @ \cup {s}]
  /\ UNCHANGED <<recorder, child, code, said, exitCode, file, review>>

Drain(r, s) ==
  /\ s \in paused[r] /\ recorder[r] = "running"
  /\ paused' = [paused EXCEPT ![r] = @ \ {s}]
  /\ UNCHANGED <<recorder, child, code, said, capture, exitCode, file, review>>

\* Defect: the recorder's own message is shown but not captured.
MutSettle(r, status, message) ==
  /\ recorder' = [recorder EXCEPT ![r] = "settled"]
  /\ exitCode' = [exitCode EXCEPT ![r] = status]
  /\ said' = IF message THEN [said EXCEPT ![r]["stderr"] = Longer(@, 1)] ELSE said
  /\ UNCHANGED <<child, code, capture, paused, file, review>>

\* How a command that was not started or was stopped ended is said on its stderr.
Settle(r, status, message) ==
  /\ recorder' = [recorder EXCEPT ![r] = "settled"]
  /\ exitCode' = [exitCode EXCEPT ![r] = status]
  /\ capture' = IF message THEN [capture EXCEPT ![r]["stderr"] = Captured(@, 1)] ELSE capture
  /\ said' = IF message THEN [said EXCEPT ![r]["stderr"] = Longer(@, 1)] ELSE said
  /\ UNCHANGED <<child, code, paused, file, review>>

\* A command that cannot be started: the error is the one thing it says.  The close
\* that follows finds the recorder settled.
OnError(r) ==
  /\ recorder[r] = "running" /\ code[r] = "absent"
  /\ Settle(r, 127, TRUE)

OnClose(r) ==
  /\ recorder[r] = "running" /\ child[r] = "closed" /\ code[r] # "absent"
  /\ Settle(r, IF code[r] = "zero" THEN 0 ELSE 1, code[r] = "signal")

\* The file is emptied, then written.
Open(r) ==
  /\ recorder[r] = "settled" /\ recorder' = [recorder EXCEPT ![r] = "opened"]
  /\ file' = <<>>
  /\ UNCHANGED <<child, code, said, capture, paused, exitCode, review>>

WriteTranscriptFile(r) ==
  /\ recorder[r] = "opened" /\ recorder' = [recorder EXCEPT ![r] = "done"]
  /\ file' = [i \in 1..(IF Len(file) > Blocks(r) THEN Len(file) ELSE Blocks(r)) |->
                IF i <= Blocks(r) THEN r ELSE file[i]]
  /\ UNCHANGED <<child, code, said, capture, paused, exitCode, review>>

KillRecorder(r) ==
  /\ recorder[r] \notin {"idle", "done", "dead"} /\ recorder' = [recorder EXCEPT ![r] = "dead"]
  /\ UNCHANGED <<child, code, said, capture, paused, exitCode, file, review>>

-----------------------------------------------------------------------------
(* The review *)

\* Defect: a command that was not run keeps the status nobody gave it.
MutNormalizeStatus(status, exit) ==
  IF status = "none" /\ exit # NotRun THEN (IF exit = 0 THEN "passed" ELSE "failed") ELSE status

\* A status that is given is believed; without one the exit code decides.
NormalizeStatus(status, exit) ==
  IF status # "none" THEN status
  ELSE CASE exit = 0 -> "passed" [] exit = NotRun -> "unknown" [] OTHER -> "failed"

\* The length of the text that was kept, and whether more was cut.
Excerpt(c) == AtMost(ExcerptLimit, c.raw)
Truncated(c) == c.truncated \/ c.raw > ExcerptLimit

Recorded(r) ==
  [status |-> IF exitCode[r] = 0 THEN "passed" ELSE "failed", by |-> r, exit |-> exitCode[r],
   hash |-> [s \in Streams |-> capture[r][s].digest],
   excerpt |-> [s \in Streams |-> Excerpt(capture[r][s])],
   truncated |-> \E s \in Streams : Truncated(capture[r][s])]

\* A file that does not parse fails the review; one too long is kept as unknown.
IndexCommandTranscriptFiles ==
  /\ review = NotRead
  /\ \/ \E r \in Recorders : file = [i \in 1..Blocks(r) |-> r] /\ review' = Recorded(r)
     \/ /\ \A r \in Recorders : file # [i \in 1..Blocks(r) |-> r]
        /\ review' = [status |-> "error", by |-> "nobody"]
     \/ \E h \in Handwritten :
          review' = [status |-> IF h.large THEN "unknown" ELSE NormalizeStatus(h.status, h.exit),
                     by |-> "hand", exit |-> h.exit]
  /\ UNCHANGED <<recorder, child, code, said, capture, paused, exitCode, file>>

-----------------------------------------------------------------------------
RecorderNext ==
  \/ \E r \in Recorders :
       Spawn(r) \/ End(r) \/ ClosePipes(r) \/ OnError(r) \/ OnClose(r) \/ Open(r) \/ WriteTranscriptFile(r) \/ KillRecorder(r)
  \/ \E r \in Recorders, s \in Streams : Say(r, s) \/ TeeChunk(r, s) \/ Drain(r, s)
  \/ IndexCommandTranscriptFiles

RecorderSpec == RecorderInit /\ [][RecorderNext]_reVars

RecorderTypeOK ==
  /\ \A r \in Recorders : /\ recorder[r] \in {"idle", "running", "settled", "opened", "done", "dead"}
                          /\ child[r] \in {"none", "running", "exited", "closed"}
                          /\ paused[r] \subseteq Streams
  /\ file \in Seq(Recorders)
  /\ review.status \in {"unread", "passed", "failed", "unknown", "error"}

-----------------------------------------------------------------------------
\* Whatever the child and the processes it leaves behind write and however the
\* operator's streams push back, whichever recorders overlap or are killed and
\* whenever the review reads: what it reads of a recorder is all of one run.  It
\* passed only if the child ended with code zero, its digests are of everything said
\* on each stream, and its excerpts are everything or are marked as cut.
TranscriptIsWhole ==
  review.by \in Recorders =>
    LET r == review.by
        all == [s \in Streams |-> Length(said[r][s])]
    IN /\ (review.status = "passed") = (code[r] = "zero")
       /\ \A s \in Streams : review.hash[s] = said[r][s] /\ review.excerpt[s] <= all[s]
       /\ ~review.truncated => \A s \in Streams : review.excerpt[s] = all[s]
=============================================================================
