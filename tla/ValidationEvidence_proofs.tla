---------------------- MODULE ValidationEvidence_proofs ----------------------
(***************************************************************************)
(* Proofs about ValidationEvidence, for every set of contents, commands    *)
(* and reports and for every limit; and, in its second part, about         *)
(* CommandRecorder, where a transcript comes from, for every set of        *)
(* recorders, every length of a chunk, of a file and of what is kept.      *)
(***************************************************************************)
EXTENDS ValidationEvidence, CommandRecorder, FiniteSetTheorems, SequenceTheorems, WellFoundedInduction, TLAPS

\* The stamp of the recorder is the commit at which the command started, in
\* every run and in every transcript.  This is what makes comparing stamps
\* with the pinned head mean anything.
StampsTrue ==
  /\ \A run \in runs : run.sha = run.began
  /\ \A c \in Commands :
       transcripts[c] # None => transcripts[c].sha = transcripts[c].began

IInv == TypeOK /\ StampsTrue

-----------------------------------------------------------------------------
(***************************************************************************)
(* The operators.                                                          *)
(***************************************************************************)

\* A nonempty set of numbers has a least one.
LEMMA LeastNumber ==
  ASSUME NEW S \in SUBSET Nat, S # {}
  PROVE  \E m \in S : \A k \in S : ~(k < m)
<1>1. PICK m \in S : \A k \in S : <<k, m>> \notin OpToRel(<, Nat)
  BY WFMin, NatLessThanWellFounded, Zenon
<1>2. \A k \in S : ~(k < m)
  BY <1>1, Zenon DEF OpToRel
<1> QED BY <1>2

\* However the list is cut, a failing case is kept if one was read: nothing is
\* ordered ahead of the first of them.
LEMMA KeptFailure ==
  ASSUME NEW cases \in Reports, NEW i \in Ingested(cases), cases[i] = "failed"
  PROVE  \E j \in Kept(cases) : cases[j] = "failed"
<1> DEFINE Failing == {j \in Ingested(cases) : cases[j] = "failed"}
<1>1. Ingested(cases) \subseteq Nat /\ Failing # {}
  BY ReportsAssumption DEF Ingested
<1>2. PICK j \in Failing : \A k \in Failing : ~(k < j)
  BY <1>1, LeastNumber
<1>3. {k \in Ingested(cases) : Ahead(cases, k, j)} = {}
  <2> SUFFICES ASSUME NEW k \in Ingested(cases) PROVE ~Ahead(cases, k, j)
    OBVIOUS
  <2>1. CASE cases[k] = "failed"
    BY <1>2, <2>1 DEF Ahead, Rank
  <2>2. CASE cases[k] # "failed"
    BY <1>2, <2>2 DEF Ahead, Rank
  <2> QED BY <2>1, <2>2
<1>4. Cardinality({k \in Ingested(cases) : Ahead(cases, k, j)}) < MaxParsed
  BY <1>3, FS_EmptySet, BoundsAssumption
<1> QED BY <1>2, <1>4 DEF Kept

\* Folding keeps every missing check in some effect.
LEMMA FoldHidesNone ==
  ASSUME NEW missing
  PROVE  UNION MissingEffects(missing) = missing
BY DEF MissingEffects

-----------------------------------------------------------------------------
(***************************************************************************)
(* The inductive invariant.                                                *)
(***************************************************************************)

LEMMA InitIInv == Init => IInv
BY NoneAssumption DEF Init, IInv, TypeOK, StampsTrue, Transcript

LEMMA StepIInv == IInv /\ [Next]_vars => IInv'
<1> SUFFICES ASSUME IInv, [Next]_vars PROVE IInv'
  OBVIOUS
<1> USE DEF IInv, TypeOK
<1>1. CASE Edit
  BY <1>1 DEF Edit, StampsTrue
<1>2. CASE Commit
  BY <1>2 DEF Commit, StampsTrue
<1>3. CASE Checkout
  <2>1. head' \in Contents /\ tree' \in Contents
    BY <1>3 DEF Checkout
  <2> QED BY <1>3, <2>1 DEF Checkout, StampsTrue
<1>4. CASE WriteReport
  BY <1>4 DEF WriteReport, StampsTrue
<1>5. CASE WriteFeedback
  BY <1>5 DEF WriteFeedback, Feedback, StampsTrue
<1>6. ASSUME NEW c \in Commands, StartRun(c) PROVE IInv'
  BY <1>6 DEF StartRun, Run, StampsTrue
<1>7. ASSUME NEW run \in runs, KillRun(run) PROVE IInv'
  BY <1>7 DEF KillRun, StampsTrue
<1>8. ASSUME NEW run \in runs, NEW ok \in BOOLEAN, FinishRun(run, ok)
      PROVE  IInv'
  <2>1. run \in Run /\ run.sha = run.began
    BY DEF StampsTrue
  <2>2. TranscriptOf(run, ok) \in Transcript
    BY <2>1 DEF TranscriptOf, Transcript, Run
  <2>3. TypeOK'
    BY <1>8, <2>1, <2>2 DEF FinishRun, Run
  <2>4. \A c \in Commands :
          transcripts'[c] = transcripts[c] \/ transcripts'[c] = TranscriptOf(run, ok)
    BY <1>8 DEF FinishRun
  <2>5. TranscriptOf(run, ok).sha = TranscriptOf(run, ok).began
    BY <2>1 DEF TranscriptOf
  <2>6. runs' \subseteq runs
    BY <1>8 DEF FinishRun
  <2>7. StampsTrue'
    BY <2>4, <2>5, <2>6 DEF StampsTrue
  <2> QED BY <2>3, <2>7
<1>9. CASE PinHead
  BY <1>9 DEF PinHead, StampsTrue
<1>10. CASE EndReview
  BY <1>10 DEF EndReview, StampsTrue
<1>11. CASE UNCHANGED vars
  BY <1>11 DEF vars, StampsTrue
<1> QED
  BY <1>1, <1>2, <1>3, <1>4, <1>5, <1>6, <1>7, <1>8, <1>9, <1>10, <1>11 DEF Next

LEMMA Invariance == Spec => []IInv
BY InitIInv, StepIInv, PTL DEF Spec

\* Every variable of the evidence chain stays in its type.
THEOREM TypeCorrect == Spec => []TypeOK
<1>1. IInv => TypeOK
  BY DEF IInv
<1> QED BY <1>1, Invariance, PTL

-----------------------------------------------------------------------------
(***************************************************************************)
(* What the verdict rests on.                                              *)
(***************************************************************************)

\* Commands that count as passed at h did start at h and pass.
LEMMA PassedWasRun ==
  ASSUME StampsTrue, NEW h
  PROVE  PassedAt(h) \subseteq PassedFrom(h)
BY DEF StampsTrue, PassedAt, PassedFrom, BeganAt

\* A review that answers "probably safe" without a report has a command that
\* really started at the pinned head and passed, a test run if the change has
\* an implementation without its tests.
THEOREM SafeIsEarned == Spec => []SafeAfterRun
<1>1. ASSUME IInv PROVE SafeAfterRun
  <2> SUFFICES ASSUME Safe
               PROVE  /\ report = None => PassedFrom(pinned) # {}
                      /\ untested => PassedFrom(pinned) \cap TestCommands # {}
    BY DEF SafeAfterRun
  <2>1. "passed" \in Current(pinned) /\ ~Untested(pinned)
    BY DEF Safe, Decision
  <2>2. PassedAt(pinned) \subseteq PassedFrom(pinned)
    BY <1>1, PassedWasRun DEF IInv
  <2>3. ASSUME report = None PROVE PassedFrom(pinned) # {}
    <3>1. PICK item \in TranscriptItems :
            item.outcome = "passed" /\ item.sha = pinned
      BY <2>1, <2>3 DEF Current, ParsedItems, IsCurrent
    <3>2. PICK c \in Commands :
            /\ transcripts[c] # None
            /\ item = [outcome |-> IF transcripts[c].ok THEN "passed" ELSE "failed",
                       sha |-> transcripts[c].sha]
      BY DEF TranscriptItems
    <3>3. transcripts[c].ok /\ transcripts[c].sha = pinned
      BY <3>1, <3>2
    <3> QED BY <2>2, <3>2, <3>3 DEF PassedAt
  <2>4. ASSUME untested PROVE PassedFrom(pinned) \cap TestCommands # {}
    BY <2>1, <2>2, <2>4 DEF Untested
  <2> QED BY <2>3, <2>4
<1> QED BY <1>1, Invariance, PTL

\* A review that blocks on failing tests has a failure of the pinned head, or
\* a report with a failing case, before a clean tree.
THEOREM BlockIsEarned == Spec => []BlockIsCurrent
<1>1. ASSUME IInv PROVE BlockIsCurrent
  <2> SUFFICES ASSUME TestBlocker(pinned)
               PROVE  /\ tree = head
                      /\ \/ \E c \in BeganAt(pinned) : ~transcripts[c].ok
                         \/ /\ report # None
                            /\ \E i \in DOMAIN report : report[i] = "failed"
    BY DEF BlockIsCurrent
  <2>1. PICK item \in ParsedItems(pinned) \cup TranscriptItems :
          IsCurrent(item, pinned) /\ item.outcome = "failed"
    BY DEF TestBlocker, Current
  <2>2. tree = head /\ item.sha = pinned
    BY <2>1 DEF IsCurrent, Clean
  <2>3. CASE item \in ParsedItems(pinned)
    <3>1. report # None
      BY <2>3 DEF ParsedItems
    <3>2. PICK i \in Kept(report) :
            item = [outcome |-> report[i], sha |-> pinned]
      BY <2>3, <3>1 DEF ParsedItems
    <3>3. i \in DOMAIN report /\ report[i] = "failed"
      BY <2>1, <3>2 DEF Kept, Ingested
    <3> QED BY <2>2, <3>1, <3>3
  <2>4. CASE item \in TranscriptItems
    <3>1. PICK c \in Commands :
            /\ transcripts[c] # None
            /\ item = [outcome |-> IF transcripts[c].ok THEN "passed" ELSE "failed",
                       sha |-> transcripts[c].sha]
      BY <2>4 DEF TranscriptItems
    <3>2. ~transcripts[c].ok /\ transcripts[c].sha = pinned
      BY <2>1, <2>2, <3>1
    <3>3. c \in BeganAt(pinned)
      BY <1>1, <3>1, <3>2 DEF IInv, StampsTrue, BeganAt
    <3> QED BY <2>2, <3>2, <3>3
  <2> QED BY <2>3, <2>4
<1> QED BY <1>1, Invariance, PTL

\* However long a report is and wherever a failing case stands, a review of a
\* clean tree blocks on it if it was read.
THEOREM FailureBlocks == Spec => []FailureNotHidden
<1>1. ASSUME IInv PROVE FailureNotHidden
  <2> SUFFICES ASSUME tree = head, report # None,
                      NEW i \in Ingested(report), report[i] = "failed"
               PROVE  Decision(pinned) = "block_before_merge"
    BY DEF FailureNotHidden
  <2>1. report \in Reports
    BY <1>1 DEF IInv, TypeOK
  <2>2. PICK j \in Kept(report) : report[j] = "failed"
    BY <2>1, KeptFailure
  <2> DEFINE item == [outcome |-> "failed", sha |-> pinned]
  <2>3. item \in ParsedItems(pinned)
    BY <2>2 DEF ParsedItems
  <2>4. IsCurrent(item, pinned)
    BY DEF IsCurrent, Clean
  <2>5. "failed" \in Current(pinned)
    BY <2>3, <2>4 DEF Current
  <2> QED BY <2>5 DEF Decision, TestBlocker
<1> QED BY <1>1, Invariance, PTL

\* Every required check is named by a blocker unless a note for the pinned head
\* or a command that passed there confirms it, whatever the display limit.
THEOREM ChecksAreNamed == Spec => []MissingCheckNamed
<1>1. ASSUME IInv PROVE MissingCheckNamed
  <2> SUFFICES ASSUME NEW k \in Checks, k \notin MissingChecks(pinned)
               PROVE  \/ /\ feedback # None
                         /\ feedback.head_sha = pinned
                         /\ k \in feedback.notes
                      \/ \E c \in PassedFrom(pinned) : k \in Records[c]
    BY FoldHidesNone DEF MissingCheckNamed, CheckBlockers
  <2>1. CASE k \in NotedAt(pinned)
    BY <2>1 DEF NotedAt
  <2>2. CASE \E c \in PassedAt(pinned) : k \in Records[c]
    BY <1>1, <2>2, PassedWasRun DEF IInv
  <2> QED BY <2>1, <2>2 DEF MissingChecks
<1> QED BY <1>1, Invariance, PTL

-----------------------------------------------------------------------------
(***************************************************************************)
(* The recorder: what is captured is the beginning of what is said, all of *)
(* it once the pipes are closed, and only a recorder that is done has      *)
(* blocks in the file.                                                     *)
(***************************************************************************)

RecorderStates == {"idle", "running", "settled", "opened", "done", "dead"}
ChildStates == {"none", "running", "exited", "closed"}
Codes == {"none", "absent", "zero", "other", "signal"}
Captures == [digest : Seq(Nat), raw : Nat, truncated : BOOLEAN]

RecorderTypes ==
  /\ recorder \in [Recorders -> RecorderStates]
  /\ child \in [Recorders -> ChildStates]
  /\ code \in [Recorders -> Codes]
  /\ said \in [Recorders -> [Streams -> Seq(Nat)]]
  /\ capture \in [Recorders -> [Streams -> Captures]]
  /\ paused \in [Recorders -> SUBSET Streams]
  /\ exitCode \in [Recorders -> Int]
  /\ file \in Seq(Recorders)

\* The offsets of a stream do not decrease.
Grows(stream) == \A i, j \in 1..Len(stream) : i <= j => stream[i] <= stream[j]

\* What is captured of a stream: its beginning, in the digest whole and in the text cut.
Follows(c, stream) ==
  /\ Len(c.digest) <= Len(stream)
  /\ \A i \in 1..Len(c.digest) : c.digest[i] = stream[i]
  /\ c.raw = AtMost(RawCap, Length(c.digest))
  /\ c.truncated <=> (Length(c.digest) > RawCap)

Tee(r, s) == Grows(said[r][s]) /\ Follows(capture[r][s], said[r][s])

\* A recorder and its child go together; once the pipes are closed all is captured.
Course(r) ==
  /\ recorder[r] = "idle" => child[r] = "none"
  /\ child[r] = "none" =>
       recorder[r] = "idle" /\ code[r] = "none" /\ \A s \in Streams : said[r][s] = <<>>
  /\ child[r] = "running" => code[r] = "none"
  /\ code[r] = "absent" => child[r] = "closed"
  /\ child[r] = "closed" => \A s \in Streams : capture[r][s].digest = said[r][s]
  /\ recorder[r] \in {"settled", "opened", "done"} =>
       child[r] = "closed" /\ ((exitCode[r] = 0) <=> (code[r] = "zero"))

\* A block of the file is one of a recorder that is done, and so is what was read.
Written ==
  /\ \A i \in 1..Len(file) : recorder[file[i]] = "done"
  /\ review.by \in Recorders => recorder[review.by] = "done" /\ review = Recorded(review.by)

RecorderInv ==
  /\ RecorderTypes
  /\ \A r \in Recorders : Course(r) /\ \A s \in Streams : Tee(r, s)
  /\ Written

-----------------------------------------------------------------------------
\* The empty stream, and one made longer by n.
LEMMA LongerStream ==
  ASSUME NEW stream \in Seq(Nat), NEW n \in Nat
  PROVE  /\ Length(stream) \in Nat
         /\ Longer(stream, n) \in Seq(Nat)
         /\ Len(Longer(stream, n)) = Len(stream) + 1
         /\ \A i \in 1..Len(stream) : Longer(stream, n)[i] = stream[i]
         /\ Longer(stream, n)[Len(stream) + 1] = Length(stream) + n
         /\ Length(Longer(stream, n)) = Length(stream) + n
<1>1. Length(stream) \in Nat
  <2>1. CASE stream = <<>>
    BY <2>1 DEF Length
  <2>2. CASE stream # <<>>
    <3>1. Len(stream) \in 1..Len(stream)
      BY <2>2, EmptySeq, LenProperties
    <3> QED  BY <2>2, <3>1, ElementOfSeq DEF Length
  <2> QED  BY <2>1, <2>2
<1> DEFINE more == Append(stream, Length(stream) + n)
<1>2. Length(stream) + n \in Nat
  BY <1>1
<1>3. /\ more \in Seq(Nat) /\ Len(more) = Len(stream) + 1
      /\ \A i \in 1..Len(stream) : more[i] = stream[i]
      /\ more[Len(stream) + 1] = Length(stream) + n
  BY <1>2, AppendProperties
<1>4. more # <<>>
  BY <1>3, LenProperties, EmptySeq
<1>5. Length(more) = Length(stream) + n
  BY <1>3, <1>4 DEF Length
<1> QED  BY <1>1, <1>3, <1>5 DEF Longer

\* The last offset bounds the others.
LEMMA LastIsGreatest ==
  ASSUME NEW stream \in Seq(Nat), Grows(stream), NEW i \in 1..Len(stream)
  PROVE  stream[i] <= Length(stream)
<1>1. stream # <<>> /\ Len(stream) \in 1..Len(stream) /\ i <= Len(stream)
  BY EmptySeq, LenProperties
<1> QED  BY <1>1 DEF Length, Grows

LEMMA LongerGrows ==
  ASSUME NEW stream \in Seq(Nat), NEW n \in Nat, Grows(stream)
  PROVE  Grows(Longer(stream, n))
<1> DEFINE more == Longer(stream, n)
<1>1. /\ Length(stream) \in Nat /\ Len(stream) \in Nat /\ more \in Seq(Nat) /\ Len(more) = Len(stream) + 1
      /\ \A i \in 1..Len(stream) : more[i] = stream[i]
      /\ more[Len(stream) + 1] = Length(stream) + n
  BY LongerStream, LenProperties
<1> SUFFICES ASSUME NEW i \in 1..Len(more), NEW j \in 1..Len(more), i <= j
             PROVE  more[i] <= more[j]
  BY DEF Grows
<1> HIDE DEF more
<1>2. CASE j \in 1..Len(stream)
  <2>1. i \in 1..Len(stream)
    BY <1>1, <1>2
  <2> QED  BY <1>1, <1>2, <2>1 DEF Grows
<1>3. CASE j = Len(stream) + 1 /\ i \in 1..Len(stream)
  <2>1. stream[i] <= Length(stream) /\ stream[i] \in Nat
    BY <1>3, LastIsGreatest, ElementOfSeq
  <2> QED  BY <1>1, <1>3, <2>1
<1>4. CASE j = Len(stream) + 1 /\ i = Len(stream) + 1
  BY <1>1, <1>4
<1> QED  BY <1>1, <1>2, <1>3, <1>4

\* A capture of the beginning of a stream stays one when the stream grows.
LEMMA FollowsLonger ==
  ASSUME NEW c \in Captures, NEW stream \in Seq(Nat), NEW n \in Nat, Follows(c, stream)
  PROVE  Follows(c, Longer(stream, n))
<1> DEFINE more == Longer(stream, n)
<1>1. Len(c.digest) \in Nat /\ Len(stream) \in Nat
  BY LenProperties DEF Captures
<1>2. Len(more) = Len(stream) + 1 /\ \A i \in 1..Len(stream) : more[i] = stream[i]
  BY LongerStream
<1> HIDE DEF more
<1>3. Len(c.digest) <= Len(more) /\ \A i \in 1..Len(c.digest) : c.digest[i] = more[i]
  BY <1>1, <1>2 DEF Follows
<1> QED  BY <1>3 DEF Follows, more

\* Capturing the next chunk, up to the offset at which it ends.
LEMMA CapturesNext ==
  ASSUME NEW c \in Captures, NEW stream \in Seq(Nat), NEW n \in Nat, Follows(c, stream),
         Len(c.digest) < Len(stream), stream[Len(c.digest) + 1] = Length(c.digest) + n
  PROVE  Captured(c, n) \in Captures /\ Follows(Captured(c, n), stream)
<1> DEFINE d == c.digest
           more == Longer(d, n)
           next == Captured(c, n)
<1>1. /\ d \in Seq(Nat) /\ c.raw \in Nat /\ c.truncated \in BOOLEAN /\ Len(d) \in Nat /\ Len(stream) \in Nat
  BY LenProperties DEF Captures
<1>2. /\ Length(d) \in Nat /\ more \in Seq(Nat) /\ Len(more) = Len(d) + 1
      /\ \A i \in 1..Len(d) : more[i] = d[i]
      /\ more[Len(d) + 1] = Length(d) + n
      /\ Length(more) = Length(d) + n
  BY <1>1, LongerStream
<1>3. RawCap \in Nat
  BY RecorderAssumption
<1>4. next.digest = more /\ next.raw = AtMost(RawCap, c.raw + n) /\ next.truncated = (c.truncated \/ c.raw + n > RawCap)
  BY DEF Captured
<1>5. next.raw = AtMost(RawCap, Length(more)) /\ next.raw \in Nat
  <2>1. c.raw = AtMost(RawCap, Length(d))
    BY DEF Follows
  <2>2. ASSUME NEW k \in Nat, c.raw = AtMost(RawCap, k)
        PROVE  AtMost(RawCap, c.raw + n) = AtMost(RawCap, k + n) /\ AtMost(RawCap, c.raw + n) \in Nat
    BY <1>1, <1>3, <2>2 DEF AtMost
  <2> QED  BY <1>2, <1>4, <2>1, <2>2
<1>6. next.truncated <=> (Length(more) > RawCap)
  <2>1. c.raw = AtMost(RawCap, Length(d)) /\ (c.truncated <=> (Length(d) > RawCap))
    BY DEF Follows
  <2>2. ASSUME NEW k \in Nat, c.raw = AtMost(RawCap, k)
        PROVE  (k > RawCap \/ c.raw + n > RawCap) <=> (k + n > RawCap)
    BY <1>1, <1>3, <2>2 DEF AtMost
  <2>3. (Length(d) > RawCap \/ c.raw + n > RawCap) <=> (Length(d) + n > RawCap)
    BY <1>2, <2>1, <2>2
  <2>4. Length(more) = Length(d) + n
    BY <1>2
  <2> QED  BY <1>4, <2>1, <2>3, <2>4
<1>7. next \in Captures
  BY <1>2, <1>4, <1>5 DEF Captured, Captures
<1>8. \A i \in 1..Len(more) : more[i] = stream[i]
  <2> SUFFICES ASSUME NEW i \in 1..Len(more)  PROVE more[i] = stream[i]
    OBVIOUS
  <2> HIDE DEF more
  <2>1. i \in 1..Len(d) \/ i = Len(d) + 1
    BY <1>1, <1>2
  <2> QED  BY <1>2, <2>1 DEF Follows
<1>9. Len(more) <= Len(stream)
  BY <1>1, <1>2
<1>10. next.digest = more
  BY <1>4
<1> HIDE DEF next, more
<1>11. Follows(next, stream)
  BY <1>5, <1>6, <1>8, <1>9, <1>10 DEF Follows
<1> QED  BY <1>7, <1>11 DEF next

-----------------------------------------------------------------------------
LEMMA RecorderInitInv == RecorderInit => RecorderInv
<1> SUFFICES ASSUME RecorderInit  PROVE RecorderInv
  OBVIOUS
<1> USE DEF RecorderInit
<1>1. RecorderTypes
  BY DEF RecorderTypes, RecorderStates, ChildStates, Codes, Captures, NoCapture, NotRun
<1>2. ASSUME NEW r \in Recorders, NEW s \in Streams  PROVE Tee(r, s)
  <2>1. said[r][s] = <<>> /\ capture[r][s] = NoCapture
    BY <1>2
  <2>2. Grows(<<>>) /\ Length(<<>>) = 0
    BY DEF Grows, Length
  <2>3. Follows(NoCapture, <<>>)
    BY <2>2, RecorderAssumption DEF Follows, NoCapture, AtMost
  <2> QED  BY <2>1, <2>2, <2>3 DEF Tee
<1>3. ASSUME NEW r \in Recorders  PROVE Course(r)
  BY <1>3 DEF Course
<1>4. Written
  BY RecorderAssumption DEF Written, NotRead
<1> QED  BY <1>1, <1>2, <1>3, <1>4 DEF RecorderInv

-----------------------------------------------------------------------------
\* What was written and read stays true while the recorders that are done keep what
\* they captured.
LEMMA WrittenKept ==
  ASSUME RecorderInv, UNCHANGED <<file, review>>,
         \A q \in Recorders : recorder[q] = "done" =>
           recorder'[q] = "done" /\ exitCode'[q] = exitCode[q] /\ capture'[q] = capture[q]
  PROVE  Written'
<1>1. \A i \in 1..Len(file) : file[i] \in Recorders
  BY ElementOfSeq DEF RecorderInv, RecorderTypes
<1>2. \A i \in 1..Len(file') : recorder'[file'[i]] = "done"
  BY <1>1 DEF RecorderInv, Written
<1>3. ASSUME review.by \in Recorders
      PROVE  recorder'[review.by] = "done" /\ review = Recorded(review.by)'
  BY <1>3 DEF RecorderInv, Written, Recorded
<1> QED  BY <1>2, <1>3 DEF Written

\* A step of one recorder or of its child: the others are as they were.
LEMMA OthersKept ==
  ASSUME RecorderInv, NEW r \in Recorders,
         \A q \in Recorders \ {r} :
           /\ recorder'[q] = recorder[q] /\ child'[q] = child[q] /\ code'[q] = code[q]
           /\ said'[q] = said[q] /\ capture'[q] = capture[q] /\ exitCode'[q] = exitCode[q],
         RecorderTypes', Course(r)', \A s \in Streams : Tee(r, s)', Written'
  PROVE  RecorderInv'
<1>1. ASSUME NEW q \in Recorders  PROVE Course(q)' /\ \A s \in Streams : Tee(q, s)'
  <2>1. CASE q = r
    BY <2>1
  <2>2. CASE q # r
    <3>1. Course(q) /\ \A s \in Streams : Tee(q, s)
      BY DEF RecorderInv
    <3>2. Course(q)'
      BY <2>2, <3>1 DEF Course
    <3>3. \A s \in Streams : Tee(q, s)'
      BY <2>2, <3>1 DEF Tee
    <3> QED  BY <3>2, <3>3
  <2> QED  BY <2>1, <2>2
<1> QED  BY <1>1 DEF RecorderInv

LEMMA SpawnInv ==
  ASSUME RecorderInv, NEW r \in Recorders, Spawn(r)
  PROVE  RecorderInv'
<1> USE DEF RecorderInv
<1>1. RecorderTypes'
  BY DEF Spawn, RecorderTypes, RecorderStates, ChildStates, Codes
<1>2. recorder'[r] = "running" /\ recorder[r] = "idle" /\ child'[r] \in {"running", "closed"}
      /\ (code'[r] = IF child'[r] = "running" THEN "none" ELSE "absent")
      /\ said' = said /\ capture' = capture /\ exitCode' = exitCode
  BY DEF Spawn, RecorderTypes
<1>3. \A s \in Streams : said[r][s] = <<>> /\ capture[r][s].digest = <<>>
  <2>1. \A s \in Streams : said[r][s] = <<>>
    BY <1>2 DEF Course
  <2>2. ASSUME NEW s \in Streams  PROVE capture[r][s].digest = <<>>
    <3>1. Tee(r, s) /\ capture[r][s].digest \in Seq(Nat) /\ said[r][s] = <<>>
      BY <2>1 DEF RecorderTypes, Captures
    <3>2. Len(capture[r][s].digest) <= 0
      BY <3>1 DEF Tee, Follows
    <3> QED  BY <3>1, <3>2, EmptySeq, LenProperties
  <2> QED  BY <2>1, <2>2
<1>4. Course(r)'
  BY <1>2, <1>3 DEF Course
<1>5. \A s \in Streams : Tee(r, s)'
  BY <1>2 DEF Tee
<1>6. \A q \in Recorders \ {r} :
        recorder'[q] = recorder[q] /\ child'[q] = child[q] /\ code'[q] = code[q]
  BY DEF Spawn, RecorderTypes
<1>7. Written'
  BY <1>2, <1>6, WrittenKept DEF Spawn
<1> HIDE DEF RecorderInv
<1> QED  BY <1>1, <1>2, <1>4, <1>5, <1>6, <1>7, OthersKept

LEMMA SayInv ==
  ASSUME RecorderInv, NEW r \in Recorders, NEW s \in Streams, Say(r, s)
  PROVE  RecorderInv'
<1> USE DEF RecorderInv
<1>1. PICK n \in ChunkLengths : said' = [said EXCEPT ![r][s] = Longer(@, n)]
  BY DEF Say
<1>2. n \in Nat /\ said[r][s] \in Seq(Nat) /\ Longer(said[r][s], n) \in Seq(Nat)
  BY RecorderAssumption, LongerStream DEF RecorderTypes
<1>3. /\ recorder' = recorder /\ child' = child /\ code' = code /\ capture' = capture /\ exitCode' = exitCode
      /\ child[r] \in {"running", "exited"} /\ file' = file /\ review' = review /\ paused' = paused
  BY DEF Say
<1>4. /\ said'[r][s] = Longer(said[r][s], n)
      /\ \A t \in Streams \ {s} : said'[r][t] = said[r][t]
      /\ \A q \in Recorders \ {r} : said'[q] = said[q]
  BY <1>1 DEF RecorderTypes
<1>5. RecorderTypes'
  <2>1. said' \in [Recorders -> [Streams -> Seq(Nat)]]
    BY <1>1, <1>2 DEF RecorderTypes
  <2> QED  BY <1>3, <2>1 DEF RecorderTypes
<1>6. Course(r)'
  BY <1>3 DEF Course
<1>7. ASSUME NEW t \in Streams  PROVE Tee(r, t)'
  <2>1. Tee(r, t) /\ capture[r][t] \in Captures
    BY DEF RecorderTypes
  <2>2. CASE t = s
    BY <1>2, <1>3, <1>4, <2>1, <2>2, LongerGrows, FollowsLonger DEF Tee
  <2>3. CASE t # s
    BY <1>3, <1>4, <2>1, <2>3 DEF Tee
  <2> QED  BY <2>2, <2>3
<1>8. Written'
  BY <1>3, WrittenKept
<1> HIDE DEF RecorderInv
<1> QED  BY <1>3, <1>4, <1>5, <1>6, <1>7, <1>8, OthersKept

LEMMA EndInv ==
  ASSUME RecorderInv, NEW r \in Recorders, End(r)
  PROVE  RecorderInv'
<1> USE DEF RecorderInv
<1>1. RecorderTypes'
  BY DEF End, RecorderTypes, RecorderStates, ChildStates, Codes
<1>2. /\ child[r] = "running" /\ child'[r] = "exited" /\ code'[r] \in {"zero", "other", "signal"}
      /\ recorder' = recorder /\ said' = said /\ capture' = capture /\ exitCode' = exitCode
      /\ file' = file /\ review' = review
  BY DEF End, RecorderTypes
<1>3. Course(r)'
  BY <1>2 DEF Course
<1>4. \A s \in Streams : Tee(r, s)'
  BY <1>2 DEF Tee
<1>5. \A q \in Recorders \ {r} : child'[q] = child[q] /\ code'[q] = code[q]
  BY DEF End, RecorderTypes
<1>6. Written'
  BY <1>2, WrittenKept
<1> HIDE DEF RecorderInv
<1> QED  BY <1>1, <1>2, <1>3, <1>4, <1>5, <1>6, OthersKept

LEMMA ClosePipesInv ==
  ASSUME RecorderInv, NEW r \in Recorders, ClosePipes(r)
  PROVE  RecorderInv'
<1> USE DEF RecorderInv
<1>1. RecorderTypes'
  BY DEF ClosePipes, RecorderTypes, RecorderStates, ChildStates
<1>2. /\ child[r] = "exited" /\ child'[r] = "closed" /\ code' = code
      /\ recorder' = recorder /\ said' = said /\ capture' = capture /\ exitCode' = exitCode
      /\ file' = file /\ review' = review
  BY DEF ClosePipes, RecorderTypes
<1>3. ASSUME NEW s \in Streams  PROVE capture[r][s].digest = said[r][s]
  <2>1. /\ capture[r][s].digest \in Seq(Nat) /\ said[r][s] \in Seq(Nat)
        /\ Len(capture[r][s].digest) = Len(said[r][s]) /\ Follows(capture[r][s], said[r][s])
    BY DEF ClosePipes, Tee, RecorderTypes, Captures
  <2> QED  BY <2>1, SeqEqual DEF Follows
<1>4. Course(r)'
  BY <1>2, <1>3 DEF Course
<1>5. \A s \in Streams : Tee(r, s)'
  BY <1>2 DEF Tee
<1>6. \A q \in Recorders \ {r} : child'[q] = child[q]
  BY DEF ClosePipes, RecorderTypes
<1>7. Written'
  BY <1>2, WrittenKept
<1> HIDE DEF RecorderInv
<1> QED  BY <1>1, <1>2, <1>4, <1>5, <1>6, <1>7, OthersKept

LEMMA TeeChunkInv ==
  ASSUME RecorderInv, NEW r \in Recorders, NEW s \in Streams, TeeChunk(r, s)
  PROVE  RecorderInv'
<1> USE DEF RecorderInv
<1> DEFINE c == capture[r][s]
           next == said[r][s][Len(c.digest) + 1]
           n == next - Length(c.digest)
<1>1. /\ recorder[r] = "running" /\ Len(c.digest) < Len(said[r][s])
      /\ capture' = [capture EXCEPT ![r][s] = Captured(c, n)]
      /\ recorder' = recorder /\ child' = child /\ code' = code /\ said' = said /\ exitCode' = exitCode
      /\ file' = file /\ review' = review
  BY DEF TeeChunk, RecorderTypes
<1>2. /\ c \in Captures /\ said[r][s] \in Seq(Nat) /\ Tee(r, s)
      /\ Len(c.digest) \in Nat /\ Len(said[r][s]) \in Nat /\ c.digest \in Seq(Nat) /\ Length(c.digest) \in Nat
  <2>1. c \in Captures /\ said[r][s] \in Seq(Nat) /\ Tee(r, s)
    BY DEF RecorderTypes
  <2>2. c.digest \in Seq(Nat)
    BY <2>1 DEF Captures
  <2>3. Length(c.digest) \in Nat
    BY <2>2, LongerStream
  <2> QED  BY <2>1, <2>2, <2>3, LenProperties
<1>3. Len(c.digest) + 1 \in 1..Len(said[r][s]) /\ next \in Nat
  <2>1. \A k, m \in Nat : k < m => k + 1 \in 1..m
    OBVIOUS
  <2>2. Len(c.digest) + 1 \in 1..Len(said[r][s])
    BY <1>1, <1>2, <2>1
  <2> QED  BY <1>2, <2>2, ElementOfSeq
<1>4. Length(c.digest) <= next
  <2>1. CASE c.digest = <<>>
    BY <1>3, <2>1 DEF Length
  <2>2. CASE c.digest # <<>>
    <3>1. Len(c.digest) \in 1..Len(c.digest) /\ Length(c.digest) = c.digest[Len(c.digest)]
      BY <1>2, <2>2, EmptySeq DEF Length
    <3>2. c.digest[Len(c.digest)] = said[r][s][Len(c.digest)]
      BY <1>2, <3>1 DEF Tee, Follows
    <3>3. Len(c.digest) \in 1..Len(said[r][s]) /\ Len(c.digest) <= Len(c.digest) + 1
      <4>1. \A k, m \in Nat : k < m /\ k \in 1..k => k \in 1..m /\ k <= k + 1
        OBVIOUS
      <4> QED  BY <1>1, <1>2, <3>1, <4>1
    <3> QED  BY <1>2, <1>3, <3>1, <3>2, <3>3 DEF Tee, Grows
  <2> QED  BY <2>1, <2>2
<1>5. n \in Nat /\ next = Length(c.digest) + n
  <2>1. \A k, m \in Nat : k <= m => m - k \in Nat /\ m = k + (m - k)
    OBVIOUS
  <2> QED  BY <1>2, <1>3, <1>4, <2>1
<1> HIDE DEF n, next
<1>6. Captured(c, n) \in Captures /\ Follows(Captured(c, n), said[r][s])
  BY <1>1, <1>2, <1>5, CapturesNext DEF Tee, next
<1>7. /\ capture'[r][s] = Captured(c, n)
      /\ \A t \in Streams \ {s} : capture'[r][t] = capture[r][t]
      /\ \A q \in Recorders \ {r} : capture'[q] = capture[q]
  BY <1>1 DEF RecorderTypes
<1>8. RecorderTypes'
  <2>1. capture' \in [Recorders -> [Streams -> Captures]]
    BY <1>1, <1>6 DEF RecorderTypes
  <2>2. paused' \in [Recorders -> SUBSET Streams]
    BY DEF TeeChunk, RecorderTypes
  <2> QED  BY <1>1, <2>1, <2>2 DEF RecorderTypes
<1>9. Course(r)'
  <2>1. child[r] # "closed"
    BY <1>1, <1>2 DEF Course
  <2> QED  BY <1>1, <2>1 DEF Course
<1>10. ASSUME NEW t \in Streams  PROVE Tee(r, t)'
  BY <1>1, <1>2, <1>6, <1>7 DEF Tee
<1>11. Written'
  BY <1>1, <1>7, WrittenKept
<1> HIDE DEF RecorderInv
<1> QED  BY <1>1, <1>7, <1>8, <1>9, <1>10, <1>11, OthersKept

LEMMA DrainInv ==
  ASSUME RecorderInv, NEW r \in Recorders, NEW s \in Streams, Drain(r, s)
  PROVE  RecorderInv'
<1> USE DEF RecorderInv
<1>1. /\ recorder' = recorder /\ child' = child /\ code' = code /\ said' = said /\ capture' = capture
      /\ exitCode' = exitCode /\ file' = file /\ review' = review
  BY DEF Drain
<1>2. RecorderTypes'
  BY DEF Drain, RecorderTypes
<1>3. Course(r)' /\ \A t \in Streams : Tee(r, t)'
  BY <1>1 DEF Course, Tee
<1>4. Written'
  BY <1>1, WrittenKept
<1> HIDE DEF RecorderInv
<1> QED  BY <1>1, <1>2, <1>3, <1>4, OthersKept

\* A recorder that settles, with or without a message of its own.
Settled(r, status) ==
  /\ recorder' = [recorder EXCEPT ![r] = "settled"]
  /\ exitCode' = [exitCode EXCEPT ![r] = status]
  /\ \/ /\ capture' = [capture EXCEPT ![r]["stderr"] = Captured(@, 1)]
        /\ said' = [said EXCEPT ![r]["stderr"] = Longer(@, 1)]
     \/ capture' = capture /\ said' = said
  /\ UNCHANGED <<child, code, paused, file, review>>

\* The recorder settles once everything is captured; its own message is captured as it
\* is said.
LEMMA SettleInv ==
  ASSUME RecorderInv, NEW r \in Recorders, NEW status \in Int,
         recorder[r] = "running", child[r] = "closed", (status = 0) <=> (code[r] = "zero"),
         Settled(r, status)
  PROVE  RecorderInv'
<1> USE DEF RecorderInv
<1>1. /\ recorder' = [recorder EXCEPT ![r] = "settled"] /\ exitCode' = [exitCode EXCEPT ![r] = status]
      /\ child' = child /\ code' = code /\ paused' = paused /\ file' = file /\ review' = review
      /\ \/ /\ capture' = [capture EXCEPT ![r]["stderr"] = Captured(@, 1)]
            /\ said' = [said EXCEPT ![r]["stderr"] = Longer(@, 1)]
         \/ capture' = capture /\ said' = said
  BY DEF Settled
<1> DEFINE e == "stderr"
           c == capture[r][e]
           heard == said[r][e]
<1>2. /\ e \in Streams /\ c \in Captures /\ heard \in Seq(Nat) /\ Tee(r, e) /\ c.digest = heard
      /\ Len(heard) \in Nat
  BY LenProperties DEF Streams, RecorderTypes, Course
<1>3. /\ Longer(heard, 1) \in Seq(Nat) /\ Len(Longer(heard, 1)) = Len(heard) + 1
      /\ Longer(heard, 1)[Len(heard) + 1] = Length(heard) + 1 /\ Grows(Longer(heard, 1))
      /\ Follows(c, Longer(heard, 1))
  BY <1>2, LongerStream, LongerGrows, FollowsLonger DEF Tee
<1>4. Captured(c, 1) \in Captures /\ Follows(Captured(c, 1), Longer(heard, 1))
  <2>1. Len(c.digest) < Len(Longer(heard, 1)) /\ Longer(heard, 1)[Len(c.digest) + 1] = Length(c.digest) + 1
    BY <1>2, <1>3
  <2> HIDE DEF c, heard
  <2> QED  BY <1>2, <1>3, <2>1, CapturesNext
<1>5. Captured(c, 1).digest = Longer(heard, 1)
  BY <1>2 DEF Captured
<1>6. /\ capture' \in [Recorders -> [Streams -> Captures]] /\ said' \in [Recorders -> [Streams -> Seq(Nat)]]
      /\ \A q \in Recorders \ {r} : capture'[q] = capture[q] /\ said'[q] = said[q]
      /\ \A t \in Streams \ {e} : capture'[r][t] = capture[r][t] /\ said'[r][t] = said[r][t]
      /\ \/ capture'[r][e] = Captured(c, 1) /\ said'[r][e] = Longer(heard, 1)
         \/ capture'[r][e] = c /\ said'[r][e] = heard
  <2>1. CASE capture' = capture /\ said' = said
    BY <2>1 DEF RecorderTypes
  <2>2. CASE /\ capture' = [capture EXCEPT ![r]["stderr"] = Captured(@, 1)]
             /\ said' = [said EXCEPT ![r]["stderr"] = Longer(@, 1)]
    <3>1. /\ capture \in [Recorders -> [Streams -> Captures]] /\ said \in [Recorders -> [Streams -> Seq(Nat)]]
          /\ Captured(c, 1) \in Captures /\ Longer(heard, 1) \in Seq(Nat)
      BY <1>3, <1>4 DEF RecorderTypes
    <3>2. capture' = [capture EXCEPT ![r][e] = Captured(c, 1)] /\ said' = [said EXCEPT ![r][e] = Longer(heard, 1)]
      BY <2>2
    <3> HIDE DEF c, heard, e
    <3> QED  BY <1>2, <3>1, <3>2
  <2> QED  BY <1>1, <2>1, <2>2
<1>7. RecorderTypes'
  BY <1>1, <1>6 DEF RecorderTypes, RecorderStates
<1> HIDE DEF e, c, heard
<1>8. ASSUME NEW t \in Streams  PROVE Tee(r, t)' /\ capture'[r][t].digest = said'[r][t]
  <2>1. Tee(r, t) /\ capture[r][t].digest = said[r][t]
    BY DEF Course
  <2>2. CASE t # e
    BY <1>6, <2>1, <2>2 DEF Tee
  <2>3. CASE t = e /\ capture'[r][e] = Captured(c, 1) /\ said'[r][e] = Longer(heard, 1)
    BY <1>3, <1>4, <1>5, <2>3 DEF Tee
  <2>4. CASE t = e /\ capture'[r][e] = c /\ said'[r][e] = heard
    BY <2>1, <2>4 DEF Tee, c, heard
  <2> QED  BY <1>6, <2>2, <2>3, <2>4
<1>9. recorder'[r] = "settled" /\ exitCode'[r] = status
      /\ \A q \in Recorders \ {r} : recorder'[q] = recorder[q] /\ exitCode'[q] = exitCode[q]
  BY <1>1 DEF RecorderTypes
<1>10. Course(r)'
  BY <1>1, <1>8, <1>9 DEF Course
<1>11. Written'
  BY <1>1, <1>6, <1>9, WrittenKept
<1> HIDE DEF RecorderInv
<1> QED  BY <1>1, <1>6, <1>7, <1>8, <1>9, <1>10, <1>11, OthersKept

LEMMA SettledInv ==
  ASSUME RecorderInv, NEW r \in Recorders, OnError(r) \/ OnClose(r)
  PROVE  RecorderInv'
<1>1. CASE OnError(r)
  <2>1. recorder[r] = "running" /\ child[r] = "closed" /\ code[r] = "absent"
    BY <1>1 DEF OnError, RecorderInv, Course
  <2>2. Settled(r, 127)
    BY <1>1 DEF OnError, Settle, Settled
  <2>3. 127 \in Int /\ ((127 = 0) <=> (code[r] = "zero"))
    BY <2>1
  <2> QED  BY <2>1, <2>2, <2>3, SettleInv
<1>2. CASE OnClose(r)
  <2> DEFINE status == IF code[r] = "zero" THEN 0 ELSE 1
  <2>1. recorder[r] = "running" /\ child[r] = "closed"
    BY <1>2 DEF OnClose
  <2>2. Settled(r, status)
    <3>1. CASE code[r] = "signal"
      BY <1>2, <3>1 DEF OnClose, Settle, Settled
    <3>2. CASE code[r] # "signal"
      BY <1>2, <3>2 DEF OnClose, Settle, Settled
    <3> QED  BY <3>1, <3>2
  <2>3. status \in Int /\ ((status = 0) <=> (code[r] = "zero"))
    OBVIOUS
  <2> HIDE DEF status
  <2> QED  BY <2>1, <2>2, <2>3, SettleInv
<1> QED  BY <1>1, <1>2

LEMMA OpenInv ==
  ASSUME RecorderInv, NEW r \in Recorders, Open(r)
  PROVE  RecorderInv'
<1> USE DEF RecorderInv
<1>1. /\ recorder[r] = "settled" /\ recorder' = [recorder EXCEPT ![r] = "opened"] /\ file' = <<>>
      /\ child' = child /\ code' = code /\ said' = said /\ capture' = capture /\ exitCode' = exitCode
      /\ paused' = paused /\ review' = review
  BY DEF Open
<1>2. RecorderTypes'
  BY <1>1, EmptySeq DEF RecorderTypes, RecorderStates
<1>3. recorder'[r] = "opened" /\ \A q \in Recorders \ {r} : recorder'[q] = recorder[q]
  BY <1>1 DEF RecorderTypes
<1>4. Course(r)' /\ \A s \in Streams : Tee(r, s)'
  BY <1>1, <1>3 DEF Course, Tee
<1>5. Written'
  <2>1. Len(file') = 0
    BY <1>1
  <2>2. ASSUME review.by \in Recorders  PROVE recorder'[review.by] = "done" /\ review = Recorded(review.by)'
    BY <1>1, <1>3, <2>2 DEF Written, Recorded
  <2> QED  BY <1>1, <2>1, <2>2 DEF Written
<1> HIDE DEF RecorderInv
<1> QED  BY <1>1, <1>2, <1>3, <1>4, <1>5, OthersKept

LEMMA WriteInv ==
  ASSUME RecorderInv, NEW r \in Recorders, WriteTranscriptFile(r)
  PROVE  RecorderInv'
<1> USE DEF RecorderInv
<1> DEFINE size == IF Len(file) > Blocks(r) THEN Len(file) ELSE Blocks(r)
<1>1. /\ recorder[r] = "opened" /\ recorder' = [recorder EXCEPT ![r] = "done"]
      /\ file' = [i \in 1..size |-> IF i <= Blocks(r) THEN r ELSE file[i]]
      /\ child' = child /\ code' = code /\ said' = said /\ capture' = capture /\ exitCode' = exitCode
      /\ paused' = paused /\ review' = review
  BY DEF WriteTranscriptFile
<1>2. /\ Blocks(r) \in Nat /\ Len(file) \in Nat /\ size \in Nat
      /\ \A i \in 1..Len(file) : file[i] \in Recorders /\ recorder[file[i]] = "done"
  BY RecorderAssumption, ElementOfSeq, LenProperties DEF RecorderTypes, Written
<1>3. recorder'[r] = "done" /\ \A q \in Recorders \ {r} : recorder'[q] = recorder[q]
  BY <1>1 DEF RecorderTypes
<1>4. ASSUME NEW i \in 1..size  PROVE file'[i] \in Recorders /\ recorder'[file'[i]] = "done"
  <2>1. CASE i <= Blocks(r)
    BY <1>1, <1>3, <2>1
  <2>2. CASE ~(i <= Blocks(r))
    <3>1. i \in 1..Len(file) /\ file'[i] = file[i]
      BY <1>1, <1>2, <2>2
    <3> QED  BY <1>2, <1>3, <3>1
  <2> QED  BY <2>1, <2>2
<1>5. file' \in Seq(Recorders) /\ Len(file') = size
  <2>1. \A i \in 1..size : (IF i <= Blocks(r) THEN r ELSE file[i]) \in Recorders
    BY <1>1, <1>4
  <2> HIDE DEF size
  <2> QED  BY <1>1, <1>2, <2>1, IsASeq
<1> HIDE DEF size
<1>6. RecorderTypes'
  BY <1>1, <1>5 DEF RecorderTypes, RecorderStates
<1>7. Course(r)' /\ \A s \in Streams : Tee(r, s)'
  BY <1>1, <1>3 DEF Course, Tee
<1>8. Written'
  <2>1. ASSUME review.by \in Recorders  PROVE recorder'[review.by] = "done" /\ review = Recorded(review.by)'
    BY <1>1, <1>3, <2>1 DEF Written, Recorded
  <2> QED  BY <1>1, <1>4, <1>5, <2>1 DEF Written
<1> HIDE DEF RecorderInv
<1> QED  BY <1>1, <1>3, <1>6, <1>7, <1>8, OthersKept

LEMMA KillInv ==
  ASSUME RecorderInv, NEW r \in Recorders, KillRecorder(r)
  PROVE  RecorderInv'
<1> USE DEF RecorderInv
<1>1. /\ recorder[r] \notin {"idle", "done"} /\ recorder' = [recorder EXCEPT ![r] = "dead"]
      /\ child' = child /\ code' = code /\ said' = said /\ capture' = capture /\ exitCode' = exitCode
      /\ paused' = paused /\ file' = file /\ review' = review
  BY DEF KillRecorder
<1>2. RecorderTypes'
  BY <1>1 DEF RecorderTypes, RecorderStates
<1>3. recorder'[r] = "dead" /\ \A q \in Recorders \ {r} : recorder'[q] = recorder[q]
  BY <1>1 DEF RecorderTypes
<1>4. Course(r)' /\ \A s \in Streams : Tee(r, s)'
  BY <1>1, <1>3 DEF Course, Tee
<1>5. Written'
  BY <1>1, <1>3, WrittenKept
<1> HIDE DEF RecorderInv
<1> QED  BY <1>1, <1>2, <1>3, <1>4, <1>5, OthersKept

LEMMA ReviewReadsInv ==
  ASSUME RecorderInv, IndexCommandTranscriptFiles
  PROVE  RecorderInv'
<1> USE DEF RecorderInv
<1>1. /\ recorder' = recorder /\ child' = child /\ code' = code /\ said' = said /\ capture' = capture
      /\ exitCode' = exitCode /\ paused' = paused /\ file' = file
  BY DEF IndexCommandTranscriptFiles
<1>2. RecorderTypes' /\ \A r \in Recorders : Course(r)' /\ \A s \in Streams : Tee(r, s)'
  BY <1>1 DEF RecorderTypes, Course, Tee
<1>3. ASSUME review'.by \in Recorders
      PROVE  recorder[review'.by] = "done" /\ review' = Recorded(review'.by)
  <2>1. PICK r \in Recorders : file = [i \in 1..Blocks(r) |-> r] /\ review' = Recorded(r)
    BY <1>3, RecorderAssumption DEF IndexCommandTranscriptFiles
  <2>2. review'.by = r
    BY <2>1 DEF Recorded
  <2>3. Blocks(r) \in Nat /\ Blocks(r) >= 1
    BY RecorderAssumption
  <2>4. 1 \in 1..Len(file) /\ file[1] = r
    BY <2>1, <2>3, LenProperties DEF RecorderTypes
  <2> QED  BY <2>1, <2>2, <2>4 DEF Written
<1>4. Written'
  BY <1>1, <1>3 DEF Written, Recorded
<1> QED  BY <1>2, <1>4

-----------------------------------------------------------------------------
LEMMA RecorderStepInv == RecorderInv /\ [RecorderNext]_reVars => RecorderInv'
<1> SUFFICES ASSUME RecorderInv, [RecorderNext]_reVars  PROVE RecorderInv'
  OBVIOUS
<1>1. ASSUME NEW r \in Recorders,
             Spawn(r) \/ End(r) \/ ClosePipes(r) \/ OnError(r) \/ OnClose(r) \/ Open(r)
               \/ WriteTranscriptFile(r) \/ KillRecorder(r)
      PROVE  RecorderInv'
  BY <1>1, SpawnInv, EndInv, ClosePipesInv, SettledInv, OpenInv, WriteInv, KillInv
<1>2. ASSUME NEW r \in Recorders, NEW s \in Streams, Say(r, s) \/ TeeChunk(r, s) \/ Drain(r, s)
      PROVE  RecorderInv'
  BY <1>2, SayInv, TeeChunkInv, DrainInv
<1>3. CASE UNCHANGED reVars
  BY <1>3 DEF reVars, RecorderInv, RecorderTypes, Course, Tee, Written, Recorded
<1> QED  BY <1>1, <1>2, <1>3, ReviewReadsInv DEF RecorderNext

\* Text that is kept whole is as long as the stream; text that is cut is shorter.
LEMMA ExcerptOf ==
  ASSUME NEW c \in Captures, NEW stream \in Seq(Nat), Follows(c, stream), c.digest = stream
  PROVE  Excerpt(c) <= Length(stream) /\ (~Truncated(c) => Excerpt(c) = Length(stream))
<1>1. Length(stream) \in Nat /\ RawCap \in Nat /\ ExcerptLimit \in Nat
  BY LongerStream, RecorderAssumption
<1>2. c.raw = AtMost(RawCap, Length(stream)) /\ (c.truncated <=> (Length(stream) > RawCap))
  BY DEF Follows
<1>3. ASSUME NEW n \in Nat, c.raw = AtMost(RawCap, n), c.truncated <=> (n > RawCap)
      PROVE  Excerpt(c) <= n /\ (~Truncated(c) => Excerpt(c) = n)
  BY <1>1, <1>3 DEF Excerpt, Truncated, AtMost
<1> QED  BY <1>1, <1>2, <1>3

LEMMA RecorderInvImplies == RecorderInv => TranscriptIsWhole
<1> SUFFICES ASSUME RecorderInv, review.by \in Recorders
             PROVE  LET r == review.by
                        all == [s \in Streams |-> Length(said[r][s])]
                    IN /\ (review.status = "passed") = (code[r] = "zero")
                       /\ \A s \in Streams : review.hash[s] = said[r][s] /\ review.excerpt[s] <= all[s]
                       /\ ~review.truncated => \A s \in Streams : review.excerpt[s] = all[s]
  BY DEF TranscriptIsWhole
<1> DEFINE r == review.by
<1>1. /\ recorder[r] = "done" /\ review = Recorded(r) /\ Course(r) /\ \A s \in Streams : Tee(r, s)
  BY DEF RecorderInv, Written
<1>2. ((exitCode[r] = 0) <=> (code[r] = "zero")) /\ \A s \in Streams : capture[r][s].digest = said[r][s]
  BY <1>1 DEF Course
<1>3. /\ review.status = (IF exitCode[r] = 0 THEN "passed" ELSE "failed")
      /\ \A s \in Streams : review.hash[s] = capture[r][s].digest /\ review.excerpt[s] = Excerpt(capture[r][s])
      /\ ~review.truncated => \A s \in Streams : ~Truncated(capture[r][s])
  <2>1. /\ review.status = (IF exitCode[r] = 0 THEN "passed" ELSE "failed")
        /\ review.hash = [s \in Streams |-> capture[r][s].digest]
        /\ review.excerpt = [s \in Streams |-> Excerpt(capture[r][s])]
    BY <1>1 DEF Recorded
  <2>2. review.truncated <=> \E s \in Streams : Truncated(capture[r][s])
    <3> DEFINE cut == \E s \in Streams : Truncated(capture[r][s])
    <3>1. Recorded(r).truncated = cut
      BY DEF Recorded
    <3> HIDE DEF cut
    <3>2. review.truncated = cut
      BY <1>1, <3>1
    <3>3. review.truncated <=> cut
      BY <3>2, Zenon
    <3> QED  BY <3>3 DEF cut
  <2>3. ~review.truncated => \A s \in Streams : ~Truncated(capture[r][s])
    BY <2>2
  <2> QED  BY <2>1, <2>3
<1>4. ASSUME NEW s \in Streams
      PROVE  /\ Excerpt(capture[r][s]) <= Length(said[r][s])
             /\ ~Truncated(capture[r][s]) => Excerpt(capture[r][s]) = Length(said[r][s])
  <2>1. capture[r][s] \in Captures /\ said[r][s] \in Seq(Nat)
    BY DEF RecorderInv, RecorderTypes
  <2> QED  BY <1>1, <1>2, <2>1, ExcerptOf DEF Tee
<1>5. (review.status = "passed") = (code[r] = "zero")
  BY <1>2, <1>3
<1> QED  BY <1>2, <1>3, <1>4, <1>5

\* However its streams push back, whichever recorders overlap or are killed and whenever the
\* review reads, what it reads of a recorder is all of one run: the child's own status, digests
\* of everything that was said, and no text cut without a mark (runner.ts, bounded-stream-capture.js).
THEOREM TranscriptsAreWhole == RecorderSpec => []TranscriptIsWhole
<1>1. RecorderInit => RecorderInv
  BY RecorderInitInv
<1>2. RecorderInv /\ [RecorderNext]_reVars => RecorderInv'
  BY RecorderStepInv
<1>3. RecorderInv => TranscriptIsWhole
  BY RecorderInvImplies
<1> QED  BY <1>1, <1>2, <1>3, PTL DEF RecorderSpec
=============================================================================
