------------------------- MODULE ValidationEvidence -------------------------
(***************************************************************************)
(* From a validation run to the merge verdict.  `review-surfaces run`      *)
(* wraps a command and leaves one transcript file per command; a test      *)
(* runner may leave a JUnit report; a reviewer may note manual checks in a *)
(* feedback file.  A review pins HEAD first and reads all of that later,   *)
(* while commits, edits and other runs go on around it, and must decide    *)
(* from evidence that is about the head it pinned.                         *)
(*                                                                         *)
(* A commit is named by its content.  What a review would decide now is    *)
(* the operator Decision; it is a function of what is on disk, so it needs *)
(* no variable.  Evidence that no producer pins to a commit (commands      *)
(* merely claimed, failures merely reported in feedback) never passes the  *)
(* admission test of decision-admission.ts and is left out.  The modelled  *)
(* change set is not empty and lies outside the evidence files, and every  *)
(* required check matches one of its paths.                                *)
(***************************************************************************)
EXTENDS Naturals, FiniteSets

CONSTANTS
  Contents,      \* contents of the working tree, each also a commit's name
  Commands,      \* commands that are recorded, each with its own file
  TestCommands,  \* those classify.ts takes for a broad test run
  Records,       \* Records[c]: the manual checks the text of c confirms
  NumChecks,     \* number of manual checks that policy requires
  MaxVisible,    \* MAX_MISSING_TEAM_POLICY_QUESTION_EFFECTS
  MaxCases,      \* MAX_CASES, of a report that is read
  MaxParsed,     \* MAX_PARSED_TEST_EVIDENCE, of those that become evidence
  Reports,       \* the lists of case outcomes a report may hold
  MaxRuns,       \* bound on runs in progress at once
  None           \* an absent file, or no review in progress

Checks == 1..NumChecks
Outcomes == {"passed", "failed", "skipped"}

ASSUME CommandsAssumption ==
  /\ TestCommands \subseteq Commands
  /\ Records \in [Commands -> SUBSET Checks]
ASSUME BoundsAssumption ==
  /\ NumChecks \in Nat /\ MaxVisible \in Nat \ {0}
  /\ MaxCases \in Nat /\ MaxParsed \in Nat \ {0} /\ MaxRuns \in Nat
ASSUME ReportsAssumption ==
  \A cases \in Reports :
    /\ DOMAIN cases \subseteq Nat \ {0} /\ IsFiniteSet(DOMAIN cases)
    /\ cases \in [DOMAIN cases -> Outcomes]
ASSUME NoneAssumption == None \notin Contents \cup Reports

VARIABLES
  head,         \* the commit HEAD names
  tree,         \* what the working tree holds
  untested,     \* the change has an implementation file but no changed test
  runs,         \* recorded commands whose child has not ended
  transcripts,  \* the transcript file of each command
  report,       \* the JUnit file: its cases in order, of no known commit
  feedback,     \* the validation notes of the feedback file
  pinned        \* the head a review has resolved, None outside a review

vars == <<head, tree, untested, runs, transcripts, report, feedback, pinned>>

\* `sha` is what the recorder stamps; `began` is what HEAD really was when the
\* command started, which no file holds.
Run == [command : Commands, sha : Contents, began : Contents]
Transcript == [sha : Contents, ok : BOOLEAN, began : Contents]
Feedback == [head_sha : Contents, notes : SUBSET Checks]

\* Every variable stays in its type.
TypeOK ==
  /\ head \in Contents /\ tree \in Contents /\ untested \in BOOLEAN
  /\ runs \subseteq Run
  /\ transcripts \in [Commands -> Transcript \cup {None}]
  /\ report \in Reports \cup {None}
  /\ feedback \in Feedback \cup {None}
  /\ pinned \in Contents \cup {None}

Init ==
  /\ head \in Contents
  /\ tree = head
  /\ untested \in BOOLEAN
  /\ runs = {}
  /\ transcripts = [c \in Commands |-> None]
  /\ report = None
  /\ feedback = None
  /\ pinned = None

(***************************************************************************)
(* The checkout and the two files people and test runners write.           *)
(***************************************************************************)
Edit ==
  /\ tree' \in Contents \ {tree}
  /\ UNCHANGED <<head, untested, runs, transcripts, report, feedback, pinned>>

Commit ==
  /\ tree # head
  /\ head' = tree
  /\ UNCHANGED <<tree, untested, runs, transcripts, report, feedback, pinned>>

\* git checkout, to this commit (dropping edits) or, from a clean tree, another.
Checkout ==
  /\ head' \in IF tree = head THEN Contents \ {head} ELSE {head}
  /\ tree' = head'
  /\ UNCHANGED <<untested, runs, transcripts, report, feedback, pinned>>

WriteReport ==
  /\ report' \in Reports
  /\ UNCHANGED <<head, tree, untested, runs, transcripts, feedback, pinned>>

WriteFeedback ==
  /\ \E notes \in SUBSET Checks : feedback' = [head_sha |-> head, notes |-> notes]
  /\ UNCHANGED <<head, tree, untested, runs, transcripts, report, pinned>>

(***************************************************************************)
(* recordCommandTranscript: HEAD is resolved before the child starts.  The *)
(* default id is a hash of the command, so the file of an earlier run of   *)
(* the same command is overwritten by whichever run ends last.             *)
(***************************************************************************)
StartRun(c) ==
  /\ Cardinality(runs) < MaxRuns
  /\ runs' = runs \cup {[command |-> c, sha |-> head, began |-> head]}
  /\ UNCHANGED <<head, tree, untested, transcripts, report, feedback, pinned>>

\* Defects: a field left unset; HEAD resolved when the child has ended.
MutTranscriptOf(run, ok) == [sha |-> None, ok |-> ok, began |-> run.began]
HeadReadAtTheEnd(run, ok) == [sha |-> head, ok |-> ok, began |-> run.began]

TranscriptOf(run, ok) == [sha |-> run.sha, ok |-> ok, began |-> run.began]

FinishRun(run, ok) ==
  /\ run \in runs
  /\ runs' = runs \ {run}
  /\ transcripts' = [transcripts EXCEPT ![run.command] = TranscriptOf(run, ok)]
  /\ UNCHANGED <<head, tree, untested, report, feedback, pinned>>

\* The recorder dies with its child: nothing is written, the old file stays.
KillRun(run) ==
  /\ run \in runs
  /\ runs' = runs \ {run}
  /\ UNCHANGED <<head, tree, untested, transcripts, report, feedback, pinned>>

(***************************************************************************)
(* collectInputs resolves head_sha once; git status, the transcripts, the  *)
(* report and the feedback are read afterwards.                            *)
(***************************************************************************)
PinHead ==
  /\ pinned = None
  /\ pinned' = head
  /\ UNCHANGED <<head, tree, untested, runs, transcripts, report, feedback>>

EndReview ==
  /\ pinned # None
  /\ pinned' = None
  /\ UNCHANGED <<head, tree, untested, runs, transcripts, report, feedback>>

Next ==
  \/ Edit \/ Commit \/ Checkout \/ WriteReport \/ WriteFeedback
  \/ \E c \in Commands : StartRun(c)
  \/ \E run \in runs : KillRun(run) \/ \E ok \in BOOLEAN : FinishRun(run, ok)
  \/ PinHead \/ EndReview

Spec == Init /\ [][Next]_vars

(***************************************************************************)
(* analyzeRisks: the validation evidence of a collection pinned at h.      *)
(***************************************************************************)

\* ingestTestOutputs: the cases of a report that are read at all.
Ingested(cases) == {i \in DOMAIN cases : i <= MaxCases}

\* orderTestCasesFailuresFirst: failed, then skipped, then passed.  Equal cases
\* are taken in file order; the code sorts them by name, which nothing here sees.
Rank(outcome) ==
  CASE outcome = "failed" -> 0 [] outcome = "skipped" -> 1 [] OTHER -> 2

Ahead(cases, i, j) ==
  \/ Rank(cases[i]) < Rank(cases[j])
  \/ Rank(cases[i]) = Rank(cases[j]) /\ i < j

\* Defect: the list is cut before it is ordered.
MutKept(cases) == {j \in Ingested(cases) : j <= MaxParsed}

\* The cases left after the list is ordered and cut to MaxParsed.
Kept(cases) ==
  {j \in Ingested(cases) :
     Cardinality({i \in Ingested(cases) : Ahead(cases, i, j)}) < MaxParsed}

\* A report carries no commit of its own; each case is stamped with h.
ParsedItems(h) ==
  IF report = None THEN {}
  ELSE {[outcome |-> report[i], sha |-> h] : i \in Kept(report)}

TranscriptItems ==
  {[outcome |-> IF transcripts[c].ok THEN "passed" ELSE "failed",
    sha |-> transcripts[c].sha] :
     c \in {d \in Commands : transcripts[d] # None}}

\* git status lists nothing but the evidence files, which are ignored.
Clean == tree = head

\* Defect: evidence of any commit counts.
MutIsCurrent(item, h) == Clean

\* isCurrentValidationEvidence.
IsCurrent(item, h) == Clean /\ item.sha = h

\* Outcomes of the current evidence, as classifyValidationRunState reads them.
Current(h) ==
  {item.outcome :
     item \in {i \in ParsedItems(h) \cup TranscriptItems : IsCurrent(i, h)}}

(***************************************************************************)
(* Manual checks: recorded by a note whose feedback file names h, or by a  *)
(* command that passed at h.                                               *)
(***************************************************************************)
PassedAt(h) ==
  {c \in Commands :
     transcripts[c] # None /\ transcripts[c].ok /\ transcripts[c].sha = h}

NotedAt(h) ==
  IF feedback # None /\ feedback.head_sha = h THEN feedback.notes ELSE {}

MissingChecks(h) ==
  Checks \ (NotedAt(h) \cup UNION {Records[c] : c \in PassedAt(h)})

\* Defect: the tail is dropped where it should be folded.
MutMissingEffects(missing) ==
  {{k} : k \in {l \in missing :
                  Cardinality({m \in missing : m < l}) < MaxVisible}}

\* boundedMissingTeamPolicyEffects: each effect is the set of checks it names;
\* beyond MaxVisible the tail is folded into one effect.
MissingEffects(missing) ==
  LET first == {k \in missing :
                  Cardinality({l \in missing : l < k}) < MaxVisible - 1}
  IN IF Cardinality(missing) <= MaxVisible THEN {{k} : k \in missing}
     ELSE {{k} : k \in first} \cup {missing \ first}

(***************************************************************************)
(* The verdict.                                                            *)
(***************************************************************************)

\* The untested_changed_impl finding: cleared by a broad test run at the pinned
\* head when the implementation file has no uncommitted edit.
Untested(h) == untested /\ ~(Clean /\ PassedAt(h) \cap TestCommands # {})

TestBlocker(h) == "failed" \in Current(h)
CheckBlockers(h) == MissingEffects(MissingChecks(h))

Decision(h) ==
  IF TestBlocker(h) \/ CheckBlockers(h) # {} THEN "block_before_merge"
  ELSE IF "skipped" \in Current(h) \/ Untested(h) THEN "reviewable_with_attention"
  ELSE IF "passed" \in Current(h) THEN "probably_safe"
  ELSE "no_signal"

Reviewing == pinned # None
Safe == Reviewing /\ Decision(pinned) = "probably_safe"

(***************************************************************************)
(* Properties.  BeganAt(h) are the commands whose latest transcript is of  *)
(* a run that really started while HEAD was h.                             *)
(***************************************************************************)
BeganAt(h) == {c \in Commands : transcripts[c] # None /\ transcripts[c].began = h}
PassedFrom(h) == {c \in BeganAt(h) : transcripts[c].ok}

\* Without a JUnit report, a review says "probably safe" only if a recorded
\* command started at the pinned head and passed; and if the change touches an
\* implementation without its tests, such a command was a test run, report or
\* not.  Commits made while the command ran do not matter.
SafeAfterRun ==
  Safe => /\ report = None => PassedFrom(pinned) # {}
          /\ untested => PassedFrom(pinned) \cap TestCommands # {}

\* A review blocks on failing tests only for a failure of the pinned head seen
\* from a clean tree: a run that started there, or a report it was given.
BlockIsCurrent ==
  Reviewing /\ TestBlocker(pinned) =>
    /\ tree = head
    /\ \/ \E c \in BeganAt(pinned) : ~transcripts[c].ok
       \/ report # None /\ \E i \in DOMAIN report : report[i] = "failed"

\* A failing case that was read from the report blocks a review of a clean
\* tree, however many cases there are and wherever the failing one stands.
FailureNotHidden ==
  Reviewing /\ tree = head /\ report # None =>
    \A i \in Ingested(report) :
      report[i] = "failed" => Decision(pinned) = "block_before_merge"

\* A required manual check that nobody confirmed at the pinned head is named by
\* a blocker, however many are missing: folding hides none.
MissingCheckNamed ==
  Reviewing =>
    \A k \in Checks :
      \/ k \in UNION CheckBlockers(pinned)
      \/ feedback # None /\ feedback.head_sha = pinned /\ k \in feedback.notes
      \/ \E c \in PassedFrom(pinned) : k \in Records[c]
=============================================================================
