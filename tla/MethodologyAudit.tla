-------------------------- MODULE MethodologyAudit --------------------------
(***************************************************************************)
(* What a model's reading of the conversation may add to a review: the     *)
(* events worth reading are chosen and asked about in chunks, an answer is *)
(* kept in a cache and used again by a later run, and what is said of the  *)
(* method and of missing tests counts only as far as it cites events the   *)
(* model was shown.                                                        *)
(*                                                                         *)
(* An event is named by its place in the conversation and a text by a      *)
(* number in the order of texts.  Considered and researched alternatives   *)
(* are handled alike; one list stands for both.  An event may be picked    *)
(* for that list by its keywords, before any model is asked.  The findings *)
(* of the audit join at most one of each signal of the change itself, and  *)
(* the list of 50 has room for them all.                                   *)
(***************************************************************************)
EXTENDS Integers, Sequences, FiniteSets

CONSTANTS
  Conversations,    \* what a run may read: sequences of events
  ChangedFiles,
  ChunkSize, MaxBatches,
  ItemCap,          \* items of one list of an answer
  FindingCap,       \* findings of one audit
  PickCap,          \* alternatives that keywords pick
  ListCap,          \* alternatives that are listed, picked or said
  AboutTests,       \* the texts that speak of tests or validation
  Providers,        \* [provider, setting, blocked]; a setting is a model and its redaction
  AuditAnswers,     \* to one chunk
  GapAnswers,       \* about missing tests
  Replies,          \* sets of stages to which the provider replies in a behaviour
  MaxRuns

VARIABLES
  auditStage, \* "idle", "asking", "merging", "gaps"
  run,        \* the provider it asks
  talk,       \* the conversation it reads
  replies,    \* the stages that are answered
  chunks,     \* the events that are read, as they are asked about
  asked,      \* chunks asked about
  outputs,    \* what came back: [ids, data, by]
  cache,      \* [question, data, by], kept over runs
  report,     \* what the audit added to the methodology
  gapReport,  \* what it added to the risks
  runs

auditVars == <<auditStage, run, talk, replies, chunks, asked, outputs, cache, report, gapReport, runs>>

Unsaid == 1000   \* the index of an item that cites nothing that was read
Signals == {"risky_no_security", "impl_no_test", "api_no_compat", "deps_no_rationale"}
ListKinds == Signals \cup {"skipped_step", "unchallenged_assumption"}
KindOrder ==
  <<"api_no_compat", "deps_no_rationale", "impl_no_test", "risky_no_security", "skipped_step",
    "unchallenged_assumption", "workflow_soundness">>

\* A list of items, each with a text and what it cites.
IsItems(list) ==
  /\ list \in Seq({list[n] : n \in DOMAIN list})
  /\ \A n \in DOMAIN list : list[n].text \in Nat /\ list[n].events \in Seq(Nat)

ASSUME MethodologyAuditAssumption ==
  /\ ChunkSize \in Nat \ {0} /\ MaxBatches \in Nat \ {0} /\ FindingCap \in Nat \ {0} /\ ItemCap \in Nat
  /\ PickCap \in Nat /\ ListCap \in Nat /\ PickCap < ListCap
  /\ Providers # {} /\ MaxRuns \in Nat
  /\ \A t \in Conversations : t \in Seq({t[i] : i \in DOMAIN t})
  /\ \A a \in AuditAnswers :
       /\ \A list \in {a.considered, a.unchallenged, a.skipped, a.flags, <<a.verdict>>} : IsItems(list)
       /\ a.soundness \in {"none", "sound", "questionable", "unsound"}

NoReport ==
  [findings |-> {}, considered |-> {}, degraded |-> TRUE, truncated |-> FALSE, emptyChunks |-> 0]
NoGaps == [gaps |-> {}, degraded |-> TRUE, truncated |-> FALSE]

AuditInit ==
  /\ auditStage = "idle" /\ run = (CHOOSE m \in Providers : TRUE) /\ talk \in Conversations /\ replies \in Replies
  /\ chunks = <<>> /\ asked = 0 /\ outputs = <<>> /\ cache = {} /\ report = NoReport /\ gapReport = NoGaps
  /\ runs = 0

-----------------------------------------------------------------------------
(* Which events are read, and in which order *)

Salience(e) ==
  (IF e.kind \in {"tool_call", "tool_result", "decision"} THEN 3 ELSE 0)
  + (CASE e.actor = "user" -> 2 [] e.actor = "assistant" -> 1 [] OTHER -> 0)
  + (IF e.names # {} THEN 2 ELSE 0) + (IF e.validates THEN 2 ELSE 0)

Ahead(j, i) ==
  \/ Salience(talk[j]) > Salience(talk[i])
  \/ Salience(talk[j]) = Salience(talk[i]) /\ j < i

\* The best by salience, as many as the budget has room for.
Winners == {i \in DOMAIN talk : Cardinality({j \in DOMAIN talk : Ahead(j, i)}) < ChunkSize * MaxBatches}

\* A call and the result that follows it.
Partners(i, j) ==
  \/ j = i + 1 /\ talk[i].kind = "tool_call" /\ talk[j].kind = "tool_result"
  \/ i = j + 1 /\ talk[j].kind = "tool_call" /\ talk[i].kind = "tool_result"

\* A winner is placed with its partner when that one is a winner ahead of it.
PartnersAhead(winners, i) == {j \in winners : Partners(i, j) /\ Ahead(j, i)}
Lead(winners, i) == IF PartnersAhead(winners, i) = {} THEN i ELSE CHOOSE j \in PartnersAhead(winners, i) : TRUE

\* How many of the winners are selected before i.
Place(winners, i) ==
  LET lead == [j \in winners |-> Lead(winners, j)]
  IN Cardinality({j \in winners : Ahead(lead[j], lead[i]) \/ (lead[j] = lead[i] /\ Ahead(j, i))})

SelectSalientEvents ==
  LET winners == Winners
      place == [i \in winners |-> Place(winners, i)]
  IN [k \in 1..((Cardinality(winners) + ChunkSize - 1) \div ChunkSize) |->
        {i \in winners : (k - 1) * ChunkSize <= place[i] /\ place[i] < k * ChunkSize}]

Selected == UNION {chunks[k] : k \in DOMAIN chunks}
EditCalls(ids, f) == {i \in ids : talk[i].kind = "tool_call" /\ f \in talk[i].edits}
TestCalls(ids) == {i \in ids : talk[i].kind \in {"tool_call", "tool_result"} /\ talk[i].test}

Least(S) == CHOOSE n \in S : \A m \in S : n <= m
Latest(S) == CHOOSE n \in S : \A m \in S : m <= n

-----------------------------------------------------------------------------
(* Asking *)

\* What decides an answer: the model and redaction, and the prompt.
Question(ids) ==
  [setting |-> run.setting, events |-> {<<i, talk[i]>> : i \in ids}, partial |-> Len(talk) > ChunkSize,
   changed |-> ChangedFiles]

HasAuditContent(a) ==
  \/ a.considered # <<>> \/ a.unchallenged # <<>> \/ a.flags # <<>>
  \/ a.soundness # "none" \/ a.skipped # <<>>

Cacheable == run.provider = "ai-sdk" /\ ~run.blocked
CanReply == run.provider # "ai-sdk" \/ ~run.blocked

StartAudit ==
  /\ auditStage = "idle" /\ runs < MaxRuns /\ runs' = runs + 1
  /\ run' \in Providers /\ auditStage' = IF talk = <<>> THEN "gaps" ELSE "asking"
  /\ chunks' = SelectSalientEvents /\ asked' = 0 /\ outputs' = <<>> /\ report' = NoReport /\ gapReport' = NoGaps
  /\ UNCHANGED <<talk, replies, cache>>

Chunk == chunks[asked + 1]

NextChunk ==
  /\ auditStage = "asking" /\ asked < Len(chunks) /\ asked' = asked + 1
  /\ auditStage' = IF asked' = Len(chunks) THEN "merging" ELSE "asking"
  /\ UNCHANGED <<run, talk, replies, chunks, report, gapReport, runs>>

Hits == {e \in cache : Cacheable /\ e.question = Question(Chunk)}

AskCache ==
  /\ NextChunk
  /\ \E hit \in Hits : outputs' = Append(outputs, [ids |-> Chunk, data |-> hit.data, by |-> hit.by])
  /\ UNCHANGED cache

\* An answer with content is kept.
AskProvider ==
  /\ NextChunk /\ Hits = {} /\ CanReply /\ "audit" \in replies
  /\ \E a \in AuditAnswers :
       /\ outputs' = Append(outputs, [ids |-> Chunk, data |-> a, by |-> run.setting])
       /\ cache' = IF Cacheable /\ HasAuditContent(a)
                   THEN cache \cup {[question |-> Question(Chunk), data |-> a, by |-> run.setting]} ELSE cache

\* A block, a missing key, a timeout, an exhausted sequence.
NoAnswer == NextChunk /\ Hits = {} /\ UNCHANGED <<outputs, cache>>

KillAudit ==
  /\ auditStage # "idle" /\ auditStage' = "idle" /\ report' = NoReport /\ gapReport' = NoGaps /\ outputs' = <<>>
  /\ UNCHANGED <<run, talk, replies, chunks, asked, cache, runs>>

-----------------------------------------------------------------------------
(* Merging the answers *)

Elements(list) == {list[n] : n \in DOMAIN list}
EventTokens(ids) == {<<"event", i>> : i \in ids}
PathTokens(files) == {<<"path", f>> : f \in files}
Tokens(item) == EventTokens(Elements(item.events)) \cup PathTokens(item.paths)

\* An anchor is an event the chunk was shown or a changed file; any other token is named.
Shown(ids) == EventTokens(ids) \cup PathTokens(ChangedFiles)

FirstCitedRawIndex(item) ==
  LET at == {n \in DOMAIN item.events : item.events[n] \in Selected}
  IN IF at = {} THEN Unsaid ELSE item.events[Least(at)]

\* What item has to say, with the anchors of from.
Candidate(kind, rank, item, from, ids) ==
  [kind |-> kind, text |-> item.text, rank |-> rank, evidence |-> Tokens(from) \cap Shown(ids),
   invalid |-> Tokens(from) \ Shown(ids), index |-> FirstCitedRawIndex(from)]

FirstOf(list) == {list[n] : n \in {m \in DOMAIN list : m <= ItemCap}}

\* The items that are made findings of a kind; a flag names its own.
ItemsOf(kind, a) ==
  CASE kind = "unchallenged_assumption" -> FirstOf(a.unchallenged)
    [] kind = "skipped_step" -> FirstOf(a.skipped)
    [] OTHER -> {f \in FirstOf(a.flags) : f.signal = kind}

RankOf(kind) == IF kind = "unchallenged_assumption" THEN 1 ELSE 2

Candidates(kind, o) == {Candidate(kind, RankOf(kind), i, i, o.ids) : i \in ItemsOf(kind, o.data)}

AllCandidates == UNION {Candidates(k, o) : k \in ListKinds, o \in Elements(outputs)}

\* The same claim made twice joins its anchors.
Duplicates(c) == {x \in AllCandidates : x.kind = c.kind /\ x.text = c.text}
AnchorsOf(c) == UNION {x.evidence : x \in Duplicates(c)}
RefusedOf(c) == UNION {x.invalid : x \in Duplicates(c)}
Joined(c) ==
  [kind |-> c.kind, text |-> c.text, rank |-> c.rank, evidence |-> AnchorsOf(c),
   invalid |-> RefusedOf(c) \ AnchorsOf(c), index |-> Least({x.index : x \in Duplicates(c)})]

\* The verdict's own anchors, or those of the first step it says was skipped.
VerdictOf(o) ==
  LET a == o.data
      steps == {n \in DOMAIN a.skipped : a.skipped[n].anchored}
      from == IF a.verdict.anchored \/ steps = {} THEN a.verdict ELSE a.skipped[Least(steps)]
  IN Candidate("workflow_soundness", IF a.soundness = "unsound" THEN 3 ELSE 2, a.verdict, from, o.ids)

NoVerdict ==
  [kind |-> "workflow_soundness", text |-> 0, rank |-> 0, evidence |-> {}, invalid |-> {}, index |-> Unsaid]

\* Defect: the verdict that wins takes the anchors of the one it replaces.
MutMergeFinding(a, b) ==
  LET worst == IF b.rank > a.rank \/ (b.rank = a.rank /\ b.evidence # {} /\ a.evidence = {}) THEN b ELSE a
      evidence == a.evidence \cup b.evidence
  IN [kind |-> worst.kind, text |-> worst.text, rank |-> worst.rank, evidence |-> evidence,
      invalid |-> (a.invalid \cup b.invalid) \ evidence, index |-> Least({a.index, b.index})]

\* The worse of two verdicts, the anchored of equals; one given twice joins its anchors.
MergeFinding(a, b) ==
  LET worst == IF b.rank > a.rank \/ (b.rank = a.rank /\ b.evidence # {} /\ a.evidence = {}) THEN b ELSE a
      evidence == a.evidence \cup b.evidence
  IN IF a.text # b.text THEN worst
     ELSE [kind |-> worst.kind, text |-> worst.text, rank |-> worst.rank, evidence |-> evidence,
           invalid |-> (a.invalid \cup b.invalid) \ evidence, index |-> Least({a.index, b.index})]

\* One verdict on the run, merged chunk by chunk.
Judge(verdict, o) ==
  IF o.data.soundness \notin {"questionable", "unsound"} THEN verdict
  ELSE IF verdict = NoVerdict THEN VerdictOf(o)
  ELSE MergeFinding(verdict, VerdictOf(o))

Verdict ==
  LET after[n \in 0..Len(outputs)] == IF n = 0 THEN NoVerdict ELSE Judge(after[n - 1], outputs[n])
  IN after[Len(outputs)]

MergedFindings == {Joined(c) : c \in AllCandidates} \cup ({Verdict} \ {NoVerdict})

KindAt(c) == CHOOSE n \in DOMAIN KindOrder : KindOrder[n] = c.kind
Before(a, b) ==
  \/ a.rank > b.rank
  \/ a.rank = b.rank /\ a.index < b.index
  \/ a.rank = b.rank /\ a.index = b.index /\ KindAt(a) < KindAt(b)
  \/ a.rank = b.rank /\ a.index = b.index /\ KindAt(a) = KindAt(b) /\ a.text < b.text

AssertsMissingValidation(c) ==
  c.kind = "impl_no_test" \/ (c.kind \in {"skipped_step", "workflow_soundness"} /\ c.text \in AboutTests)

\* A test ran after the last edit of every changed file it cites.  Of one that cites none
\* the comment in the code says any test after the earliest edit counts; the code asks for
\* one after the last edit of every file, and so does this.
FindingHasPostChangeTest(c) ==
  LET tests == TestCalls(Selected)
      edited == {f \in ChangedFiles : EditCalls(Selected, f) # {}}
      cited == {f \in ChangedFiles : <<"path", f>> \in c.evidence}
  IN /\ tests # {} /\ cited \cup edited # {}
     /\ \A f \in IF cited # {} THEN cited ELSE edited :
          f \in edited /\ Latest(tests) > Latest(EditCalls(Selected, f))

Finding(c) ==
  [kind |-> c.kind, text |-> c.text, severity |-> c.rank, evidence |-> c.evidence, unverified |-> c.invalid,
   note |-> FindingHasPostChangeTest(c) /\ AssertsMissingValidation(c)]

\* The first in the order of Before.
Findings ==
  LET merged == MergedFindings
  IN {Finding(c) : c \in {x \in merged : Cardinality({y \in merged : Before(y, x)}) < FindingCap}}

\* The alternatives that cite something, each once, by where they were first cited.
SaidBefore(s, t) == s.index < t.index \/ (s.index = t.index /\ s.text < t.text)
Considered ==
  LET cites(o) == {i \in FirstOf(o.data.considered) : Tokens(i) \cap Shown(o.ids) # {}}
      said == {[text |-> i.text, index |-> FirstCitedRawIndex(i)] :
                 i \in UNION {cites(o) : o \in Elements(outputs)}}
      firsts == {s \in said : \A t \in said : s.text = t.text => s.index <= t.index}
  IN {s \in firsts : Cardinality({t \in firsts : SaidBefore(t, s)}) < ItemCap}

\* What keywords picked comes first in the list, and leaves this much room.
Room == ListCap - Least({PickCap, Cardinality({i \in DOMAIN talk : talk[i].option})})
Fitting(considered) == {s \in considered : Cardinality({t \in considered : SaidBefore(t, s)}) < Room}

\* The events that were read, each as often as a chunk with it was answered.
Read == {p \in (DOMAIN outputs) \X DOMAIN talk : p[2] \in outputs[p[1]].ids}

MergeAudit ==
  /\ auditStage = "merging" /\ auditStage' = "gaps"
  /\ LET findings == Findings
         considered == Considered
         silent == \A o \in Elements(outputs) : o.data.soundness = "none"
     IN report' = IF outputs = <<>> THEN report
                  ELSE [findings |-> findings, considered |-> Fitting(considered),
                        degraded |-> findings = {} /\ considered = {} /\ silent,
                        truncated |-> Cardinality(Read) < Len(talk),
                        emptyChunks |-> Cardinality({n \in DOMAIN outputs : ~HasAuditContent(outputs[n].data)})]
  /\ UNCHANGED <<run, talk, replies, chunks, asked, outputs, cache, gapReport, runs>>

-----------------------------------------------------------------------------
(* Missing tests *)

\* A cited test passed after the last cited edit.
CitesPassedTest(ids) ==
  LET edits == UNION {EditCalls(ids, f) : f \in ChangedFiles}
  IN edits # {} /\ \E t \in TestCalls(ids) : t > Latest(edits) /\ talk[t].passed

\* Anchored when all it cites was shown and one of those names a changed file.
Gap(item) ==
  LET cited == Elements(item.events)
      grounded == cited # {} /\ cited \subseteq Selected /\ \E i \in cited : talk[i].names # {}
  IN [kind |-> item.kind, evidence |-> IF grounded THEN cited ELSE {}, unverified |-> cited \ Selected,
      how |-> IF item.how \in {"unit", "integration"} /\ ~(grounded /\ CitesPassedTest(cited))
              THEN "unknown" ELSE item.how]

\* One question about all of the selected events; only the two known kinds count.
GapStage ==
  /\ auditStage = "gaps" /\ auditStage' = "idle"
  /\ \/ gapReport' = gapReport
     \/ /\ CanReply /\ "gaps" \in replies /\ talk # <<>>
        /\ \E a \in GapAnswers :
             LET usable == {n \in DOMAIN a : n <= 2 * ItemCap /\ a[n].kind \in {"automatic", "manual"}}
             IN gapReport' = [gaps |-> {Gap(a[n]) : n \in usable},
                              degraded |-> usable = {} /\ a # <<>>,
                              truncated |-> Len(talk) > ChunkSize * MaxBatches]
  /\ UNCHANGED <<run, talk, replies, chunks, asked, outputs, cache, report, runs>>

-----------------------------------------------------------------------------
AuditNext == StartAudit \/ AskCache \/ AskProvider \/ NoAnswer \/ MergeAudit \/ GapStage \/ KillAudit

AuditSpec == AuditInit /\ [][AuditNext]_auditVars

AuditStages == {"idle", "asking", "merging", "gaps"}
AuditTypeOK ==
  /\ auditStage \in AuditStages /\ run \in Providers /\ talk \in Conversations /\ replies \in Replies
  /\ Len(chunks) <= MaxBatches /\ asked \in 0..Len(chunks) /\ Len(outputs) <= asked
  /\ Cardinality(report.findings) <= FindingCap /\ Cardinality(report.considered) <= ItemCap
  /\ report.emptyChunks \in 0..MaxBatches /\ Cardinality(gapReport.gaps) <= 2 * ItemCap

-----------------------------------------------------------------------------
\* An answer, before anything is merged, says just this and cites t for it.
Told(a, kind, text, t) ==
  \/ \E i \in Elements(a.unchallenged) : kind = "unchallenged_assumption" /\ text = i.text /\ t \in Tokens(i)
  \/ \E i \in Elements(a.skipped) : kind = "skipped_step" /\ text = i.text /\ t \in Tokens(i)
  \/ \E i \in Elements(a.flags) : kind = i.signal /\ text = i.text /\ t \in Tokens(i)
  \/ /\ kind = "workflow_soundness" /\ text = a.verdict.text
     /\ \E i \in {a.verdict} \cup Elements(a.skipped) : t \in Tokens(i)

\* Every anchor of f was cited for that very f by an answer to a chunk that shows it.
Grounded(f) ==
  /\ f.evidence \cap f.unverified = {}
  /\ \A t \in f.evidence : \E o \in Elements(outputs) : Told(o.data, f.kind, f.text, t) /\ t \in Shown(o.ids)

\* Every anchor of a finding was cited for that very finding by a chunk to which it was
\* shown, and nothing is both evidence and unverified.
FindingsAreGrounded == \A f \in report.findings : Grounded(f)

\* A test that was read ran after every edit that was read of the files that are cited,
\* or of any that was edited.
TestedAfter(evidence) ==
  LET cited == {f \in ChangedFiles : <<"path", f>> \in evidence}
      about == IF cited # {} THEN cited ELSE {f \in ChangedFiles : EditCalls(Selected, f) # {}}
  IN about # {} /\ \E t \in TestCalls(Selected) : \A f \in about :
       EditCalls(Selected, f) # {} /\ \A e \in EditCalls(Selected, f) : e < t

\* A finding is softened exactly when it says a test is missing and one ran after every
\* edit of what it is about: a later edit, of that file or of another when it cites none,
\* makes the claim stand again.
NotesAreOrdered ==
  \A f \in report.findings : f.note = (AssertsMissingValidation(f) /\ TestedAfter(f.evidence))

\* The worst verdict of any chunk is among the findings, whatever their number.
WorstVerdictKept ==
  report # NoReport /\ (\E o \in Elements(outputs) : o.data.soundness = "unsound") =>
    \E f \in report.findings : f.kind = "workflow_soundness" /\ f.severity = 3

\* An answer, fresh or cached, was given by the model and under the redaction that are
\* asked now; a blocked run has none and adds nothing.
AnswersAreOfThisRun ==
  /\ \A o \in Elements(outputs) : o.by = run.setting
  /\ run.blocked /\ run.provider = "ai-sdk" => report = NoReport /\ gapReport = NoGaps /\ outputs = <<>>

\* How a gap was tested is believed only of a passing test that it cites after its edits.
GapsAreConfirmed ==
  \A g \in gapReport.gaps :
    /\ g.unverified # {} => g.evidence = {}
    /\ g.how \in {"unit", "integration"} =>
         \E t \in g.evidence :
           /\ talk[t].test /\ talk[t].passed
           /\ \A f \in ChangedFiles : \A e \in EditCalls(g.evidence, f) : e < t

\* Once the audit is done: it is called whole only if every event was in a chunk that
\* was answered, and called done only if something it says survived.
FlagsAreTrue ==
  auditStage = "gaps" /\ outputs # <<>> =>
    /\ ~report.truncated => \A i \in DOMAIN talk : \E o \in Elements(outputs) : i \in o.ids
    /\ ~report.degraded => \/ report.findings # {} \/ report.considered # {}
                           \/ \E o \in Elements(outputs) : o.data.soundness = "sound"

\* src/llm/reasoning.ts:37-50: a provider adds marked hypotheses and nothing more.
\* Whatever it answers, from the cache or not, in whichever chunks it fails: each of the
\* parts above.
AuditIsEarned ==
  /\ FindingsAreGrounded /\ NotesAreOrdered /\ WorstVerdictKept /\ AnswersAreOfThisRun
  /\ GapsAreConfirmed /\ FlagsAreTrue
=============================================================================
