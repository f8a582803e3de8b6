------------------------ MODULE RequirementEvaluation ------------------------
(***************************************************************************)
(* How one requirement gets its status: the deterministic evaluation of    *)
(* evaluation/evaluate.ts, the provider's candidate evidence               *)
(* (candidate-evidence.ts) and the promotion by passing tests              *)
(* (verification.ts), in the order pipeline/stages.ts runs them.  The      *)
(* requirement belongs to the group "own".  A file is one of the constant  *)
(* Files, with its role and whether its path maps to the group; a test     *)
(* case or a candidate is a record, with what the code tells apart.        *)
(*                                                                         *)
(* Role "config" stands for every path isImplementationEvidencePath lets   *)
(* through but classifyFile does not call source (data, manifests, CI).    *)
(***************************************************************************)
EXTENDS Naturals, Sequences, FiniteSets, SequencesExt

CONSTANTS
  Files,         \* the repository's files
  Role(_),       \* source, test, config or doc
  InGroup(_),    \* whether a path maps to the requirement's group
  Absent,        \* a path that names no file
  Requirements,  \* the requirement and what mentions it; kind is one of Kinds
  ReportCases,   \* shapes of parsed test cases
  Candidates,    \* shapes of the provider's candidates
  MaxReportCases, \* bound on the cases of a report
  MaxCandidates, \* bound on the candidates of an answer
  MaxEvidence,   \* the cut of uniqueEvidence (8 in the code)
  MaxBudget      \* MAX_GLOBAL_LLM_EVIDENCE (40 in the code)

ASSUME EvaluationAssumption ==
  /\ IsFiniteSet(Files) /\ MaxEvidence \in Nat /\ MaxBudget \in Nat

VARIABLES
  evStage,     \* the stage the evaluation has reached
  req,         \* the requirement and what the repository says about it
  reported,    \* the parsed test cases, in report order
  answer,      \* the provider's candidates for this requirement
  budget,      \* what earlier requirements left of the evidence budget
  result       \* the RequirementResult

evVars == <<evStage, req, reported, answer, budget, result>>

Kinds == {"plain", "testOnly", "presence", "deferred", "badSource"}
RequirementStatuses == {"satisfied", "partial", "missing", "unknown", "invalid_evidence"}

NoReq == [kind |-> "plain", mentions |-> {}, changed |-> {}, cites |-> {}]
NoResult == [status |-> "unknown", reason |-> "none", evidence |-> <<>>]

-----------------------------------------------------------------------------
(* Evidence references *)

EvidenceRef(kind, path, why, llm, verified, name) ==
  [kind |-> kind, path |-> path, why |-> why, llm |-> llm, verified |-> verified, name |-> name]

Ref(kind, path, why) == EvidenceRef(kind, path, why, FALSE, FALSE, "none")
CaseRef(c, why) == EvidenceRef("test", Absent, why, FALSE, FALSE, c.name)
VerifiedRef(c, why) == EvidenceRef("test", Absent, why, FALSE, TRUE, c.name)
CandidateRef(c) == EvidenceRef(c.kind, c.path, "candidate", TRUE, FALSE, c.name)

\* The key leaves the test's name out: of two cases that say the same, one stays.
RefKey(r) == <<r.kind, r.path, r.why>>

FirstOfKey(refs) ==
  {i \in DOMAIN refs : \A j \in 1..(i - 1) : RefKey(refs[j]) # RefKey(refs[i])}

\* The elements of s at the positions in K, in their order.
ElementsAt(s, K) ==
  LET rank == [i \in K |-> Cardinality({j \in K : j <= i})]
  IN [n \in 1..Cardinality(K) |-> s[CHOOSE i \in K : rank[i] = n]]

Cut(s, n) == SubSeq(s, 1, IF Len(s) > n THEN n ELSE Len(s))

UniqueEvidence(refs) == Cut(ElementsAt(refs, FirstOfKey(refs)), MaxEvidence)

TestFiles == {f \in Files : Role(f) = "test"}
IsImplementationProofPath(f) == f \in Files /\ Role(f) = "source"
IsImplementationEvidencePath(f) == f \in Files /\ Role(f) \in {"source", "config"}

-----------------------------------------------------------------------------
(* The evidence index *)

\* Changed files, tests and docs are read from the working tree, unchanged
\* implementation files from the head commit; an unchanged data file is not read.
Scanned == {f \in Files : f \in req.changed \/ Role(f) \in {"source", "test", "doc"}}

Mentioned == req.mentions \cap Scanned

\* Only a passing case is proof; one that names a known ACID is not also matched
\* by group token.
Passing == {i \in DOMAIN reported : reported[i].status = "passed"}
CasesByAcid == ElementsAt(reported, {i \in Passing : reported[i].acid = "exact"})
CasesByGroup ==
  ElementsAt(reported, {i \in Passing : /\ reported[i].acid = "none"
                                        /\ (reported[i].token = "own" \/ reported[i].nameToken)})

FileRefs(S, kind, why) == [i \in 1..Cardinality(S) |-> Ref(kind, SetToSeq(S)[i], why)]
CaseRefs(s, why) == [i \in DOMAIN s |-> CaseRef(s[i], why)]

DirectFileEvidence == FileRefs(req.cites \cap Files, "file", "cited")
ExactEvidence == FileRefs(Mentioned \ TestFiles, "file", "mentions")
                 \o FileRefs(Mentioned \cap TestFiles, "test", "mentions")
ExactImplementation ==
  FileRefs({f \in Mentioned : IsImplementationProofPath(f)}, "file", "mentions")
ExactTests == FileRefs(Mentioned \cap TestFiles, "test", "mentions")
              \o CaseRefs(CasesByAcid, "case mentions")
ChangedByGroup ==
  FileRefs({f \in req.changed : IsImplementationProofPath(f) /\ InGroup(f)}, "file", "group")
TestsByGroup == FileRefs({f \in TestFiles : InGroup(f)}, "test", "group")
                \o CaseRefs(CasesByGroup, "case group")

Evidence ==
  UniqueEvidence(<<Ref("spec", Absent, "spec")>> \o DirectFileEvidence \o ExactEvidence
                 \o ExactImplementation \o ExactTests \o ChangedByGroup \o TestsByGroup)

-----------------------------------------------------------------------------
(* evaluateRequirement: the first rule that holds decides *)

Verdict(status, reason) == [status |-> status, reason |-> reason, evidence |-> Evidence]

EvaluateRequirement ==
  LET exactImpl == ExactImplementation # <<>>
      impl == exactImpl \/ ChangedByGroup # <<>>
      exactTest == ExactTests # <<>>
      broadTest == TestsByGroup # <<>>
  IN CASE req.kind = "badSource" -> Verdict("invalid_evidence", "none")
       [] req.kind = "presence" /\ req.cites # {} /\ req.cites \subseteq Files
            -> Verdict("satisfied", "none")
       [] req.kind = "deferred" -> Verdict("unknown", "none")
       [] OTHER ->
          CASE exactTest /\ (exactImpl \/ req.kind = "testOnly") -> Verdict("satisfied", "none")
            [] exactTest /\ impl /\ ~exactImpl -> Verdict("partial", "impl_broad_no_exact_test")
            [] ~exactTest /\ exactImpl /\ broadTest -> Verdict("partial", "exact_impl_broad_test")
            [] ~exactTest /\ ~exactImpl /\ impl /\ broadTest -> Verdict("partial", "broad_area_only")
            [] ~exactTest /\ impl /\ ~broadTest -> Verdict("partial", "impl_no_test")
            [] ~impl /\ (exactTest \/ broadTest) -> Verdict("partial", "test_no_impl")
            [] OTHER -> Verdict("missing", "none")

-----------------------------------------------------------------------------
(* applyCandidateEvidence *)

Enrichable == result.status \in {"partial", "missing", "unknown"}

Offered == Cut(answer, 4)
InPool(c) == c.path \in req.changed \cup TestFiles
Genuine(c) == InPool(c) /\ ~c.goodLines        \* in the pool and fails validation
Valid(c) == InPool(c) /\ c.goodLines

HasValidDeterministicEvidence ==
  \E i \in DOMAIN result.evidence : ~result.evidence[i].llm /\ result.evidence[i].kind # "spec"

ValidOffered == ElementsAt(Offered, {i \in DOMAIN Offered : Valid(Offered[i])})

CandidateRefs(s) == [i \in DOMAIN s |-> CandidateRef(s[i])]

\* Defect: the last of the budget lets every candidate of a requirement in.
MutAttached == ElementsAt(ValidOffered, FirstOfKey(CandidateRefs(ValidOffered)))

\* New candidates in the order given, each key once, while the budget lasts.
Attached == Cut(ElementsAt(ValidOffered, FirstOfKey(CandidateRefs(ValidOffered))), budget)

IsDeterministicallyTied(c) == c.saysAcid \/ InGroup(c.path)

ApplyCandidates ==
  LET invalid == /\ \E i \in DOMAIN Offered : Genuine(Offered[i])
                 /\ ~HasValidDeterministicEvidence
      tied == \E i \in DOMAIN Attached : IsDeterministicallyTied(Attached[i])
      raised == ~invalid /\ result.status = "missing" /\ tied
  IN [status |-> IF invalid THEN "invalid_evidence"
                 ELSE IF raised THEN "partial" ELSE result.status,
      reason |-> IF invalid THEN "none" ELSE result.reason,
      evidence |-> result.evidence \o CandidateRefs(Attached)]

-----------------------------------------------------------------------------
(* verifyRequirementsWithTests *)

\* A case's groups: those of its ACIDs, of a group token in its classname or suite
\* (a token in its name alone does not count) or of a classname that is a test path.
CaseGroups(c) ==
  (IF c.acid \in {"exact", "sibling"} \/ c.token = "own" THEN {"own"} ELSE {})
  \cup (IF c.acid = "foreign" \/ c.token = "foreign" THEN {"foreign"} ELSE {})

Pinpoints ==
  ElementsAt(result.evidence,
             {i \in DOMAIN result.evidence :
                LET r == result.evidence[i] IN r.kind = "test" /\ r.llm /\ r.name # "none"})

\* The cases a pinpoint stands for: of its name, in the group, else in no group.
PinpointedBy(r) ==
  LET named == {i \in Passing : reported[i].name = r.name}
      own == {i \in named : "own" \in CaseGroups(reported[i])}
      free == {i \in named : CaseGroups(reported[i]) = {}}
  IN IF r.path \notin Files \/ ~InGroup(r.path) THEN {} ELSE IF own # {} THEN own ELSE free

\* Those pinpoints that stand for a case.
Standing == ElementsAt(Pinpoints, {i \in DOMAIN Pinpoints : PinpointedBy(Pinpoints[i]) # {}})

\* The verifying case, if any, at the head of the sequence.
VerifyingCase ==
  IF CasesByAcid # <<>> THEN CasesByAcid
  ELSE IF Standing # <<>> THEN ElementsAt(reported, PinpointedBy(Standing[1])) ELSE <<>>

GroupCase == ElementsAt(reported, {i \in Passing : "own" \in CaseGroups(reported[i])})

\* Defect: a path the provider proposed counts as implementation.
MutHasImplementation ==
  \E i \in DOMAIN result.evidence :
    LET r == result.evidence[i]
    IN r.kind = "file" /\ IsImplementationEvidencePath(r.path)

\* A file reference the code itself found, to a path that is neither test nor doc.
HasImplementation ==
  \E i \in DOMAIN result.evidence :
    LET r == result.evidence[i]
    IN r.kind = "file" /\ ~r.llm /\ IsImplementationEvidencePath(r.path)

Verifies == VerifyingCase # <<>> /\ (req.kind = "testOnly" \/ HasImplementation)

IsVerified(r) == r.verified

Verifiable == /\ result.status = "partial"
              /\ \A i \in DOMAIN result.evidence : ~IsVerified(result.evidence[i])

VerifyWithTests ==
  IF ~Verifiable THEN result
  ELSE IF Verifies
  THEN [status |-> "satisfied", reason |-> "none",
        evidence |-> UniqueEvidence(<<VerifiedRef(VerifyingCase[1], "promoted")>> \o result.evidence)]
  ELSE IF VerifyingCase = <<>> /\ GroupCase # <<>>
  THEN [status |-> "partial", reason |-> "broad_area_only",
        evidence |-> UniqueEvidence(<<VerifiedRef(GroupCase[1], "broad")>> \o result.evidence)]
  ELSE result

-----------------------------------------------------------------------------
EvInit ==
  /\ evStage = "idle" /\ req = NoReq /\ reported = <<>> /\ answer = <<>>
  /\ budget = MaxBudget /\ result = NoResult

\* The requirement as indexed from its spec and the change under review.
Collect ==
  /\ evStage = "idle"
  /\ req' \in Requirements
  /\ evStage' = "collected"
  /\ UNCHANGED <<reported, answer, budget, result>>

ReadReport ==
  /\ evStage = "collected" /\ Len(reported) < MaxReportCases
  /\ \E c \in ReportCases : reported' = Append(reported, c)
  /\ UNCHANGED <<evStage, req, answer, budget, result>>

EvaluateBase ==
  /\ evStage = "collected"
  /\ result' = EvaluateRequirement
  /\ evStage' = "evaluated"
  /\ UNCHANGED <<req, reported, answer, budget>>

\* The weaker requirements are enriched first and use up the shared budget.
AnswerArrives ==
  /\ evStage = "evaluated" /\ Enrichable
  /\ \E s \in SeqOf(Candidates, MaxCandidates) \ {<<>>}, left \in 0..MaxBudget :
       answer' = s /\ budget' = left
  /\ evStage' = "answered"
  /\ UNCHANGED <<req, reported, result>>

Enrich ==
  /\ evStage = "answered"
  /\ result' = IF budget = 0 THEN result ELSE ApplyCandidates
  /\ budget' = IF budget = 0 THEN 0 ELSE budget - Len(Attached)
  /\ evStage' = "enriched"
  /\ UNCHANGED <<req, reported, answer>>

\* No provider, or no usable answer: the stage is skipped.
SkipReasoning ==
  /\ evStage = "evaluated"
  /\ evStage' = "enriched"
  /\ UNCHANGED <<req, reported, answer, budget, result>>

Verify ==
  /\ evStage \in {"enriched", "verified"}
  /\ result' = VerifyWithTests
  /\ evStage' = "verified"
  /\ UNCHANGED <<req, reported, answer, budget>>

EvNext == Collect \/ ReadReport \/ EvaluateBase \/ AnswerArrives \/ Enrich \/ SkipReasoning \/ Verify

EvSpec == EvInit /\ [][EvNext]_evVars

-----------------------------------------------------------------------------
EvTypeOK ==
  /\ evStage \in {"idle", "collected", "evaluated", "answered", "enriched", "verified"}
  /\ req \in Requirements \cup {NoReq} /\ req.kind \in Kinds
  /\ reported \in SeqOf(ReportCases, MaxReportCases) /\ answer \in SeqOf(Candidates, MaxCandidates)
  /\ budget \in 0..MaxBudget
  /\ result.status \in RequirementStatuses
  /\ Cardinality({i \in DOMAIN result.evidence : ~result.evidence[i].llm}) <= MaxEvidence

\* Some case that passed is about this requirement: it names the ACID, or the
\* provider named it, on a path of the group, and no group it names is another's.
RanAndPassed ==
  \E i \in DOMAIN reported :
    /\ reported[i].status = "passed"
    /\ \/ reported[i].acid = "exact"
       \/ /\ reported[i].acid # "foreign" \/ reported[i].token = "own"
          /\ reported[i].token = "foreign" => reported[i].acid = "sibling"
          /\ \E j \in DOMAIN answer : /\ answer[j].kind = "test" /\ answer[j].name = reported[i].name
                                      /\ Valid(answer[j]) /\ InGroup(answer[j].path)

\* Whatever the provider answers and whatever a report holds, a requirement ends
\* satisfied only on evidence the tool itself read: every path it must contain
\* exists, or a test names its ACID or passed for it, beside a non-test file that
\* names the requirement or that the change touched in its group.  A failing or
\* skipped case, a path only the provider named, or another group's passing case
\* never satisfies one.
SatisfiedIsEarned ==
  result.status = "satisfied" =>
    \/ req.kind = "presence" /\ req.cites # {} /\ req.cites \subseteq Files
    \/ /\ \/ req.mentions \cap TestFiles # {}
          \/ RanAndPassed
       /\ \/ req.kind = "testOnly"
          \/ \E f \in req.mentions \cup req.cites : IsImplementationEvidencePath(f)
          \/ \E f \in req.changed : IsImplementationProofPath(f) /\ InGroup(f)
=============================================================================
