------------------------------ MODULE PrRisks ------------------------------
(***************************************************************************)
(* The deterministic risks of a pull request (buildPrRiskCandidates), over *)
(* a working tree that is edited, committed and tested before the review:  *)
(* which changed files count as tested is read off the changed tests and   *)
(* off the commands recorded at the head commit.                           *)
(*                                                                         *)
(* A path is one of Paths and has a rank, the order of compareStrings.  A  *)
(* command is [test, broad, focused, words]: what the classifiers say of   *)
(* it (CommandClassification) and its words.  A candidate cites a set of   *)
(* paths; "note" tells that its evidence ends with a missing or spec ref.  *)
(***************************************************************************)
EXTENDS Integers, FiniteSets

CONSTANTS
  Paths,            \* the paths a change may hold
  BasePaths,        \* those that exist at the base
  PathRank(_),
  MovedFrom(_),     \* the base path a path is renamed from, or the path itself
  PathRole(_),      \* implementation, test, config, ...
  PathAreas(_),     \* the areas a path maps to
  PathLines(_),     \* added and deleted lines of a changed path
  Surfaces(_),      \* the path classes it matches: privacy, comment, ciSecret, schema
  ExplicitContract(_),   \* isExplicitContractSurfacePath, of a path or an old path
  RootRank(_),      \* the order of the validation roots
  KeywordsOf(_),    \* the keywords of an area, each a set of words
  OtherForm(_),     \* the plural or singular of a word of more than three letters, or the word
  RunCommands,      \* what is run under the recorder
  TestAreas,        \* areas some test of the repository maps to
  Reviews,          \* facts other parts give a review: [leaky, regressed, failed, skipped], leaky
                    \* the paths with a secret in an added line, regressed deltas [rank, refs]
  RuleEvidence,     \* MAX_RULE_EVIDENCE (12 in the code)
  FileCap, LineCap, \* largeDiffFileCap, largeDiffLineCap
  MaxTreeSteps, MaxCommits, MaxRecorded   \* bounds on edits, commits and recorded runs

\* No two paths, whether of the tree or moved from, have one rank, nor have two
\* validation roots; a review has finitely many regressed requirements, each with a
\* place and finitely many refs of its own.
ASSUME PrRisksAssumption ==
  /\ IsFiniteSet(Paths) /\ RuleEvidence \in Nat \ {0}
  /\ \A p \in Paths : PathRank(p) \in Nat /\ PathRank(MovedFrom(p)) \in Nat
  /\ \A p, q \in Paths \cup {MovedFrom(r) : r \in Paths} : PathRank(p) = PathRank(q) => p = q
  /\ \A p \in Paths : RootRank(PathAreas(p)) \in Nat
  /\ \A p, q \in Paths : RootRank(PathAreas(p)) = RootRank(PathAreas(q)) => PathAreas(p) = PathAreas(q)
  /\ \A r \in Reviews :
       /\ IsFiniteSet(r.regressed)
       /\ \A d, e \in r.regressed : d.rank \in Nat /\ (d.rank = e.rank => d = e)
       /\ \A d \in r.regressed :
            /\ IsFiniteSet(d.refs) /\ \A p \in d.refs : PathRank(p) \in Nat
            /\ \A p, q \in d.refs : PathRank(p) = PathRank(q) => p = q

VARIABLES
  prStage,      \* "work" until the review, then "built"
  prFacts,        \* facts of the review that this part does not produce
  ranged,       \* status of a path between the base and the head commit
  dirty,        \* its status in the working tree, "" when clean
  commits,      \* the head commit, counted from the branch's start
  treeSteps,    \* edits so far
  recorded,     \* recorded commands: [command, head, passed]
  candidates,   \* the risks of the review
  ranSince      \* history: paths covered by a passing run since the commit that last changed them

prVars == <<prStage, prFacts, ranged, dirty, commits, treeSteps, recorded, candidates, ranSince>>

-----------------------------------------------------------------------------
(***************************************************************************)
(* collectChangedFiles: the range diff, then the porcelain status over it. *)
(***************************************************************************)
PreserveRangeStatus(p) ==
  ranged[p] \in {"R", "D"} \/ (ranged[p] = "A" /\ dirty[p] # "D")

StatusOf(p) == IF dirty[p] = "" \/ PreserveRangeStatus(p) THEN ranged[p] ELSE dirty[p]
SourceOf(p) == IF dirty[p] = "" THEN "diff" ELSE "working_tree"
ChangedPaths == {p \in Paths : ranged[p] # "" \/ dirty[p] # ""}
ChangedTests == {p \in ChangedPaths : PathRole(p) = "test"}

\* What a commit of the working tree makes of the range diff.
Committed(p) ==
  CASE dirty[p] = ""  -> ranged[p]
    [] dirty[p] = "??" -> IF ranged[p] = "D" THEN "M" ELSE "A"
    [] dirty[p] = "D" -> IF ranged[p] = "A" THEN "" ELSE "D"
    [] dirty[p] = "M" -> IF ranged[p] \in {"A", "R"} THEN ranged[p] ELSE "M"
    [] OTHER -> dirty[p]

AtHead(p) == IF ranged[p] = "" THEN p \in BasePaths ELSE ranged[p] # "D"
InTree(p) == IF dirty[p] = "" THEN AtHead(p) ELSE dirty[p] # "D"

-----------------------------------------------------------------------------
(***************************************************************************)
(* buildImplementationValidationIndex and hasImplementationValidation.     *)
(***************************************************************************)
ChangedTestAreas == UNION {PathAreas(t) : t \in ChangedTests}
DirtyTestAreas == UNION {PathAreas(t) : t \in {u \in ChangedTests : SourceOf(u) # "diff"}}

WordMatches(word, words) == word \in words \/ OtherForm(word) \in words
CommandNames(command, area) ==
  \E keyword \in KeywordsOf(area) :
    keyword # {} /\ \A word \in keyword : WordMatches(word, command.words)

\* Defect: a run at any commit counts.
MutHeadPassingRuns == {r \in recorded : r.passed /\ r.command.test}

HeadPassingRuns == {r \in recorded : r.head = commits /\ r.passed /\ r.command.test}
BroadAtHead == \E r \in HeadPassingRuns : r.command.broad
FocusedAtHead(area) ==
  \E r \in HeadPassingRuns :
    ~r.command.broad /\ r.command.focused /\ CommandNames(r.command, area)

HasValidation(p) ==
  \/ PathAreas(p) = {}
  \/ /\ PathAreas(p) \cap ChangedTestAreas # {}
     /\ SourceOf(p) = "diff" \/ PathAreas(p) \cap DirtyTestAreas # {}
  \/ /\ PathAreas(p) \cap ChangedTestAreas = {}
     /\ SourceOf(p) = "diff"
     /\ BroadAtHead \/ \E area \in PathAreas(p) : FocusedAtHead(area)

-----------------------------------------------------------------------------
(***************************************************************************)
(* The rules.  First(S, n) is the first n paths of S in path order.        *)
(***************************************************************************)
First(S, n) == {p \in S : Cardinality({q \in S : PathRank(q) < PathRank(p)}) < n}
FirstRank(S) == IF S = {} THEN 0 ELSE CHOOSE n \in {PathRank(p) : p \in S} : \A p \in S : n <= PathRank(p)

Draft(rule, severity, rank, cites, note, kind, about) ==
  [rule |-> rule, severity |-> severity, rank |-> rank, cites |-> cites, note |-> note,
   kind |-> kind, about |-> about]

\* One candidate over all regressed requirements: two real refs of each, or a
\* spec ref, cut at RuleEvidence.
RefsOf(delta) == First(delta.refs, 2)
Slots(delta) == IF delta.refs = {} THEN 1 ELSE Cardinality(RefsOf(delta))
SlotsBefore(delta) ==
  LET before == {d \in prFacts.regressed : d.rank < delta.rank}
  IN  Cardinality({slot \in before \X {1, 2} : slot[2] <= Slots(slot[1])})
CoverageRegression ==
  IF prFacts.regressed = {} THEN {}
  ELSE {Draft("coverage_regression", "high", 0,
              UNION {First(RefsOf(d), RuleEvidence - SlotsBefore(d)) : d \in prFacts.regressed},
              \E d \in prFacts.regressed : d.refs = {} /\ SlotsBefore(d) < RuleEvidence,
              "none", UNION {d.refs : d \in prFacts.regressed})}

UntestedFiles ==
  {p \in ChangedPaths : PathRole(p) = "implementation" /\ StatusOf(p) # "D" /\ ~HasValidation(p)}
ValidationRoots == {PathAreas(p) : p \in UntestedFiles}
RootState(root) ==
  CASE root \subseteq TestAreas -> "run_existing"
    [] root \cap TestAreas = {} -> "add"
    [] OTHER -> "mixed"
UntestedChangedImpl ==
  {LET group == {p \in UntestedFiles : PathAreas(p) = root}
   IN  Draft("untested_changed_impl", "medium", RootRank(root), First(group, RuleEvidence - 1), TRUE,
             RootState(root), group) : root \in ValidationRoots}

\* A rule that fires once, over the changed paths it matches.
OverPaths(rule, severity, matched) ==
  IF matched = {} THEN {}
  ELSE {Draft(rule, severity, FirstRank(matched), First(matched, RuleEvidence), FALSE, "none", matched)}
OnSurface(surface) == {p \in ChangedPaths : surface \in Surfaces(p)}

UnmappedChange == OverPaths("unmapped_change", "low", {p \in ChangedPaths : PathAreas(p) = {}})
PrivacySensitiveChange == OverPaths("privacy_sensitive_change", "high", OnSurface("privacy"))
CommentSurfaceChange == OverPaths("comment_surface_change", "medium", OnSurface("comment"))
CiSecretBoundaryChange == OverPaths("ci_secret_boundary_change", "high", OnSurface("ciSecret"))
SchemaContractChange == OverPaths("schema_contract_change", "medium", OnSurface("schema"))

Leaks == {p \in ChangedPaths : p \in prFacts.leaky /\ StatusOf(p) # "D"}
SecretInDiff ==
  {Draft("secret_in_diff", "critical", PathRank(p), {p}, FALSE, "none", {p}) : p \in Leaks}

\* Explicit contracts are cited before the others.
RemovedPath(p) == IF StatusOf(p) = "R" THEN MovedFrom(p) ELSE p
RemovedSurfaces ==
  {p \in ChangedPaths :
     /\ StatusOf(p) \in {"D", "R"}
     /\ PathRole(p) \in {"implementation", "test"} \/ ExplicitContract(RemovedPath(p))}
DeletedOrRenamedSurface ==
  LET removed == {RemovedPath(p) : p \in RemovedSurfaces}
      contracts == {p \in removed : ExplicitContract(p)}
      first == First(contracts, RuleEvidence)
      others == First(removed \ contracts, RuleEvidence - Cardinality(first))
      leading == IF contracts # {} THEN contracts ELSE removed
  IN  IF removed = {} THEN {}
      ELSE {Draft("deleted_or_renamed_surface", IF contracts # {} THEN "high" ELSE "low",
                  FirstRank(leading), first \cup others, FALSE, "none", removed)}

FailedOrSkippedTest ==
  IF prFacts.failed > 0 \/ prFacts.skipped > 0
  THEN {Draft("failed_or_skipped_test", "high", 0, {}, TRUE, "none", {})} ELSE {}

\* Added and deleted lines of the change.
LineCount ==
  LET lines == UNION {{<<p, n>> : n \in 1..PathLines(p)} : p \in ChangedPaths}
  IN  Cardinality(lines)
LargeDiff ==
  IF Cardinality(ChangedPaths) > FileCap \/ LineCount > LineCap
  THEN {Draft("large_diff", "low", 0, {}, TRUE, "none", {})} ELSE {}

Drafts ==
  UNION {CoverageRegression, UntestedChangedImpl, UnmappedChange, PrivacySensitiveChange, SecretInDiff,
         CommentSurfaceChange, CiSecretBoundaryChange, SchemaContractChange, DeletedOrRenamedSurface,
         FailedOrSkippedTest, LargeDiff}

PrRiskRules ==
  <<"coverage_regression", "untested_changed_impl", "unmapped_change", "privacy_sensitive_change",
    "secret_in_diff", "comment_surface_change", "ci_secret_boundary_change", "schema_contract_change",
    "deleted_or_renamed_surface", "failed_or_skipped_test", "large_diff">>
RulePriority(rule) == CHOOSE i \in 1..11 : PrRiskRules[i] = rule

\* The position, and so the PR-RISK number, of a candidate.
NumberOf(c) ==
  1 + Cardinality({d \in candidates :
        \/ RulePriority(d.rule) < RulePriority(c.rule)
        \/ d.rule = c.rule /\ d.rank < c.rank})

-----------------------------------------------------------------------------
PrInit ==
  /\ prStage = "work" /\ commits = 1 /\ treeSteps = 0 /\ recorded = {}
  /\ ranged = [p \in Paths |-> ""] /\ dirty = [p \in Paths |-> ""]
  /\ prFacts \in Reviews
  /\ candidates = {} /\ ranSince = {}

\* A step of the author on the working tree: the path's new porcelain status.
Touch(p, status) ==
  /\ prStage = "work" /\ treeSteps < MaxTreeSteps
  /\ treeSteps' = treeSteps + 1
  /\ dirty' = [dirty EXCEPT ![p] = status]
  /\ UNCHANGED <<prStage, prFacts, ranged, commits, recorded, candidates, ranSince>>

EditFile(p) == InTree(p) /\ dirty[p] \in {"", "M"} /\ Touch(p, "M")
Delete(p) == AtHead(p) /\ InTree(p) /\ ranged[p] # "R" /\ Touch(p, "D")
Create(p) == ~InTree(p) /\ MovedFrom(p) = p /\ Touch(p, IF dirty[p] = "D" THEN "M" ELSE "??")
Move(p) ==
  /\ MovedFrom(p) # p /\ ranged[p] = "" /\ dirty[p] = ""
  /\ Touch(p, "R")
Restore(p) == AtHead(p) /\ dirty[p] # "" /\ Touch(p, "")

CommitTree ==
  /\ prStage = "work" /\ commits < MaxCommits
  /\ \E p \in Paths : dirty[p] # ""
  /\ commits' = commits + 1
  /\ ranged' = [p \in Paths |-> Committed(p)]
  /\ dirty' = [p \in Paths |-> ""]
  /\ ranSince' = {p \in ranSince : dirty[p] = ""}
  /\ UNCHANGED <<prStage, prFacts, treeSteps, recorded, candidates>>

\* review-surfaces run -- <command>: the transcript names the head commit.
RunTests(command, passed) ==
  /\ prStage = "work" /\ Cardinality(recorded) < MaxRecorded
  /\ recorded' = recorded \cup {[command |-> command, head |-> commits, passed |-> passed]}
  /\ ranSince' =
       ranSince \cup
         {p \in Paths : /\ passed /\ command.test
                        /\ \/ command.broad
                           \/ command.focused /\ \E area \in PathAreas(p) : CommandNames(command, area)}
  /\ UNCHANGED <<prStage, prFacts, ranged, dirty, commits, treeSteps, candidates>>

BuildCandidates ==
  /\ prStage = "work"
  /\ candidates' = Drafts /\ prStage' = "built"
  /\ UNCHANGED <<prFacts, ranged, dirty, commits, treeSteps, recorded, ranSince>>

PrNext ==
  \/ \E p \in Paths : EditFile(p) \/ Delete(p) \/ Create(p) \/ Move(p) \/ Restore(p)
  \/ CommitTree
  \/ \E command \in RunCommands, passed \in BOOLEAN : RunTests(command, passed)
  \/ BuildCandidates

PrSpec == PrInit /\ [][PrNext]_prVars

-----------------------------------------------------------------------------
PathStatuses == {"", "A", "M", "D", "R", "??"}
PrTypeOK ==
  /\ prStage \in {"work", "built"}
  /\ ranged \in [Paths -> PathStatuses] /\ dirty \in [Paths -> PathStatuses]
  /\ commits \in 1..MaxCommits /\ treeSteps \in 0..MaxTreeSteps
  /\ \A r \in recorded : r.command \in RunCommands /\ r.head \in 1..commits /\ r.passed \in BOOLEAN
  /\ prFacts \in Reviews /\ ranSince \subseteq Paths
  /\ prStage # "built" => candidates = {}

Reported(rule, p) == \E c \in candidates : c.rule = rule /\ p \in c.about

ShareArea(p, q) == PathAreas(p) \cap PathAreas(q) # {}

\* A changed implementation that maps to an area and is not reported as untested
\* has a changed test of its area beside it, a dirty one when it is dirty itself,
\* or is clean and was covered by a passing run since the commit that last changed
\* it: the head of a transcript stands for that.
UntestedIsReported ==
  prStage = "built" =>
    \A p \in ChangedPaths :
      (PathRole(p) = "implementation" /\ StatusOf(p) # "D" /\ PathAreas(p) # {}
         /\ ~Reported("untested_changed_impl", p)) =>
        \/ /\ \E t \in ChangedTests : ShareArea(p, t)
           /\ dirty[p] = "" \/ \E t \in ChangedTests : ShareArea(p, t) /\ dirty[t] # ""
        \/ dirty[p] = "" /\ p \in ranSince

\* A removed test counts as a changed test of its area and so excuses the area's
\* implementation; the review then names the removal.
RemovedTestIsReported ==
  prStage = "built" =>
    \A t \in ChangedTests : ~InTree(t) => Reported("deleted_or_renamed_surface", t)

\* A removed or renamed explicit contract makes the candidate high, and the cut
\* leaves it out only for other contracts.
RemovedContractIsCited ==
  prStage = "built" =>
    \A p \in RemovedSurfaces : ExplicitContract(RemovedPath(p)) =>
      \E c \in candidates :
        /\ c.rule = "deleted_or_renamed_surface" /\ c.severity = "high"
        /\ \/ RemovedPath(p) \in c.cites
           \/ Cardinality(c.cites) = RuleEvidence /\ \A q \in c.cites : ExplicitContract(q)

\* The evidence of every candidate fits its bound, an untested file is in one
\* group only, and the numbers are the positions.
CandidatesAreNumbered ==
  /\ \A c \in candidates :
       /\ Cardinality(c.cites) <= RuleEvidence
       /\ c.rule = "untested_changed_impl" => Cardinality(c.cites) < RuleEvidence /\ c.note
  /\ \A c, d \in candidates :
       c.rule = "untested_changed_impl" /\ d.rule = c.rule /\ c # d => c.about \cap d.about = {}
  /\ {NumberOf(c) : c \in candidates} = 1..Cardinality(candidates)

PrRisksAreComplete ==
  UntestedIsReported /\ RemovedTestIsReported /\ RemovedContractIsCited /\ CandidatesAreNumbered
=============================================================================
