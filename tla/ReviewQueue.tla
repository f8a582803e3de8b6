---------------------------- MODULE ReviewQueue ----------------------------
(***************************************************************************)
(* From the deterministic findings of a pull request to what a reviewer    *)
(* sees: the supporting queue (buildReviewQueue), the approval decisions   *)
(* (buildDecisionProjection), the verdict and the time-budgeted plan, with *)
(* the committed policy and the feedback memory that re-rank an item.      *)
(*                                                                         *)
(* A path is one of ReviewFiles.  A risk of the pull request is a record   *)
(* [rule, severity, paths]; its id is its position.  What the other        *)
(* detectors, the packet and the feedback memory put in the queue is a     *)
(* fact [kind, path].  The drafts of the queue are a set; "at" is the      *)
(* place of a draft's sort key, which decides last.                        *)
(***************************************************************************)
EXTENDS Integers, Sequences, FiniteSets

CONSTANTS
  ReviewFiles,     \* the files a risk may cite
  ChangedFiles,    \* those the pull request changes
  FileRole(_),     \* implementation, test, config, ci or doc
  FileArea(_),     \* the areas a file maps to
  FileRank(_),     \* its place in the order of paths
  IsContract(_),   \* an explicit contract surface
  LinesChanged(_), \* changed lines of a file
  FocusScore(_),   \* the cold-start score of a changed file
  TestedBeside,    \* files whose focused test changed with them
  CoverageOf(_),   \* covered, uncovered, partial or none, from a current report
  RiskShapes,      \* risks a pull request may have
  Suppressions,    \* [rule, paths, current]
  Overrides,       \* [rule, paths, priority]
  Memories,        \* false positives noted by a reviewer: [rule, paths, honoured]
  Facts,           \* what else enters the queue: [kind, path]
  MaxRisks, MaxSuppressions, MaxInputs,   \* bounds on the inputs
  MaxQueue,        \* max_supporting_queue (20 in the code)
  MaxFallback,     \* MAX_CHANGED_FILE_QUEUE (8 in the code)
  Budgets          \* minutes a reviewer may have

Priorities == {"blocker", "high", "medium", "low"}
PriorityRank(p) == CASE p = "blocker" -> 1 [] p = "high" -> 2 [] p = "medium" -> 3 [] OTHER -> 4
Verdicts == {"block_before_merge", "reviewable_with_attention", "probably_safe", "no_signal"}
Severities == {"critical", "high", "medium", "low"}

PriorityForSeverity(s) == IF s = "critical" THEN "blocker" ELSE s

SeverityWeight(s) ==
  CASE s \in {"critical", "blocker"} -> 100 [] s = "high" -> 75 [] s = "medium" -> 40 [] OTHER -> 15

RuleWeight(rule) ==
  CASE rule = "coverage_regression" -> 75 [] rule = "untested_changed_impl" -> 45
    [] rule = "privacy_sensitive_change" -> 85 [] rule = "secret_in_diff" -> 95
    [] rule = "comment_surface_change" -> 50 [] rule = "ci_secret_boundary_change" -> 90
    [] rule = "schema_contract_change" -> 65 [] OTHER -> 20

\* Files are finite in number and no two have one place in the order; a risk cites
\* a path, and its severity and an override's priority are known ones.
ASSUME QueueAssumption ==
  /\ IsFiniteSet(ReviewFiles) /\ ChangedFiles \in SUBSET ReviewFiles
  /\ \A f \in ReviewFiles : FileRank(f) \in Nat /\ FocusScore(f) \in Int /\ LinesChanged(f) \in Nat
  /\ \A f, g \in ReviewFiles : FileRank(f) = FileRank(g) => f = g
  /\ \A r \in RiskShapes : /\ r.paths \in Seq(ReviewFiles) /\ r.paths # <<>>
                           /\ r.severity \in Severities
  /\ \A o \in Overrides : o.priority \in Priorities
  /\ MaxQueue \in Nat /\ MaxFallback \in Nat /\ Budgets \in SUBSET (Nat \ {0})

VARIABLES
  qStage,
  prRisks, suppressions, overrides, memories, facts,   \* the inputs
  ranked,        \* decisionItems: every draft, in queue order
  outcome,       \* validation, missing evidence, findings and verdict
  plan           \* the time-budgeted plan

queueVars == <<qStage, prRisks, suppressions, overrides, memories, facts, ranked, outcome, plan>>

Anchor(risk) == risk.paths[1]
PathsOf(risk) == {risk.paths[n] : n \in DOMAIN risk.paths}

\* Several paths and no line range: the item is shown at file level.
IsAggregate(risk) == Len(risk.paths) > 1

-----------------------------------------------------------------------------
(* Policy and feedback memory *)

\* The first suppression that names the rule and the anchor decides, also expired.
MatchSuppression(risk) ==
  {i \in DOMAIN suppressions :
     suppressions[i].rule = risk.rule /\ Anchor(risk) \in suppressions[i].paths}

\* Defect: an expired suppression is honoured.
MutSuppressed(risk) == MatchSuppression(risk) # {}

Suppressed(risk) ==
  \E i \in MatchSuppression(risk) :
    suppressions[i].current /\ \A j \in MatchSuppression(risk) : i <= j

MatchOverride(risk) ==
  {i \in DOMAIN overrides : overrides[i].rule = risk.rule /\ Anchor(risk) \in overrides[i].paths}
OverrideOf(risk) ==
  overrides[CHOOSE i \in MatchOverride(risk) : \A j \in MatchOverride(risk) : i <= j]

\* A memory of a false positive, its paths the files its pattern matches (all files
\* when it has none), honoured when its action and its condition are known.
EffectApplies(m, risk) ==
  /\ m.rule = risk.rule /\ m.honoured
  /\ PathsOf(risk) \cap m.paths # {}

\* Defect: one covered path is enough.
MutDowngradedByFeedback(risk) ==
  \E i \in DOMAIN memories : EffectApplies(memories[i], risk)

\* A memory downgrades a risk when it covers every path the risk cites.
DowngradedByFeedback(risk) ==
  \E i \in DOMAIN memories :
    EffectApplies(memories[i], risk) /\ PathsOf(risk) \subseteq memories[i].paths

PriorityOf(risk) ==
  IF Suppressed(risk) THEN "low"
  ELSE IF MatchOverride(risk) # {} THEN OverrideOf(risk).priority
  ELSE IF DowngradedByFeedback(risk) THEN "low"
  ELSE PriorityForSeverity(risk.severity)

\* An anchored item has a line and a hunk; one at file level has neither.
ScoreOf(risk) ==
  LET base == IF MatchOverride(risk) # {} THEN OverrideOf(risk).priority ELSE risk.severity
  IN SeverityWeight(base) + RuleWeight(risk.rule)
     + (IF IsAggregate(risk) \/ Anchor(risk) \notin ChangedFiles THEN 0 ELSE 20)
     - (IF Suppressed(risk) \/ DowngradedByFeedback(risk) THEN 60 ELSE 0)

-----------------------------------------------------------------------------
(* Drafts *)

QueueDraft(path, priority, score, spec, kind, risk, at) ==
  [path |-> path, priority |-> priority, score |-> score, spec |-> spec,
   kind |-> kind, risk |-> risk, at |-> at]

RiskDraft(i) ==
  LET risk == prRisks[i]
  IN QueueDraft(Anchor(risk), PriorityOf(risk), ScoreOf(risk),
                IF IsAggregate(risk) THEN "aggregate" ELSE "concrete", risk.rule, i, Len(facts) + i)
RiskDrafts == {RiskDraft(i) : i \in DOMAIN prRisks}

\* Kind by kind: the score of the first of a kind, its priority, its specificity.
\* A rollup is a RISK-NNN row of the packet, a packetRisk one a provider added.
FactScore(kind) ==
  CASE kind = "weakenedTest" -> 240 [] kind \in {"breakingSchema", "importCycle"} -> 200
    [] kind = "contractApi" -> 160 [] kind = "installScript" -> 230 [] kind = "dependency" -> 150
    [] kind = "ciPermissions" -> 145 [] kind = "falseNegative" -> 86 [] kind = "preference" -> 71
    [] kind = "packetRisk" -> 95 [] OTHER -> 50
FactPriority(kind) == IF kind \in {"dependency", "preference", "rollup"} THEN "medium" ELSE "high"
FactSpec(kind) == IF kind = "rollup" THEN "aggregate" ELSE "concrete"

\* A schema change that only adds is no draft of its own.
FactDraft(i) ==
  LET kind == facts[i].kind
      earlier == {j \in 1..(i - 1) : facts[j].kind = kind}
  IN QueueDraft(facts[i].path, FactPriority(kind), FactScore(kind) - Cardinality(earlier), FactSpec(kind),
                kind, 0, i)
FactDrafts == {FactDraft(i) : i \in {j \in DOMAIN facts : facts[j].kind # "additiveSchema"}}

\* Drafts of files come last, in the order of paths.
FileAt(f) == Len(facts) + Len(prRisks) + 1 + FileRank(f)

FallbackWeight(f) ==
  CASE FileRole(f) = "ci" -> 72 [] FileRole(f) = "implementation" -> 68
    [] FileRole(f) = "config" -> 60 [] FileRole(f) = "test" -> 50 [] OTHER -> 0
FallbackBefore(f, g) ==
  \/ FallbackWeight(f) > FallbackWeight(g)
  \/ FallbackWeight(f) = FallbackWeight(g) /\ FileRank(f) < FileRank(g)

FallbackDraft(f) ==
  QueueDraft(f, IF FileRole(f) = "test" THEN "low" ELSE "medium", FallbackWeight(f) + 16,
             "fallback", "changedFile", 0, FileAt(f))

\* Only when the pull request has no risk with a path.
FallbackDrafts ==
  LET worth == {f \in ChangedFiles : FallbackWeight(f) > 0}
      first == {f \in worth : Cardinality({g \in worth : FallbackBefore(g, f)}) < MaxFallback}
  IN IF prRisks # <<>> THEN {} ELSE {FallbackDraft(f) : f \in first}

FocusFiles == {f \in ChangedFiles : FileRole(f) # "doc"}
FocusBefore(f, g) ==
  \/ FocusScore(f) > FocusScore(g)
  \/ /\ FocusScore(f) = FocusScore(g)
     /\ \/ LinesChanged(f) > LinesChanged(g)
        \/ LinesChanged(f) = LinesChanged(g) /\ FileRank(f) < FileRank(g)
FocusDraft(f) ==
  QueueDraft(f, IF FileRole(f) = "implementation" /\ FocusScore(f) >= 20 THEN "medium" ELSE "low",
             FocusScore(f) + 8, "baseline", "focus", 0, FileAt(f))
FocusDrafts(S, n) ==
  {FocusDraft(f) : f \in {g \in S : Cardinality({h \in S : FocusBefore(h, g)}) < n}}

Found == FactDrafts \cup RiskDrafts \cup FallbackDrafts

\* The whole queue when nothing was found; beside detector findings only source that
\* no draft covers, and only what still fits.
FocusFloor ==
  LET found == Found
      covered == {d.path : d \in found}
      uncovered == {f \in FocusFiles : f \notin covered /\ FileRole(f) = "implementation"}
      room == MaxQueue - Cardinality(found)
  IN IF found = {} THEN FocusDrafts(FocusFiles, MaxFallback)
     ELSE IF FactDrafts \cup RiskDrafts # {}
     THEN FocusDrafts(uncovered, IF room < MaxFallback THEN room ELSE MaxFallback)
     ELSE {}

-----------------------------------------------------------------------------
(* Ranking *)

UntestedPaths ==
  UNION {PathsOf(prRisks[i]) : i \in {j \in DOMAIN prRisks : prRisks[j].rule = "untested_changed_impl"}}

Least(a, b) == IF a < b THEN a ELSE b
Greatest(a, b) == IF a > b THEN a ELSE b

\* Promoted (-1) without evidence, demoted (1) with it; coverage has the last word.
EvidenceTier(path) ==
  LET tests == IF path \in TestedBeside THEN 1
               ELSE IF path \in UntestedPaths THEN -1
               ELSE IF path \in ChangedFiles /\ FileRole(path) = "implementation" THEN 1
               ELSE 0
  IN CASE CoverageOf(path) = "uncovered" -> Least(tests, -1)
       [] CoverageOf(path) = "covered" -> Greatest(tests, 1)
       [] CoverageOf(path) = "partial" -> Least(tests, 0)
       [] OTHER -> tests

SpecificityRank(d) ==
  CASE d.spec = "concrete" -> 0 [] d.spec = "fallback" -> 1 [] d.spec = "aggregate" -> 2 [] OTHER -> 3

\* Kind of detector, score, evidence, sort key.
SortKey(d) == <<SpecificityRank(d), -d.score, EvidenceTier(d.path), d.at>>
KeyBefore(a, b) == \E i \in 1..4 : a[i] < b[i] /\ \A j \in 1..(i - 1) : a[j] = b[j]

\* A changed-file prompt is dropped beside a concrete finding on the same path.
QueueDrafts ==
  LET drafts == Found \cup FocusFloor
      concrete == {d.path : d \in {e \in drafts : e.spec = "concrete"}}
  IN {d \in drafts : ~(d.spec = "fallback" /\ d.path \in concrete)}

RankedDrafts ==
  LET entries == {[draft |-> d, key |-> SortKey(d)] : d \in QueueDrafts}
      Ahead(e) == {f \in entries : KeyBefore(f.key, e.key)}
      at == [n \in 1..Cardinality(entries) |-> CHOOSE e \in entries : Cardinality(Ahead(e)) = n - 1]
  IN [n \in 1..Cardinality(entries) |-> at[n].draft]

\* The supporting queue shows the first of the ranked items.
Queue == SubSeq(ranked, 1, Least(Len(ranked), MaxQueue))

-----------------------------------------------------------------------------
(* Decisions *)

NoRoot == <<"none", "none">>

RootForRisk(rule, path) ==
  CASE rule = "schema_contract_change" /\ IsContract(path) -> <<"persisted_contract", path>>
    [] rule \in {"secret_in_diff", "ci_secret_boundary_change"} -> <<"secret_boundary", path>>
    [] rule \in {"coverage_regression", "untested_changed_impl"} -> <<"test_coverage", path>>
    [] rule = "comment_surface_change" -> <<"review_surface", "none">>
    [] OTHER -> NoRoot

FactOn(kind, path) == \E i \in DOMAIN facts : facts[i] = [kind |-> kind, path |-> path]

SchemaDisposition(path) ==
  CASE FactOn("breakingSchema", path) -> "breaking"
    [] ~FactOn("breakingSchema", path) /\ FactOn("additiveSchema", path) -> "additive"
    [] OTHER -> "unknown"

\* Rules that do not depend on the risk of the item, in the order they are tried.
RootOfPath(item) ==
  CASE item.kind = "packetRisk" -> <<"packet_risk", item.path>>
    [] item.kind = "rollup" -> NoRoot
    [] SchemaDisposition(item.path) = "breaking" /\ item.kind \notin {"packetRisk", "rollup"}
         -> <<"persisted_contract", item.path>>
    [] SchemaDisposition(item.path) # "breaking" /\ FactOn("contractApi", item.path)
         /\ item.kind \notin {"packetRisk", "rollup"} -> <<"public_contract", item.path>>
    [] item.kind = "importCycle" /\ SchemaDisposition(item.path) # "breaking"
         /\ ~FactOn("contractApi", item.path) -> <<"architecture_cycle", item.path>>
    [] OTHER -> NoRoot

QueueRoot(item) ==
  LET risk == prRisks[item.risk]
      root == IF risk.rule = "untested_changed_impl" THEN <<"test_validation_area", FileArea(item.path)>>
              ELSE RootForRisk(risk.rule, item.path)
  IN IF item.path \notin ChangedFiles THEN NoRoot
     ELSE IF item.kind = "contractApi" THEN <<"public_contract", item.path>>
     ELSE IF item.risk = 0 THEN RootOfPath(item)
     ELSE IF risk.rule = "schema_contract_change" /\ SchemaDisposition(item.path) = "additive"
     THEN NoRoot
     ELSE IF root # NoRoot THEN root ELSE RootOfPath(item)

\* A risk some of whose evidence lies on a changed path.
IsScoped(risk) == PathsOf(risk) \cap ChangedFiles # {}

HasRoot(risk) == \E p \in PathsOf(risk) : RootForRisk(risk.rule, p) # NoRoot

\* Defect: only what the supporting queue has room for can block.
MutIsBlocking(i) ==
  /\ IsScoped(prRisks[i]) /\ (\E j \in DOMAIN Queue : Queue[j].risk = i)
  /\ prRisks[i].severity = "critical" /\ HasRoot(prRisks[i])

\* What no policy and no memory touches: critical with a root, or a regression.
IsBlocking(i) ==
  /\ IsScoped(prRisks[i])
  /\ \/ prRisks[i].severity = "critical" /\ HasRoot(prRisks[i])
     \/ prRisks[i].rule = "coverage_regression"

BlockingRisks == {i \in DOMAIN prRisks : IsBlocking(i)}

FirstChanged(risk) ==
  risk.paths[CHOOSE k \in DOMAIN risk.paths :
               risk.paths[k] \in ChangedFiles /\ \A j \in 1..(k - 1) : risk.paths[j] \notin ChangedFiles]

BlockerRoot(i) ==
  LET root == RootForRisk(prRisks[i].rule, FirstChanged(prRisks[i]))
  IN IF root # NoRoot THEN root ELSE <<"merge_gate", i>>

FindingDrafts(validation) ==
  {[root |-> BlockerRoot(i), priority |-> "blocker", risk |-> i] : i \in BlockingRisks}
  \cup (IF validation = "failed"
        THEN {[root |-> <<"test_integrity", "none">>, priority |-> "blocker", risk |-> 0]} ELSE {})
  \cup {[root |-> QueueRoot(ranked[i]), priority |-> ranked[i].priority, risk |-> ranked[i].risk] :
          i \in {j \in DOMAIN ranked : QueueRoot(ranked[j]) # NoRoot}}

\* One finding for each root: the strongest priority and every risk.
Findings(validation) ==
  LET drafts == FindingDrafts(validation)
      Of(root) == {d \in drafts : d.root = root}
      Top(root) == CHOOSE p \in {d.priority : d \in Of(root)} :
                     \A d \in Of(root) : PriorityRank(p) <= PriorityRank(d.priority)
  IN {[root |-> root, priority |-> Top(root), risks |-> {d.risk : d \in Of(root)} \ {0}] :
        root \in {d.root : d \in drafts}}

ReviewVerdict(validation, missing, findings) ==
  CASE BlockingRisks # {} \/ validation = "failed" -> "block_before_merge"
    [] OTHER ->
       CASE missing \/ \E f \in findings : f.priority \in {"high", "medium"}
              -> "reviewable_with_attention"
         [] ~missing /\ (\A f \in findings : f.priority \notin {"high", "medium"})
              -> IF validation = "passed" THEN "probably_safe" ELSE "no_signal"

-----------------------------------------------------------------------------
(* The plan, in whole minutes *)

\* max(1, round((2 + lines / 10) * weight)), the weight 1.5, 1 or 0.75.
EstimateMinutes(item) ==
  LET quarters == CASE item.priority \in {"blocker", "high"} -> 6
                    [] item.priority = "medium" -> 4 [] OTHER -> 3
      lines == IF item.path \in ChangedFiles THEN LinesChanged(item.path) ELSE 0
  IN Greatest(1, (2 * (20 + lines) * quarters + 40) \div 80)

SkimMinutes(cost) == Greatest(1, (4 * cost + 5) \div 10)

EmptyPlan == [read |-> <<>>, skim |-> <<>>, defer |-> <<>>, spent |-> 0]

\* Defect: a blocker's minutes count against the budget.
MutPlaceItem(p, i, minutes) ==
  LET cost == EstimateMinutes(Queue[i])
      skim == SkimMinutes(cost)
  IN CASE Queue[i].priority = "blocker" \/ 10 * (p.spent + cost) <= 7 * minutes \/ p.read = <<>>
            -> [p EXCEPT !.read = Append(@, i), !.spent = @ + cost]
       [] OTHER -> IF p.spent + skim <= minutes
                   THEN [p EXCEPT !.skim = Append(@, i), !.spent = @ + skim]
                   ELSE [p EXCEPT !.defer = Append(@, i)]

\* Blockers are always read, outside the budget; others are read up to 70 % of it (the
\* first in any case), skimmed up to all of it, and else deferred.
PlaceItem(p, i, minutes) ==
  LET cost == EstimateMinutes(Queue[i])
      skim == SkimMinutes(cost)
  IN IF Queue[i].priority = "blocker" THEN [p EXCEPT !.read = Append(@, i)]
     ELSE IF 10 * (p.spent + cost) <= 7 * minutes \/ p.read = <<>>
     THEN [p EXCEPT !.read = Append(@, i), !.spent = @ + cost]
     ELSE IF p.spent + skim <= minutes
     THEN [p EXCEPT !.skim = Append(@, i), !.spent = @ + skim]
     ELSE [p EXCEPT !.defer = Append(@, i)]

BuildPlan(minutes) ==
  LET placed[k \in 0..Len(Queue)] ==
        IF k = 0 THEN EmptyPlan ELSE PlaceItem(placed[k - 1], k, minutes)
  IN placed[Len(Queue)]

-----------------------------------------------------------------------------
NoOutcome == [validation |-> "none", missing |-> FALSE, findings |-> {}, verdict |-> "no_signal"]
NoPlan == [minutes |-> 0, of |-> EmptyPlan]

QueueInit ==
  /\ qStage = "inputs" /\ prRisks = <<>> /\ suppressions = <<>> /\ overrides = <<>>
  /\ memories = <<>> /\ facts = <<>> /\ ranked = <<>>
  /\ outcome = NoOutcome /\ plan = NoPlan

InputsLeft ==
  /\ qStage = "inputs"
  /\ Len(prRisks) + Len(suppressions) + Len(overrides) + Len(memories) + Len(facts) < MaxInputs

FindRisk ==
  /\ InputsLeft /\ Len(prRisks) < MaxRisks
  /\ \E r \in RiskShapes : prRisks' = Append(prRisks, r)
  /\ UNCHANGED <<qStage, suppressions, overrides, memories, facts, ranked, outcome, plan>>

CommitSuppression ==
  /\ InputsLeft /\ Len(suppressions) < MaxSuppressions
  /\ \E s \in Suppressions : suppressions' = Append(suppressions, s)
  /\ UNCHANGED <<qStage, prRisks, overrides, memories, facts, ranked, outcome, plan>>

CommitOverride ==
  /\ InputsLeft /\ overrides = <<>>
  /\ \E o \in Overrides : overrides' = <<o>>
  /\ UNCHANGED <<qStage, prRisks, suppressions, memories, facts, ranked, outcome, plan>>

RecordFeedback ==
  /\ InputsLeft /\ memories = <<>>
  /\ \E m \in Memories : memories' = <<m>>
  /\ UNCHANGED <<qStage, prRisks, suppressions, overrides, facts, ranked, outcome, plan>>

FindFact ==
  /\ InputsLeft
  /\ \E f \in Facts : facts' = Append(facts, f)
  /\ UNCHANGED <<qStage, prRisks, suppressions, overrides, memories, ranked, outcome, plan>>

BuildReviewQueue ==
  /\ qStage = "inputs"
  /\ ranked' = RankedDrafts
  /\ qStage' = "ranked"
  /\ UNCHANGED <<prRisks, suppressions, overrides, memories, facts, outcome, plan>>

\* The order of the next two does not matter: neither reads what the other sets.
Decide ==
  /\ qStage = "ranked"
  /\ \E validation \in {"none", "passed", "failed"}, missing \in BOOLEAN :
       outcome' = [validation |-> validation, missing |-> missing,
                   findings |-> Findings(validation),
                   verdict |-> ReviewVerdict(validation, missing, Findings(validation))]
  /\ qStage' = "decided"
  /\ UNCHANGED <<prRisks, suppressions, overrides, memories, facts, ranked, plan>>

Plan ==
  /\ qStage = "ranked"
  /\ \E minutes \in Budgets : plan' = [minutes |-> minutes, of |-> BuildPlan(minutes)]
  /\ qStage' = "planned"
  /\ UNCHANGED <<prRisks, suppressions, overrides, memories, facts, ranked, outcome>>

QueueNext ==
  \/ FindRisk \/ CommitSuppression \/ CommitOverride \/ RecordFeedback \/ FindFact
  \/ BuildReviewQueue \/ Decide \/ Plan

QueueSpec == QueueInit /\ [][QueueNext]_queueVars

-----------------------------------------------------------------------------
QueueTypeOK ==
  /\ qStage \in {"inputs", "ranked", "decided", "planned"}
  /\ prRisks \in Seq(RiskShapes) /\ Len(prRisks) <= MaxRisks
  /\ suppressions \in Seq(Suppressions) /\ overrides \in Seq(Overrides)
  /\ memories \in Seq(Memories) /\ facts \in Seq(Facts)
  /\ \A i \in DOMAIN ranked :
       ranked[i].path \in ReviewFiles /\ ranked[i].priority \in Priorities
       /\ ranked[i].risk \in 0..Len(prRisks)
  /\ outcome.verdict \in Verdicts
  /\ plan.minutes \in Budgets \cup {0}

\* Whatever the policy and the feedback memory say and however long the queue is, no
\* decision is lost: each scoped risk with a root at its anchor is in a finding, a
\* blocking one in a finding that blocks, and a blocking risk, a failed validation or
\* missing evidence is never reported as safe.
DecisionsSurvive ==
  qStage = "decided" =>
    /\ \A i \in DOMAIN prRisks :
         LET risk == prRisks[i]
             mustBlock == /\ PathsOf(risk) \cap ChangedFiles # {}
                          /\ \/ risk.rule = "coverage_regression"
                             \/ risk.severity = "critical" /\ HasRoot(risk)
             decides == /\ Anchor(risk) \in ChangedFiles
                        /\ RootForRisk(risk.rule, Anchor(risk)) # NoRoot
                        /\ ~FactOn("additiveSchema", Anchor(risk))
         IN /\ mustBlock => /\ outcome.verdict = "block_before_merge"
                            /\ \E f \in outcome.findings : i \in f.risks /\ f.priority = "blocker"
            /\ decides => \E f \in outcome.findings : i \in f.risks
    /\ outcome.validation = "failed" => outcome.verdict = "block_before_merge"
    /\ outcome.missing => outcome.verdict \in {"block_before_merge", "reviewable_with_attention"}

\* A serious item is shown as low only for a reason that is in force: a current
\* suppression that comes before every other one for its rule and anchor, an override
\* to low, or a memory of every path the risk cites.
DemotionIsCurrent ==
  qStage # "inputs" =>
    \A k \in DOMAIN ranked :
      LET risk == prRisks[ranked[k].risk]
          ForIt(s) == s.rule = risk.rule /\ Anchor(risk) \in s.paths
      IN (ranked[k].risk # 0 /\ risk.severity # "low" /\ ranked[k].priority = "low") =>
           \/ \E i \in DOMAIN suppressions :
                /\ ForIt(suppressions[i]) /\ suppressions[i].current
                /\ \A j \in 1..(i - 1) : ~ForIt(suppressions[j])
           \/ \E i \in DOMAIN overrides : ForIt(overrides[i]) /\ overrides[i].priority = "low"
           \/ \E i \in DOMAIN memories :
                memories[i].rule = risk.rule /\ PathsOf(risk) \subseteq memories[i].paths

\* No decision is lost to the policy, the feedback memory or the length of the queue,
\* and a serious one is shown as low only for a reason in force.
NothingIsHidden == DecisionsSurvive /\ DemotionIsCurrent

\* The minutes of the items that are read or skimmed and are no blockers.
MinutesOf(p) ==
  LET Others(list) == {list[n] : n \in {m \in DOMAIN list : Queue[list[m]].priority # "blocker"}}
      reading == UNION {{<<i, n>> : n \in 1..EstimateMinutes(Queue[i])} : i \in Others(p.read)}
      skimming == UNION {{<<i, n>> : n \in 1..SkimMinutes(EstimateMinutes(Queue[i]))} : i \in Others(p.skim)}
  IN Cardinality(reading \cup skimming)

\* Every queued item is in exactly one list of the plan and no blocker is skimmed or
\* deferred; the minutes beside the blockers stay within the budget, unless they are
\* begun by the one item that is read in any case; and an item is deferred only when it
\* does not fit beside these, whatever the blockers take.
PlanHonoursBudget ==
  qStage = "planned" =>
    LET p == plan.of
        lists == p.read \o p.skim \o p.defer
        others == {i \in DOMAIN Queue : Queue[i].priority # "blocker"}
        alone == /\ p.read # <<>> /\ p.read[1] \in others
                 /\ 10 * EstimateMinutes(Queue[p.read[1]]) > 7 * plan.minutes
    IN /\ Len(lists) = Len(Queue) /\ {lists[n] : n \in DOMAIN lists} = DOMAIN Queue
       /\ \A i \in DOMAIN Queue \ others : \E n \in DOMAIN p.read : p.read[n] = i
       /\ others # {} /\ ~alone => MinutesOf(p) <= plan.minutes
       /\ \A n \in DOMAIN p.defer :
            MinutesOf(p) + SkimMinutes(EstimateMinutes(Queue[p.defer[n]])) > plan.minutes

\* features/review-surfaces.feature.yaml:211: "Reviewer severity must be coherent
\* across verdict, blockers, questions, suggested comments, and counts": a review with
\* a decision shown as a blocker is not called probably safe.
SeverityIsCoherent ==
  qStage = "decided" /\ outcome.verdict = "probably_safe" =>
    \A f \in outcome.findings : f.priority # "blocker"
=============================================================================
