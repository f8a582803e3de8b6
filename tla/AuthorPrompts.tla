--------------------------- MODULE AuthorPrompts ---------------------------
(***************************************************************************)
(* What a review asks of the author and of the reviewer: the policy        *)
(* effects and risk lenses it reads the findings through, the blockers,    *)
(* and from them the questions, the suggested comments and the test plan,  *)
(* each sorted, stripped of repetitions and cut to its limit.              *)
(*                                                                         *)
(* A signal is what a detector, the diff or a policy found, a record       *)
(* [kind, name, severity, paths]; its id is its place in Signals.  A text  *)
(* is a tuple that tells two texts apart.                                  *)
(***************************************************************************)
EXTENDS Integers, Sequences, FiniteSets, SequencesExt, FiniteSetsExt

CONSTANTS
  Signals,          \* what may be found, in the order in which it is read
  MaxSignals,       \* how much of it in one review
  PathLenses(_),    \* the lenses a path belongs to
  IsWorkflow(_),    \* a path of .github/workflows
  IsVersioned(_),   \* a schema or artifact contract path
  IsCommandLine(_), \* a path of the CLI, the configuration or the feature ledger
  SuggestedTest(_), \* the test file a path suggests, or "none"
  LensesOn,         \* the lenses the configuration leaves on
  MaxBlockers, MaxQuestions, MaxComments, MaxPlan, MaxEffects, MaxLenses, \* limits of the lists
  MaxShown          \* MAX_MISSING_TEAM_POLICY_QUESTION_EFFECTS (3 in the code)

VARIABLES
  apStage,
  findings,         \* the signals of this review
  apEffects, lenses, apBlockers,
  questions, comments, testPlan

apVars == <<apStage, findings, apEffects, lenses, apBlockers, questions, comments, testPlan>>

SeverityRank == [unknown |-> 5, low |-> 15, medium |-> 40, high |-> 75, critical |-> 100]
IsElevated(s) == s \in {"high", "critical"}

InOrder(S) == [n \in 1..Cardinality(S) |-> CHOOSE x \in S : Cardinality({y \in S : y <= x}) = n]
Select(kind) == InOrder({i \in findings : Signals[i].kind = kind})
Has(kind, name) == \E i \in findings : Signals[i].kind = kind /\ Signals[i].name = name
FirstFew(s, n) == SubSeq(s, 1, IF Len(s) > n THEN n ELSE Len(s))

\* The first of each key stays.
Distinct(s, Key(_)) ==
  LET keep == {i \in DOMAIN s : \A j \in 1..(i - 1) : Key(s[j]) # Key(s[i])}
  IN [n \in 1..Cardinality(keep) |-> s[InOrder(keep)[n]]]

DedupeQuestions(items) == Distinct(items, LAMBDA q : q.text)

\* Tuples of numbers, the least first.
Lesser(a, b) == \E i \in DOMAIN a : a[i] < b[i] /\ \A j \in 1..(i - 1) : a[j] = b[j]
SortedBy(s, Key(_)) ==
  LET order == SortSeq([n \in DOMAIN s |-> n], LAMBDA i, j : Lesser(Append(Key(s[i]), i), Append(Key(s[j]), j)))
  IN [n \in DOMAIN s |-> s[order[n]]]

Flat(ss) == FlattenSeq(ss)

-----------------------------------------------------------------------------
(* Policies and feedback *)

Effect(kind, ids, paths, name) == [kind |-> kind, ids |-> ids, paths |-> paths, name |-> name]
IsMissing(e) == e.kind = "team_policy" /\ e.name # "recorded"

\* A missed file is no longer one when a risk of the wanted rule covers it.
MissedPaths(i) ==
  LET covered == UNION {ToSet(Signals[r].paths) :
                          r \in {k \in findings : Signals[k].kind = "risk" /\ Signals[k].name = Signals[i].name}}
  IN ToSet(Signals[i].paths) \ covered

PolicyEffects ==
  LET of(i) == Effect("team_policy", {i}, ToSet(Signals[i].paths), Signals[i].name)
      policies == Select("policy")
  IN [n \in DOMAIN policies |-> of(policies[n])]

MissedEffects ==
  LET missed == SelectSeq(Select("missed"), LAMBDA i : MissedPaths(i) # {})
  IN [n \in DOMAIN missed |-> Effect("false_negative", {missed[n]}, MissedPaths(missed[n]), "focus")]

\* Defect: what does not fit is dropped.
MutBounded(missing) == FirstFew(missing, MaxShown)

\* More than fit are folded into one that names them all, which comes first.
Bounded(missing) ==
  LET visible == FirstFew(missing, MaxShown - 1)
      tail == SubSeq(missing, MaxShown, Len(missing))
  IN IF Len(missing) <= MaxShown THEN missing
     ELSE <<Effect("team_policy", UNION {tail[n].ids : n \in DOMAIN tail},
                   UNION {tail[n].paths : n \in DOMAIN tail}, "folded")>> \o visible

Effects ==
  LET missing == Bounded(SelectSeq(PolicyEffects, IsMissing))
      optional == SelectSeq(PolicyEffects, LAMBDA e : ~IsMissing(e)) \o MissedEffects
      room == IF MaxEffects > Len(missing) THEN MaxEffects - Len(missing) ELSE 0
  IN missing \o FirstFew(optional, room)

MissingPolicies == SelectSeq(apEffects, IsMissing)

-----------------------------------------------------------------------------
(* Risk lenses *)

LensOrder == <<"security_privacy", "llm_trust_boundary", "api_contract", "test_evidence",
               "reviewer_ux", "cache_provenance", "supply_chain", "architecture">>
LensRank(l) == CHOOSE n \in DOMAIN LensOrder : LensOrder[n] = l

\* The lens of a rule; a rule with none goes by the paths of the risk.
LensOfRule ==
  [coverage_regression |-> "test_evidence", untested_changed_impl |-> "test_evidence",
   failed_or_skipped_test |-> "test_evidence", privacy_sensitive_change |-> "security_privacy",
   secret_in_diff |-> "security_privacy", ci_secret_boundary_change |-> "security_privacy",
   comment_surface_change |-> "reviewer_ux", deleted_or_renamed_surface |-> "reviewer_ux",
   schema_contract_change |-> "api_contract", unmapped_change |-> "path", large_diff |-> "path"]

LensesOfRisk(i) ==
  LET lens == LensOfRule[Signals[i].name]
  IN IF lens # "path" THEN {lens} ELSE UNION {PathLenses(p) : p \in ToSet(Signals[i].paths)}

PathSeverity(lens, path) ==
  CASE lens = "security_privacy" /\ IsWorkflow(path) -> "high"
    [] lens \in {"api_contract", "llm_trust_boundary"} -> "medium"
    [] OTHER -> "low"

\* What signal i adds: the lenses and how serious it is for one of them.
LensesOfSignal(i) ==
  CASE Signals[i].kind = "risk" -> LensesOfRisk(i)
    [] Signals[i].kind = "file" -> PathLenses(Signals[i].paths[1])
    [] Signals[i].kind \in {"schema", "api"} -> IF Signals[i].name = "internal" THEN {} ELSE {"api_contract"}
    [] Signals[i].kind = "dependency" -> {"supply_chain"}
    [] Signals[i].kind = "config" -> {"security_privacy"}
    [] Signals[i].kind = "drift" -> {"architecture"}
    [] Signals[i].kind = "weakening" -> {"test_evidence"}
    [] OTHER -> {}

SeverityFor(i, lens) ==
  IF Signals[i].kind = "file" THEN PathSeverity(lens, Signals[i].paths[1]) ELSE Signals[i].severity

Finding(lens) ==
  LET of == InOrder({i \in findings : lens \in LensesOfSignal(i)})
      paths == Flat([n \in DOMAIN of |-> Signals[of[n]].paths])
      worst == CHOOSE n \in DOMAIN of :
                 \A m \in DOMAIN of : SeverityRank[SeverityFor(of[n], lens)] >= SeverityRank[SeverityFor(of[m], lens)]
  IN [lens |-> lens, severity |-> SeverityFor(of[worst], lens),
      risks |-> {i \in ToSet(of) : Signals[i].kind = "risk"}, paths |-> Distinct(paths, LAMBDA p : p)]

LensFindings ==
  LET fired == SelectSeq(LensOrder, LAMBDA l : l \in LensesOn /\ \E i \in findings : l \in LensesOfSignal(i))
      of == [n \in DOMAIN fired |-> Finding(fired[n])]
  IN FirstFew(SortedBy(of, LAMBDA f : <<-SeverityRank[f.severity], LensRank(f.lens)>>),
              MaxLenses)

HasVersioned(f) == \E p \in ToSet(f.paths) : IsVersioned(p)

\* Only a finding that no risk of the pull request speaks for asks by itself.
PathOnly(f) == f.risks = {}

\* Breaking and supported on a path of the finding, or a public path no schema fact explains.
ContractNeedsAction(f) ==
  \E p \in ToSet(f.paths) :
    \/ \E i \in findings : Signals[i].kind = "api" /\ Signals[i].name = "breaking" /\ Signals[i].paths[1] = p
    \/ IsCommandLine(p)
    \/ IsVersioned(p) /\ ~\E i \in findings : Signals[i].kind = "schema" /\ Signals[i].paths[1] = p

NeedsReviewerAction(f) ==
  CASE f.lens = "architecture" -> f.severity = "high"
    [] f.lens \in {"test_evidence", "reviewer_ux"} -> FALSE
    [] f.lens = "api_contract" -> ContractNeedsAction(f)
    [] OTHER -> TRUE

NeedsAuthorPrompt(f) ==
  f.lens \notin {"llm_trust_boundary", "cache_provenance"} /\ NeedsReviewerAction(f)

AskingLenses == SelectSeq(lenses, LAMBDA f : PathOnly(f) /\ NeedsAuthorPrompt(f))

IsBlockingLens(f) ==
  IsElevated(f.severity) \/ f.lens = "llm_trust_boundary" \/ (f.lens = "api_contract" /\ HasVersioned(f))

LensText(f) == <<"lens", f.lens, f.lens = "api_contract" /\ HasVersioned(f)>>

-----------------------------------------------------------------------------
(* Risks and blockers *)

Risks == Select("risk")
FirstPath(i) == IF Signals[i].paths = <<>> THEN "none" ELSE Signals[i].paths[1]
RiskText(i) == <<"check", Signals[i].name>>

RootedRules == {"secret_in_diff", "ci_secret_boundary_change", "coverage_regression",
                "untested_changed_impl", "comment_surface_change"}
HasRootCause(i) ==
  \/ Signals[i].name \in RootedRules
  \/ /\ Signals[i].name \in {"schema_contract_change", "deleted_or_renamed_surface"}
     /\ IsVersioned(FirstPath(i))

Blocker(id, order, text, path, risks) ==
  [id |-> id, order |-> order, text |-> text, path |-> path, risks |-> risks, summary |-> <<"of", id>>]

\* The tests first, then what is critical, the policies, and a regression.
Blockers ==
  LET blocks(i) == /\ Signals[i].paths # <<>>
                   /\ \/ Signals[i].severity = "critical" /\ HasRootCause(i)
                      \/ Signals[i].name = "coverage_regression"
      ofRisk(i) == Blocker(i, IF Signals[i].severity = "critical" THEN 1 ELSE 3, RiskText(i), FirstPath(i), {i})
      ofEffect(e) == Blocker(Min(e.ids), 2, <<"record", e.ids>>,
                             IF e.paths = {} THEN "none" ELSE CHOOSE p \in e.paths : TRUE, {})
      tests == IF Has("run", "failed") THEN <<Blocker(0, 0, <<"fix", "tests">>, "none", {})>> ELSE <<>>
      ofRisks == LET of == SelectSeq(Risks, blocks) IN [n \in DOMAIN of |-> ofRisk(of[n])]
      ofPolicies == [n \in DOMAIN MissingPolicies |-> ofEffect(MissingPolicies[n])]
      all == tests \o ofRisks \o ofPolicies
  IN SortedBy(all, LAMBDA b : <<b.order>>)

\* What the questions and the comments see of them.
ShownBlockers == FirstFew(apBlockers, MaxBlockers)

\* A schema risk all of whose paths only add to their schema.
Superseded(i) ==
  /\ Signals[i].name = "schema_contract_change" /\ Signals[i].paths # <<>>
  /\ \A p \in ToSet(Signals[i].paths) :
       LET of == {k \in findings : Signals[k].kind = "schema" /\ Signals[k].paths[1] = p}
       IN of # {} /\ \A k \in of : Signals[k].name = "additive"

-----------------------------------------------------------------------------
(* Questions *)

Question(severity, text, reason) == [severity |-> severity, text |-> text, reason |-> reason]
QuestionRank == [blocking |-> 3, clarifying |-> 2]
IntentReason == <<"intent">>

\* The first of each bucket, then the rest.
IntentItems ==
  LET bucket(b) == SelectSeq(Select("intent"), LAMBDA i : Signals[i].name = b)
      buckets == <<bucket("missing"), bucket("overreach"), bucket("mismatch")>>
      firsts == Flat([n \in 1..3 |-> FirstFew(buckets[n], 1)])
      rest == Flat([n \in 1..3 |-> SubSeq(buckets[n], 2, Len(buckets[n]))])
  IN SelectSeq(FirstFew(firsts \o rest, 3), LAMBDA i : IsElevated(Signals[i].severity))

QuestionDrafts ==
  LET ofBlockers == [n \in DOMAIN ShownBlockers |->
                       Question("blocking", ShownBlockers[n].text, ShownBlockers[n].summary)]
      missing == FirstFew(MissingPolicies, 3)
      ofPolicies == [n \in DOMAIN missing |->
                       Question("blocking", <<"evidence of", missing[n].ids>>, <<"of", Min(missing[n].ids)>>)]
      missed == FirstFew(SelectSeq(apEffects, LAMBDA e : e.kind = "false_negative"), 3)
      ofMissed == [n \in DOMAIN missed |->
                     Question("clarifying", <<"reviewed", missed[n].paths>>, <<"effect", missed[n].ids>>)]
      asking == FirstFew(AskingLenses, 3)
      ofLenses == [n \in DOMAIN asking |->
                     Question(IF IsBlockingLens(asking[n]) THEN "blocking" ELSE "clarifying",
                              LensText(asking[n]), <<"lens", asking[n].lens>>)]
      pathless == SelectSeq(Risks, LAMBDA i : Signals[i].paths = <<>> /\ IsElevated(Signals[i].severity))
      ofPathless == [n \in DOMAIN pathless |-> Question("blocking", RiskText(pathless[n]), <<"of", pathless[n]>>)]
      ofIntent == [n \in DOMAIN IntentItems |-> Question("blocking", <<"resolve", IntentItems[n]>>, IntentReason)]
  IN ofBlockers \o ofPolicies \o ofMissed \o ofLenses \o ofPathless \o ofIntent

\* A question blocks only with the summary of a blocker as its reason.
Coherent(q) ==
  IF q.severity = "blocking" /\ \A n \in DOMAIN ShownBlockers : ShownBlockers[n].summary # q.reason
  THEN [q EXCEPT !.severity = "clarifying"] ELSE q

\* Defect: the kept question takes the last place whatever stands there.
MutCapped(qs) ==
  LET intent == {n \in DOMAIN qs : qs[n].reason = IntentReason}
  IN IF Len(qs) <= MaxQuestions \/ intent = {} THEN FirstFew(qs, MaxQuestions)
     ELSE [FirstFew(qs, MaxQuestions) EXCEPT ![MaxQuestions] = qs[Min(intent)]]

\* The first question about the intent takes the place of the last one kept that is no
\* more serious.
Capped(qs) ==
  LET kept == FirstFew(qs, MaxQuestions)
      intent == {n \in DOMAIN qs : qs[n].reason = IntentReason}
      yields == {n \in DOMAIN kept : QuestionRank[kept[n].severity] <= QuestionRank[qs[Min(intent)].severity]}
  IN IF Len(qs) <= MaxQuestions \/ intent = {} THEN kept
     ELSE IF Min(intent) <= MaxQuestions \/ yields = {} THEN kept
     ELSE [kept EXCEPT ![Max(yields)] = qs[Min(intent)]]

Questions ==
  LET coherent == [n \in DOMAIN QuestionDrafts |-> Coherent(QuestionDrafts[n])]
  IN Capped(DedupeQuestions(coherent))

-----------------------------------------------------------------------------
(* Suggested comments *)

Comment(severity, path, text, source, risk, serious) ==
  [severity |-> severity, path |-> path, text |-> text, source |-> source, risk |-> risk, serious |-> serious]
CommentRank == [blocking |-> 0, clarifying |-> 1, non_blocking |-> 2]

\* The rules whose risks are worth a comment, and how it is put.
Disposition ==
  [coverage_regression |-> "blocking", secret_in_diff |-> "blocking",
   untested_changed_impl |-> "clarifying", privacy_sensitive_change |-> "clarifying",
   deleted_or_renamed_surface |-> "clarifying"]

FactComments ==
  LET of == SelectSeq(Select("api"), LAMBDA i : Signals[i].name = "breaking")
  IN [n \in DOMAIN of |-> Comment("clarifying", FirstPath(of[n]), <<"changed", of[n]>>, -1, 0, 5)]

BlockerComments ==
  [n \in DOMAIN ShownBlockers |->
     LET b == ShownBlockers[n]
     IN Comment("blocking", b.path, b.text, 0, IF b.risks = {} THEN 0 ELSE Min(b.risks), 5)]

RiskComments ==
  LET of == SelectSeq(Risks, LAMBDA i : /\ \A n \in DOMAIN ShownBlockers : i \notin ShownBlockers[n].risks
                                        /\ ~Superseded(i) /\ Signals[i].name \in DOMAIN Disposition)
  IN [n \in DOMAIN of |->
        Comment(Disposition[Signals[of[n]].name], FirstPath(of[n]), <<"rule", Signals[of[n]].name>>, 1, of[n],
                SeverityRank[Signals[of[n]].severity])]

\* The comment of a lens a fact does not say already on the same path.
LensComments ==
  LET covered == {FactComments[n].path : n \in DOMAIN FactComments}
      severity(f) == IF IsBlockingLens(f) THEN "blocking"
                     ELSE IF f.lens \in {"reviewer_ux", "cache_provenance"} THEN "non_blocking" ELSE "clarifying"
      repeats(f) == f.lens \in {"api_contract", "test_evidence"} /\ severity(f) = "clarifying"
                    /\ f.paths[1] \in covered
      of == SelectSeq(AskingLenses, LAMBDA f : ~repeats(f))
  IN [n \in DOMAIN of |-> Comment(severity(of[n]), of[n].paths[1], LensText(of[n]), 2, 0, 5)]

\* Defect: a draft that claims to block keeps its place in the order.
MutDemoted(c) == c

\* Only the comment of a blocker blocks; the others are demoted before they are sorted.
Demoted(c) == IF c.severity = "blocking" /\ c.source # 0 THEN [c EXCEPT !.severity = "clarifying"] ELSE c

Comments ==
  LET all == FactComments \o BlockerComments \o RiskComments \o LensComments
      put == [n \in DOMAIN all |-> Demoted(all[n])]
      sorted == SortedBy(put, LAMBDA c : <<CommentRank[c.severity], c.source, -c.serious>>)
  IN FirstFew(Distinct(sorted, LAMBDA c : <<c.severity, c.path, c.text>>), MaxComments)

-----------------------------------------------------------------------------
(* The test plan *)

Item(kind, priority, file, text) == [kind |-> kind, priority |-> priority, file |-> file, text |-> text]
PlanRank == [required |-> 0, recommended |-> 1]

CheckCiBoundary == Item("manual", "required", "none", <<"inspect the ci secret boundary">>)

\* A path that suggests no test leaves the file of the rule.
Or(file, default) == IF file = "none" THEN default ELSE file

RiskTests(i) ==
  LET rule == Signals[i].name
      own == IF Signals[i].paths = <<>> THEN "none" ELSE SuggestedTest(FirstPath(i))
  IN CASE rule = "coverage_regression"
            -> <<Item("automatic", "required", "tests/scoped-coverage.test.ts", <<"restore coverage">>)>>
       [] rule = "untested_changed_impl"
            -> <<Item("automatic", "required", own, <<"focused test", FirstPath(i)>>)>>
       [] rule = "privacy_sensitive_change"
            -> <<Item("automatic", "required", Or(own, "tests/privacy.test.ts"), <<"sensitive input">>)>>
       [] rule = "secret_in_diff" -> <<Item("manual", "required", "none", <<"rotate">>)>>
       [] rule = "comment_surface_change"
            -> <<Item("automatic", "recommended", "tests/sticky-summary.test.ts", <<"render">>)>>
       [] rule = "ci_secret_boundary_change"
            -> IF Has("run", "ciChecked") THEN <<>> ELSE <<CheckCiBoundary>>
       [] rule = "schema_contract_change"
            -> <<Item("automatic", "required", "tests/schema-contract.test.ts", <<"previous fixture">>)>>
       [] rule = "deleted_or_renamed_surface"
            -> <<Item("automatic", "recommended", own, <<"references", FirstPath(i)>>)>>
       [] rule = "failed_or_skipped_test"
            -> IF Has("run", "failed") THEN <<Item("automatic", "required", "none", <<"rerun">>)>> ELSE <<>>
       [] OTHER -> <<>>

\* A contract: the versioned artifacts together, and each other path by its test.
ContractTests(f) ==
  LET fixture == IF HasVersioned(f)
                 THEN <<Item("automatic", "required", "tests/schema-contract.test.ts", <<"existing fixture">>)>>
                 ELSE <<>>
      others == SelectSeq(f.paths, LAMBDA p : ~IsVersioned(p) /\ SuggestedTest(p) # "none")
      each == [n \in DOMAIN others |->
                 Item("automatic", "recommended", SuggestedTest(others[n]), <<"contract fixture">>)]
      all == fixture \o Distinct(each, LAMBDA t : t.file)
  IN IF all # <<>> THEN all
     ELSE <<Item("automatic", "recommended", "tests/schema-contract.test.ts", <<"contract or artifact">>)>>

\* What the lens of a path prescribes; those of the tests and of the rendering are not asked.
LensTests(f) ==
  CASE f.lens = "api_contract" -> ContractTests(f)
    [] f.lens = "security_privacy"
         -> IF (\E p \in ToSet(f.paths) : IsWorkflow(p)) /\ ~Has("run", "ciChecked") THEN <<CheckCiBoundary>>
            ELSE <<Item("automatic", IF IsElevated(f.severity) THEN "required" ELSE "recommended",
                        "tests/privacy.test.ts", <<"sensitive input of the lens">>)>>
    [] f.lens = "llm_trust_boundary"
         -> <<Item("automatic", "required", "tests/human-narrative.test.ts", <<"off the allowlist">>)>>
    [] f.lens = "supply_chain" -> <<Item("manual", "required", "none", <<"vet">>)>>
    [] f.lens = "cache_provenance"
         -> <<Item("automatic", "recommended", "tests/artifact-provenance-input-hardening.test.ts", <<"stale">>)>>
    [] OTHER -> <<>>

PlanItem(item, source, serious) == [item |-> item, source |-> source, serious |-> serious]

PlanItems ==
  LET planned == SelectSeq(Risks, LAMBDA i : ~Superseded(i))
      asked == SelectSeq(lenses, LAMBDA f : PathOnly(f) /\ NeedsReviewerAction(f))
      ofRisk(i) == [n \in DOMAIN RiskTests(i) |-> PlanItem(RiskTests(i)[n], 0, SeverityRank[Signals[i].severity])]
      ofLens(f) == [n \in DOMAIN LensTests(f) |-> PlanItem(LensTests(f)[n], 2, SeverityRank[f.severity])]
      ofPolicies == [n \in DOMAIN MissingPolicies |->
                       PlanItem(Item("manual", "required", "none", <<"record", MissingPolicies[n].ids>>), -1, 5)]
  IN Flat([n \in DOMAIN planned |-> ofRisk(planned[n])]) \o Flat([n \in DOMAIN asked |-> ofLens(asked[n])])
     \o ofPolicies

TestPlan ==
  LET sorted == SortedBy(PlanItems, LAMBDA p : <<PlanRank[p.item.priority], p.source, -p.serious>>)
      once == FirstFew(Distinct(sorted, LAMBDA p : <<p.item.kind, p.item.file, p.item.text>>), MaxPlan)
  IN [n \in DOMAIN once |-> once[n].item]

-----------------------------------------------------------------------------
\* Up to MaxSignals of the signals are found.
Init ==
  /\ apStage = "effects"
  /\ findings \in LET upTo[k \in 0..MaxSignals] ==
                        IF k = 0 THEN {{}} ELSE upTo[k - 1] \cup {F \cup {f} : F \in upTo[k - 1], f \in DOMAIN Signals}
                   IN upTo[MaxSignals]
  /\ apEffects = <<>> /\ lenses = <<>> /\ apBlockers = <<>>
  /\ questions = <<>> /\ comments = <<>> /\ testPlan = <<>>

BuildFeedbackPolicyEffects ==
  /\ apStage = "effects" /\ apEffects' = Effects /\ apStage' = "lenses"
  /\ UNCHANGED <<findings, lenses, apBlockers, questions, comments, testPlan>>

BuildRiskLensFindings ==
  /\ apStage = "lenses" /\ lenses' = LensFindings /\ apStage' = "blockers"
  /\ UNCHANGED <<findings, apEffects, apBlockers, questions, comments, testPlan>>

BuildBlockers ==
  /\ apStage = "blockers" /\ apBlockers' = Blockers /\ apStage' = "questions"
  /\ UNCHANGED <<findings, apEffects, lenses, questions, comments, testPlan>>

BuildQuestions ==
  /\ apStage = "questions" /\ questions' = Questions /\ apStage' = "comments"
  /\ UNCHANGED <<findings, apEffects, lenses, apBlockers, comments, testPlan>>

BuildSuggestedComments ==
  /\ apStage = "comments" /\ comments' = Comments /\ apStage' = "plan"
  /\ UNCHANGED <<findings, apEffects, lenses, apBlockers, questions, testPlan>>

BuildTestPlan ==
  /\ apStage = "plan" /\ testPlan' = TestPlan /\ apStage' = "done"
  /\ UNCHANGED <<findings, apEffects, lenses, apBlockers, questions, comments>>

Next ==
  \/ BuildFeedbackPolicyEffects \/ BuildRiskLensFindings \/ BuildBlockers
  \/ BuildQuestions \/ BuildSuggestedComments \/ BuildTestPlan

Spec == Init /\ [][Next]_apVars

-----------------------------------------------------------------------------
TypeOK ==
  /\ apStage \in {"effects", "lenses", "blockers", "questions", "comments", "plan", "done"}
  /\ findings \subseteq DOMAIN Signals
  /\ \A n \in DOMAIN lenses : lenses[n].lens \in LensesOn
  /\ Len(questions) <= MaxQuestions /\ Len(comments) <= MaxComments /\ Len(testPlan) <= MaxPlan

BlockerSummaries == {ShownBlockers[n].summary : n \in DOMAIN ShownBlockers}
Asked == {questions[n].text : n \in DOMAIN questions}
AllBlock(s, limit) == Len(s) = limit /\ \A n \in DOMAIN s : s[n].severity = "blocking"

\* A question blocks only for a blocker, and gives way to nothing but other blockers.
QuestionsFollowBlockers ==
  apStage \in {"comments", "plan", "done"} =>
    /\ \A n \in DOMAIN questions : questions[n].severity = "blocking" => questions[n].reason \in BlockerSummaries
    /\ \A n \in DOMAIN ShownBlockers :
         ShownBlockers[n].text \in Asked \/ AllBlock(questions, MaxQuestions)

\* However many other findings ask first, one question is about the intent unless
\* every question is a blocker's.
IntentIsAsked ==
  apStage \in {"comments", "plan", "done"} /\ IntentItems # <<>> =>
    (\E n \in DOMAIN questions : questions[n].reason = IntentReason) \/ AllBlock(questions, MaxQuestions)

\* A comment blocks only for a blocker; one that merely claims to never takes the place
\* of a blocker's, and no risk is commented as a blocker and again by its rule.
CommentsFollowBlockers ==
  apStage \in {"plan", "done"} =>
    /\ \A n \in DOMAIN comments : comments[n].severity = "blocking" => comments[n].source = 0
    /\ \A n \in DOMAIN ShownBlockers :
         (\E m \in DOMAIN comments : comments[m].text = ShownBlockers[n].text /\ comments[m].severity = "blocking")
         \/ AllBlock(comments, MaxComments)
    /\ \A m, n \in DOMAIN comments : comments[m].risk = comments[n].risk /\ comments[m].risk # 0 => m = n

\* Every missing check of a policy blocks and is in the plan before anything else.
PoliciesArePlanned ==
  \A i \in findings : Signals[i].kind = "policy" /\ Signals[i].name # "recorded" =>
    /\ apStage \in {"questions", "comments", "plan", "done"} =>
         \E n \in DOMAIN apBlockers : apBlockers[n].text[1] = "record" /\ i \in apBlockers[n].text[2]
    /\ apStage = "done" =>
         \E n \in DOMAIN testPlan :
           /\ testPlan[n].text[1] = "record" /\ i \in testPlan[n].text[2]
           /\ \A m \in 1..(n - 1) : testPlan[m].text[1] = "record"

\* What a review asks follows what it found: blockers first and only blockers as such,
\* the intent not crowded out, and no check of a policy lost.
PromptsFollowFindings ==
  QuestionsFollowBlockers /\ IntentIsAsked /\ CommentsFollowBlockers /\ PoliciesArePlanned
=============================================================================
