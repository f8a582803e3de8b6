------------------------------ MODULE MCReview ------------------------------
(***************************************************************************)
(* The parts of a review, each checked over its own inputs: a behaviour    *)
(* first chooses a part and then takes only the steps of that part.  The   *)
(* parts "validation" (ValidationEvidence), "scope" (ScopedCoverage),      *)
(* "evaluation" (RequirementEvaluation), "queue" (ReviewQueue) and "risks" *)
(* (PrRisks) are extended, so that their properties are the ones the       *)
(* proofs state; "anchors" is an instance.                                 *)
(***************************************************************************)
EXTENDS MCValidationEvidence, MCAnchors, ScopedCoverage, RequirementEvaluation, ReviewQueue,
        PrRisks

VARIABLE part

(***************************************************************************)
(* Evaluation: an implementation file and a test that map to the group and *)
(* a data file that does not.                                              *)
(***************************************************************************)
EvRole(f) == CASE f = "src" -> "source" [] f = "tst" -> "test" [] OTHER -> "config"
EvInGroup(f) == f \in {"src", "tst"}
EvReq(kind, mentions, changed, cites) ==
  [kind |-> kind, mentions |-> mentions, changed |-> changed, cites |-> cites]
EvRequirements ==
  {EvReq("plain", m, c, t) : m, c \in SUBSET {"src", "tst", "cfg"}, t \in {{}, {"cfg"}, {"absent"}}}
  \cup {EvReq("testOnly", m, c, {}) : m \in SUBSET {"src", "tst"}, c \in SUBSET {"src"}}
  \cup {EvReq("presence", {}, {}, t) : t \in SUBSET {"src", "absent"}}
  \cup {EvReq(k, {"src"}, {}, {}) : k \in {"deferred", "badSource"}}
EvCase(status, acid, token, nameToken, name) ==
  [status |-> status, acid |-> acid, token |-> token, nameToken |-> nameToken, name |-> name]
EvCases ==
  {EvCase("passed", "exact", "none", FALSE, "a"), EvCase("failed", "exact", "own", FALSE, "a"),
   EvCase("passed", "sibling", "none", FALSE, "a"), EvCase("passed", "foreign", "none", TRUE, "a"),
   EvCase("passed", "none", "own", FALSE, "b"), EvCase("passed", "none", "foreign", TRUE, "a"),
   EvCase("skipped", "none", "own", FALSE, "b"), EvCase("passed", "none", "none", TRUE, "a")}
EvCandidate(kind, path, name, saysAcid, goodLines) ==
  [kind |-> kind, path |-> path, name |-> name, saysAcid |-> saysAcid, goodLines |-> goodLines]
EvCandidates ==
  {EvCandidate("file", "cfg", "none", TRUE, TRUE), EvCandidate("test", "tst", "a", FALSE, TRUE),
   EvCandidate("file", "src", "none", FALSE, FALSE), EvCandidate("test", "cfg", "a", TRUE, TRUE)}

EvFiles == {"src", "tst", "cfg"}

(***************************************************************************)
(* Scope: two requirements of one group and one of another.                *)
(***************************************************************************)
ScAcids == {"A.1", "A.2", "B.1", "A.3"}
ScBase == <<"A.1", "A.2", "B.1">>
ScSources == {"a.ts", "b.test.ts"}
ScSpecFile == "s.feature.yaml"
ScGiven == {"satisfied", "missing"}
ScGroup(a) == IF a = "B.1" THEN "B" ELSE "A"
ScArea(f) == IF f = "a.ts" THEN "A" ELSE "B"
ScRole(f) == IF f = "a.ts" THEN "implementation" ELSE "test"

(***************************************************************************)
(* Queue: a contract surface, an uncovered implementation, a workflow and  *)
(* a test that the pull request does not change; room for two items.       *)
(***************************************************************************)
QRole(f) == CASE f \in {"api.ts", "ui.ts"} -> "implementation" [] f = "ci.yml" -> "ci" [] OTHER -> "test"
QArea(f) == IF f = "ci.yml" THEN "ops" ELSE "core"
QContract(f) == f = "api.ts"
QLines(f) == CASE f = "api.ts" -> 60 [] f = "ui.ts" -> 10 [] OTHER -> 0
QFocus(f) == CASE f = "api.ts" -> 26 [] f = "ui.ts" -> 9 [] OTHER -> 6
QCoverage(f) == IF f = "ui.ts" THEN "uncovered" ELSE "none"
QRisk(rule, severity, paths) == [rule |-> rule, severity |-> severity, paths |-> paths]
QShapes ==
  {QRisk("secret_in_diff", "critical", <<"ui.ts">>),
   QRisk("untested_changed_impl", "high", <<"api.ts", "ui.ts">>),
   QRisk("untested_changed_impl", "medium", <<"ui.ts">>),
   QRisk("schema_contract_change", "medium", <<"api.ts">>),
   QRisk("coverage_regression", "high", <<"old.test.ts", "api.ts">>),
   QRisk("comment_surface_change", "medium", <<"ui.ts">>)}
QFor(rule, paths) == [rule |-> rule, paths |-> paths]
QSuppressions ==
  {[rule |-> r, paths |-> {"api.ts", "ui.ts"}, current |-> c] : r \in {"untested_changed_impl", "secret_in_diff"}, c \in BOOLEAN}
QOverrides ==
  {[rule |-> "comment_surface_change", paths |-> {"ui.ts"}, priority |-> "blocker"],
   [rule |-> "untested_changed_impl", paths |-> {"ui.ts"}, priority |-> "blocker"],
   [rule |-> "secret_in_diff", paths |-> {"ui.ts"}, priority |-> "low"]}
QMemories ==
  {[rule |-> "untested_changed_impl", paths |-> {"api.ts"}, honoured |-> TRUE],
   [rule |-> "coverage_regression", paths |-> {"api.ts", "ui.ts", "old.test.ts"}, honoured |-> TRUE],
   [rule |-> "secret_in_diff", paths |-> {"ui.ts"}, honoured |-> TRUE]}
QFact(k, p) == [kind |-> k, path |-> p]
QFacts ==
  {QFact("breakingSchema", "api.ts"), QFact("additiveSchema", "api.ts"), QFact("contractApi", "api.ts"),
   QFact("dependency", "ci.yml"), QFact("rollup", "ui.ts"), QFact("importCycle", "ui.ts")}
QFiles == {"api.ts", "ui.ts", "ci.yml", "old.test.ts"}
QChanged == {"api.ts", "ui.ts", "ci.yml"}
QRank(f) == CASE f = "api.ts" -> 1 [] f = "ci.yml" -> 2 [] f = "old.test.ts" -> 3 [] OTHER -> 4
QTested == {}
QBudgets == {5, 20}

(***************************************************************************)
(* Risks: an implementation of one area and one of two, their test, and a  *)
(* file renamed from a declaration; one line of evidence, so that every    *)
(* cut bites.                                                              *)
(***************************************************************************)
PkPaths == {"api.ts", "core.test", "core.ts", "ui.ts"}
PkRank(p) == CASE p = "api.ts" -> 1 [] p = "core.test" -> 2 [] p = "core.ts" -> 3 [] p = "old.d.ts" -> 4
               [] OTHER -> 5
PkFrom(p) == IF p = "api.ts" THEN "old.d.ts" ELSE p
PkRole(p) == CASE p \in {"core.ts", "ui.ts"} -> "implementation" [] p = "core.test" -> "test" [] OTHER -> "config"
PkAreas(p) == CASE p \in {"core.ts", "core.test"} -> {"core"} [] p = "ui.ts" -> {"core", "ui"} [] OTHER -> {}
PkLines(p) == 2
PkSurfaces(p) == CASE p = "api.ts" -> {"schema"} [] p = "ui.ts" -> {"comment", "privacy"} [] OTHER -> {"ciSecret"}
PkContract(p) == p = "old.d.ts"
PkKeywords(a) == {{a}, {a, "all"}, {}}
PkOther(w) == IF w = "core" THEN "cores" ELSE w
PkCommand(broad, words) == [test |-> TRUE, broad |-> broad, focused |-> ~broad, words |-> words]
PkReview(leaky, fallen, skipped) ==
  [leaky |-> leaky, regressed |-> fallen, failed |-> 0, skipped |-> skipped]
PkReviews ==
  {PkReview({}, {}, 0),
   PkReview({"core.ts", "ui.ts"}, {[rank |-> 1, refs |-> {}], [rank |-> 2, refs |-> {"core.ts", "old.d.ts", "ui.ts"}]}, 1)}
PkCommands == {PkCommand(TRUE, {}), PkCommand(FALSE, {"cores"})}
PkBase == {"core.test", "core.ts"}
PkTestAreas == {"core"}
PkRootRank(root) == Cardinality(root)

-----------------------------------------------------------------------------
Parts == {"validation", "evaluation", "scope", "queue", "anchors", "risks"}

ReviewInit ==
  /\ part \in Parts
  /\ Init /\ (part # "validation" => ~untested)
  /\ EvInit /\ ScopeInit /\ QueueInit
  /\ PrInit /\ (part # "risks" => prFacts = PkReview({}, {}, 0))
  /\ IF part = "anchors" THEN Anchors!Init ELSE AnchorsIdle

ReviewNext ==
  \/ part = "validation" /\ Next /\ UNCHANGED <<part, evVars, scVars, queueVars, daVars, prVars>>
  \/ part = "evaluation" /\ EvNext /\ UNCHANGED <<part, vars, scVars, queueVars, daVars, prVars>>
  \/ part = "scope" /\ ScopeNext /\ UNCHANGED <<part, vars, evVars, queueVars, daVars, prVars>>
  \/ part = "queue" /\ QueueNext /\ UNCHANGED <<part, vars, evVars, scVars, daVars, prVars>>
  \/ part = "anchors" /\ Anchors!Next /\ UNCHANGED <<part, vars, evVars, scVars, queueVars, prVars>>
  \/ part = "risks" /\ PrNext /\ UNCHANGED <<part, vars, evVars, scVars, queueVars, daVars>>

ReviewSpec == ReviewInit /\ [][ReviewNext]_<<part, vars, evVars, scVars, queueVars, daVars, prVars>>

\* The types of the part.
PartsTypeOK ==
  CASE part = "evaluation" -> EvTypeOK [] part = "scope" -> ScopeTypeOK
    [] part = "queue" -> QueueTypeOK [] part = "anchors" -> Anchors!TypeOK
    [] part = "risks" -> PrTypeOK [] OTHER -> TypeOK

\* Whatever points at a line of the change points at a line of it (DiffAnchors).
AnchorsAreTrue == part = "anchors" => Anchors!AnchorsAreTrue
=============================================================================
