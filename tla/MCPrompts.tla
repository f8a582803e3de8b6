----------------------------- MODULE MCPrompts -----------------------------
(***************************************************************************)
(* The part "prompts" of MCInputs: a review with up to three of twenty-    *)
(* three findings over a CLI file, a schema, a workflow and an LLM module, *)
(* with room for two questions, two comments and three planned checks.   *)
(***************************************************************************)
EXTENDS Integers, Sequences, FiniteSets

VARIABLES apStage, findings, apEffects, lenses, apBlockers, questions, comments, testPlan

apVars == <<apStage, findings, apEffects, lenses, apBlockers, questions, comments, testPlan>>

Sig(kind, name, severity, paths) == [kind |-> kind, name |-> name, severity |-> severity, paths |-> paths]

ApSignals ==
  <<Sig("risk", "secret_in_diff", "critical", <<"src/llm/a.ts">>),
    Sig("risk", "coverage_regression", "high", <<"src/cli/a.ts">>),
    Sig("risk", "schema_contract_change", "medium", <<"schemas/a.json">>),
    Sig("risk", "untested_changed_impl", "medium", <<"src/cli/a.ts">>),
    Sig("risk", "privacy_sensitive_change", "high", <<>>),
    Sig("risk", "ci_secret_boundary_change", "high", <<"ci.yml">>),
    Sig("file", "cli", "low", <<"src/cli/a.ts">>),
    Sig("file", "llm", "low", <<"src/llm/a.ts">>),
    Sig("file", "ci", "low", <<"ci.yml">>),
    Sig("schema", "additive", "medium", <<"schemas/a.json">>),
    Sig("api", "breaking", "high", <<"src/cli/a.ts">>),
    Sig("dependency", "added", "high", <<"package.json">>),
    Sig("drift", "cycle", "high", <<"src/cli/a.ts", "src/llm/a.ts">>),
    Sig("weakening", "removed", "high", <<"a.test.ts">>),
    Sig("policy", "missing", "high", <<"src/cli/a.ts">>),
    Sig("policy", "missing", "high", <<"ci.yml">>),
    Sig("policy", "missing", "high", <<"schemas/a.json">>),
    Sig("policy", "recorded", "low", <<"ci.yml">>),
    Sig("missed", "untested_changed_impl", "low", <<"src/cli/a.ts">>),
    Sig("intent", "mismatch", "high", <<>>),
    Sig("intent", "missing", "medium", <<>>),
    Sig("run", "failed", "high", <<>>),
    Sig("run", "ciChecked", "low", <<>>)>>

ApLenses(p) ==
  CASE p = "src/cli/a.ts" -> {"api_contract"} [] p = "schemas/a.json" -> {"api_contract"}
    [] p = "src/llm/a.ts" -> {"llm_trust_boundary"} [] p = "ci.yml" -> {"security_privacy"}
    [] OTHER -> {}
ApWorkflow(p) == p = "ci.yml"
ApVersioned(p) == p = "schemas/a.json"
ApCommandLine(p) == p = "src/cli/a.ts"
ApTest(p) == CASE p = "src/cli/a.ts" -> "tests/cli.test.ts" [] p = "src/llm/a.ts" -> "tests/a.test.ts" [] OTHER -> "none"

Prompts == INSTANCE AuthorPrompts WITH
  Signals <- ApSignals, MaxSignals <- 3, PathLenses <- ApLenses, IsWorkflow <- ApWorkflow,
  IsVersioned <- ApVersioned, IsCommandLine <- ApCommandLine, SuggestedTest <- ApTest,
  LensesOn <- {"security_privacy", "llm_trust_boundary", "api_contract", "test_evidence", "supply_chain", "architecture"},
  MaxBlockers <- 2, MaxQuestions <- 2, MaxComments <- 2, MaxPlan <- 3, MaxEffects <- 3, MaxLenses <- 3, MaxShown <- 2

PromptsIdle ==
  /\ apStage = "effects" /\ findings = {} /\ apEffects = <<>> /\ lenses = <<>> /\ apBlockers = <<>>
  /\ questions = <<>> /\ comments = <<>> /\ testPlan = <<>>
=============================================================================
