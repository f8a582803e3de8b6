------------------------------ MODULE MCTrust ------------------------------
(***************************************************************************)
(* The part "trust" of MCInputs: reviews of up to three signals of one     *)
(* theme, that of the evidence, of the intent or of the method, beside a   *)
(* file that always changed.                                               *)
(***************************************************************************)
EXTENDS Integers, Sequences, FiniteSets

VARIABLES tsInput, tsStage, trust, verdict, cards, intent, skim, method

tsVars == <<tsInput, tsStage, trust, verdict, cards, intent, skim, method>>

TsRef(kind, path, key, sha, valid) ==
  [kind |-> kind, path |-> path, key |-> key, note |-> IF path = 0 THEN sha ELSE "none", sha |-> sha, valid |-> valid]
TsRun(sha) == TsRef("command", 0, 0, sha, "none")
TsAt(path, valid) == TsRef("file", path, 0, "none", valid)
TsSpec(path) == TsRef("spec", path, 0, "none", "none")
TsFile(path, role, keys, areas, out) == [what |-> "file", path |-> path, old |-> 0, role |-> role, keys |-> keys, areas |-> areas, out |-> out]
TsTest(kind, command, refs) == [what |-> "test", kind |-> kind, command |-> command, refs |-> refs]
TsResult(key, status, refs) == [what |-> "result", key |-> key, status |-> status, refs |-> refs]
TsRisk(pr, severity, refs) == [what |-> "risk", pr |-> pr, severity |-> severity, refs |-> refs]
TsBlocker(severity, manual, refs) == [what |-> "blocker", severity |-> severity, manual |-> manual, refs |-> refs]
TsNamed(what, provider) == [what |-> what, provider |-> provider]

\* Every review changes the file of the first signal.
TsBase == <<TsFile(1, "code", {9, 10}, {"a"}, "none")>>

TsEvidence ==
  <<TsTest("direct", "validation", <<TsRun("head")>>), TsTest("indirect", "none", <<TsRef("test", 3, 0, "head", "valid")>>),
    TsTest("direct", "validation", <<TsRun("old")>>),
    TsTest("claimed", "other", <<TsRef("feedback", 0, 0, "head", "none")>>), TsTest("claimed", "other", <<TsRun("head")>>),
    TsTest("claimed", "validation", <<TsRun("old")>>), TsTest("missing", "none", <<TsAt(1, "unknown")>>),
    TsTest("unknown", "none", <<TsAt(4, "unknown")>>),
    [what |-> "gap", key |-> 1, refs |-> <<TsAt(1, "none")>>], [what |-> "gap", key |-> 2, refs |-> <<>>],
    [what |-> "claim", validation |-> TRUE, cited |-> TRUE], [what |-> "claim", validation |-> FALSE, cited |-> FALSE],
    TsRisk(TRUE, "medium", <<TsAt(1, "llm"), TsAt(3, "valid")>>), TsRisk(TRUE, "high", <<TsAt(1, "valid")>>),
    TsResult(1, "invalid_evidence", <<TsAt(1, "invalid")>>),
    [what |-> "decision", priority |-> "high"], [what |-> "decision", priority |-> "low"],
    TsBlocker("low", FALSE, <<TsAt(1, "valid"), TsAt(1, "none")>>), TsBlocker("critical", TRUE, <<TsAt(1, "valid")>>),
    [what |-> "lens", severity |-> "low", rank |-> 8, refs |-> <<TsAt(1, "valid"), TsAt(3, "none")>>],
    [what |-> "plan", required |-> TRUE],
    [what |-> "hunk", class |-> "partial", path |-> 1, at |-> 1], [what |-> "hunk", class |-> "uncovered", path |-> 1, at |-> 2],
    [what |-> "hunk", class |-> "uncovered", path |-> 1, at |-> 2], [what |-> "hunk", class |-> "uncovered", path |-> 4, at |-> 1]>>

TsIntent ==
  <<TsFile(2, "spec", {2}, {}, "none"), TsFile(3, "code", {3}, {"b"}, "unmapped"), TsFile(4, "generated", {}, {}, "generated"),
    [TsFile(5, "doc", {}, {}, "unmapped") EXCEPT !.old = 3],
    [what |-> "requirement", key |-> 1, quoted |-> FALSE], [what |-> "requirement", key |-> 3, quoted |-> TRUE],
    [what |-> "affected", key |-> 1, path |-> 1, area |-> "a"], [what |-> "affected", key |-> 4, path |-> 6, area |-> "b"],
    [what |-> "delta", key |-> 5, path |-> 1, kind |-> "file"], [what |-> "delta", key |-> 4, path |-> 1, kind |-> "spec"],
    TsResult(3, "partial", <<>>), TsResult(4, "missing", <<TsSpec(1)>>), TsResult(1, "unknown", <<TsAt(1, "none")>>),
    TsResult(5, "missing", <<TsAt(1, "none")>>), TsResult(6, "invalid_evidence", <<TsAt(3, "invalid")>>), TsResult(7, "satisfied", <<TsAt(1, "valid")>>),
    TsResult(9, "partial", <<>>), TsResult(10, "unknown", <<>>),
    [what |-> "overreach", key |-> 3, refs |-> <<TsAt(5, "none")>>], [what |-> "overreach", key |-> 8, refs |-> <<>>],
    [what |-> "candidate"]>>

TsMethod ==
  <<TsFile(2, "lock", {}, {}, "none"), TsFile(4, "generated", {}, {}, "generated"), TsFile(5, "doc", {}, {}, "none"),
    TsRisk(TRUE, "high", <<TsAt(2, "valid")>>), TsRisk(FALSE, "critical", <<TsAt(5, "none")>>), TsRisk(TRUE, "medium", <<TsAt(4, "none")>>),
    [what |-> "effect", kind |-> "false_negative", path |-> 4], [what |-> "effect", kind |-> "false_positive", path |-> 5],
    [what |-> "workflow", anchored |-> TRUE, advisory |-> TRUE], [what |-> "workflow", anchored |-> FALSE, advisory |-> FALSE],
    [what |-> "workflow", anchored |-> TRUE, advisory |-> FALSE], [what |-> "workflow", anchored |-> TRUE, advisory |-> TRUE],
    [what |-> "flag", known |-> FALSE], TsNamed("considered", FALSE), TsNamed("considered", TRUE), TsNamed("research", TRUE)>>

TsSignals == TsBase \o TsEvidence \o TsIntent \o TsMethod
TsE == Len(TsBase \o TsEvidence)
TsI == Len(TsBase \o TsEvidence \o TsIntent)
TsM == Len(TsSignals)

\* The first signal and up to two or three of those after place f, up to place t.
TsPlaces(f, t) == {1} \cup (f + 1)..t
TsTwo(f, t) == {{1, a, b} : a, b \in TsPlaces(f, t)}
TsThree(f, t) == {two \cup {c} : two \in TsTwo(f, t), c \in TsPlaces(f, t)}

TsMode == [pr |-> TRUE, specless |-> FALSE, dirty |-> FALSE, base |-> TRUE, stale |-> FALSE]
TsOff == [TsMode EXCEPT !.pr = FALSE]

TsThemes ==
  {[modes |-> {TsMode}, holds |-> TsThree(1, TsE)],
   [modes |-> {TsOff, [TsMode EXCEPT !.dirty = TRUE], [TsMode EXCEPT !.base = FALSE, !.stale = TRUE]}, holds |-> TsTwo(1, TsE)],
   [modes |-> {TsMode}, holds |-> TsThree(TsE, TsI)],
   [modes |-> {TsOff, [TsMode EXCEPT !.specless = TRUE]}, holds |-> TsTwo(TsE, TsI)],
   [modes |-> {TsMode}, holds |-> TsThree(TsI, TsM)],
   [modes |-> {TsMode, TsOff}, holds |-> {{}, {TsI + 1}}]}

Trust == INSTANCE TrustSections WITH
  Signals <- TsSignals, Themes <- TsThemes, MaxTrust <- 2, MaxItems <- 2, MaxReasons <- 2, MaxCards <- 2,
  CardsOf <- [blocker |-> 2, lens |-> 1, invalid |-> 1, missing |-> 1, plan |-> 1, verified |-> 2, coverage |-> 1],
  MaxClaimed <- 1, MaxSkim <- 2, MaxAudit <- 1

TrustIdle ==
  /\ tsInput = <<>> /\ tsStage = "idle" /\ trust = <<>> /\ verdict = <<>> /\ cards = <<>> /\ intent = <<>> /\ skim = <<>> /\ method = <<>>
=============================================================================
