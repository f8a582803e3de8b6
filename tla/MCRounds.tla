------------------------------ MODULE MCRounds ------------------------------
(***************************************************************************)
(* The part "rounds" of MCInputs: up to three runs over two commits, each  *)
(* of which looks to the analysis like one of seven worlds.                *)
(***************************************************************************)
EXTENDS Integers, Sequences, FiniteSets

VARIABLES rvStage, rvHead, rvWorld, rvOut, rvSaved, rvRuns, rvFaults

rvVars == <<rvStage, rvHead, rvWorld, rvOut, rvSaved, rvRuns, rvFaults>>

RvResult(key, status) == [key |-> key, status |-> status]
RvLlm(about, n) == [id |-> <<"LLM", 0>>, category |-> "testing", severity |-> "low", n |-> n, about |-> about]
RvFile(path, dated, at, n) == [path |-> path, dated |-> dated, at |-> at, findings |-> n]

RvClean ==
  [results |-> <<RvResult(1, "satisfied"), RvResult(2, "satisfied")>>, overreach |-> {}, claims |-> 0, proposed |-> <<>>,
   feedback |-> {}, decides |-> {}, decidedKeys |-> {}, verdict |-> "safe"]

RvWorlds ==
  {RvClean,
   [RvClean EXCEPT !.results = <<RvResult(1, "missing"), RvResult(2, "partial"), RvResult(3, "unknown")>>, !.claims = 1,
                   !.overreach = {1}, !.decides = {"weak tests", "changed file"}, !.decidedKeys = {1}, !.verdict = "block"],
   [RvClean EXCEPT !.results = <<RvResult(1, "partial"), RvResult(2, "satisfied"), RvResult(2, "missing")>>,
                   !.proposed = <<RvLlm("methodology claim", 10)>>, !.decides = {"weak tests"}, !.verdict = "changes",
                   !.feedback = {RvFile(1, TRUE, 1, 4), RvFile(2, FALSE, 0, 2)}],
   [RvClean EXCEPT !.results = <<RvResult(1, "invalid_evidence"), RvResult(3, "partial"), RvResult(4, "partial")>>,
                   !.proposed = <<RvLlm("weak tests", 10), RvLlm("no evidence", 11)>>, !.decides = {"no evidence"},
                   !.overreach = {1, 2}, !.decidedKeys = {1, 3}, !.verdict = "changes",
                   !.feedback = {RvFile(1, TRUE, 1, 1), RvFile(2, TRUE, 2, 3), RvFile(3, TRUE, 2, 1), RvFile(4, FALSE, 0, 1)}],
   [RvClean EXCEPT !.results = <<>>, !.overreach = {2}, !.claims = 1, !.decides = {"methodology claim"}, !.verdict = "changes"],
   [RvClean EXCEPT !.results = <<RvResult(1, "overreach"), RvResult(2, "missing")>>, !.claims = 2, !.decides = {"no evidence"},
                   !.verdict = "block"],
   [RvClean EXCEPT !.results = <<RvResult(1, "missing"), RvResult(2, "satisfied")>>, !.proposed = <<RvLlm("methodology claim", 10)>>,
                   !.overreach = {1}, !.decides = {"no evidence", "methodology claim"}, !.verdict = "block"]}

Rounds == INSTANCE ReviewRounds WITH
  Worlds <- RvWorlds, MaxHeads <- 2, MaxRuns <- 3, MaxRounds <- 3, MaxFaults <- 1, MaxOpen <- 6, MaxGaps <- 2, MaxHighlights <- 2,
  MaxTasks <- 2, MaxRows <- 2

RoundsIdle ==
  /\ rvStage = "idle" /\ rvHead = 0 /\ rvWorld = "none" /\ rvOut = "none" /\ rvSaved = "none" /\ rvRuns = 0 /\ rvFaults = 0
=============================================================================
