--------------------------- MODULE ScopedCoverage ---------------------------
(***************************************************************************)
(* The requirements a pull request touches and how their coverage changed: *)
(* the scope rules of scope/pr-scope.ts, the requirement ids of            *)
(* intent/intent.ts, the evaluation of the base commit in a worktree of    *)
(* its own (evaluation/baseline.ts) and the comparison of                  *)
(* evaluation/scoped-coverage.ts.                                          *)
(*                                                                         *)
(* A spec is the sequence of its requirements' ACIDs in file order: the    *)
(* requirement id (REQ-001, ...) is a position in it.  All requirements    *)
(* live in one spec file.                                                  *)
(***************************************************************************)
EXTENDS Naturals, Integers, Sequences, FiniteSets, SequencesExt

CONSTANTS
  Acids,        \* the ids of the requirements
  GroupOf(_),   \* the group named in an ACID
  BaseSpec,     \* the spec at the base commit; no ACID occurs twice
  SourceFiles,  \* files besides the spec
  AreaOf(_),    \* the group each of them maps to
  RoleOf(_),    \* its role: implementation, test or generated
  SpecFile,
  GivenStatuses, \* the statuses an evaluation may give
  MaxEdits      \* bound on the edits of the spec

VARIABLES
  scStage,      \* "editing", "evaluated" or "compared"
  headSpec,     \* the spec at the head commit
  edits,        \* the spec edits made so far
  changedFiles, \* the files the diff names
  hits,         \* the ACIDs on added or deleted diff lines
  baseStatus, headStatus, \* of each requirement at the two commits; no base: <<>>
  deltas        \* the report

scVars == <<scStage, headSpec, edits, changedFiles, hits, baseStatus, headStatus, deltas>>

Statuses == {"satisfied", "partial", "unknown", "missing", "invalid_evidence"}

ASSUME ScopeAssumption ==
  /\ BaseSpec \in Seq(Acids) /\ IsInjective(BaseSpec)
  /\ GivenStatuses \subseteq Statuses /\ MaxEdits \in Nat

StatusRank(s) == CASE s = "satisfied" -> 4 [] s = "partial" -> 3 [] s = "unknown" -> 2
             [] s = "missing" -> 1 [] s = "absent" -> -1 [] OTHER -> 0

-----------------------------------------------------------------------------
(* buildPrScope *)

Touched(role) == {f \in changedFiles \ {SpecFile} : RoleOf(f) = role}

\* The groups of the changed files; the spec file itself maps to no area.
AffectedAreas == {AreaOf(f) : f \in changedFiles \ {SpecFile}}

MappedGroups == {AreaOf(f) : f \in Touched("implementation")}
TestGroups == {AreaOf(f) : f \in Touched("test")}

\* Spec evidence carries no line numbers, so any hunk of the spec file touches
\* every requirement in it.
ScopeReasons(a) ==
  (IF a \in hits THEN {"exact_acid_in_diff"} ELSE {})
  \cup (IF SpecFile \in changedFiles THEN {"spec_block_changed"} ELSE {})
  \cup (IF GroupOf(a) \in MappedGroups THEN {"changed_path_requirement_group"} ELSE {})
  \cup (IF GroupOf(a) \in TestGroups THEN {"changed_test_group"} ELSE {})

\* The positions in headSpec of the requirements in scope.
AffectedRequirements == {i \in DOMAIN headSpec : ScopeReasons(headSpec[i]) # {}}

-----------------------------------------------------------------------------
(* buildPrScopedCoverage *)

\* Defect: results are aligned by requirement id before the ACID.
MutFindBase(i) ==
  IF i \in DOMAIN BaseSpec THEN baseStatus[BaseSpec[i]]
  ELSE IF headSpec[i] \in Range(BaseSpec) THEN baseStatus[headSpec[i]] ELSE "absent"

\* findResult on the base: by ACID, else by the id of the head position.
FindBase(i) ==
  IF headSpec[i] \in Range(BaseSpec) THEN baseStatus[headSpec[i]]
  ELSE IF i \in DOMAIN BaseSpec THEN baseStatus[BaseSpec[i]] ELSE "absent"

BaseAvailable == baseStatus # <<>>

ComputeDelta(b, h) ==
  CASE ~BaseAvailable -> "newly_in_scope"
    [] BaseAvailable /\ b = "absent" -> "new_requirement"
    [] BaseAvailable /\ b # "absent" /\ h = "absent" -> "removed_requirement"
    [] OTHER -> IF StatusRank(h) > StatusRank(b) THEN "improved"
                ELSE IF StatusRank(h) < StatusRank(b) THEN "regressed" ELSE "unchanged"

HeadDeltas ==
  {LET b == IF BaseAvailable THEN FindBase(i) ELSE "absent"
   IN [acid |-> headSpec[i], from |-> b, to |-> headStatus[headSpec[i]],
       delta |-> ComputeDelta(b, headStatus[headSpec[i]])] : i \in AffectedRequirements}

\* A base requirement is gone when neither its ACID nor its id is at the head,
\* and it is reported when no requirement in scope has either and the diff touched
\* its group or the spec file its evidence names.
AlreadyReported(i) ==
  i \in AffectedRequirements \/ \E k \in AffectedRequirements : headSpec[k] = BaseSpec[i]
StillAtHead(i) == i \in DOMAIN headSpec \/ BaseSpec[i] \in Range(headSpec)
TouchedByDiff(i) == GroupOf(BaseSpec[i]) \in AffectedAreas \/ SpecFile \in changedFiles

Removed == {i \in DOMAIN BaseSpec : /\ BaseAvailable
                                    /\ ~AlreadyReported(i) /\ ~StillAtHead(i)
                                    /\ TouchedByDiff(i)}

RemovedDeltas == {[acid |-> BaseSpec[i], from |-> baseStatus[BaseSpec[i]], to |-> "absent",
                   delta |-> "removed_requirement"] : i \in Removed}

-----------------------------------------------------------------------------
ScopeInit ==
  /\ scStage = "editing" /\ headSpec = BaseSpec /\ edits = 0
  /\ changedFiles = {} /\ hits = {} /\ baseStatus = <<>> /\ headStatus = <<>> /\ deltas = {}

EditSpec(newSpec, acid) ==
  /\ scStage = "editing" /\ edits < MaxEdits
  /\ headSpec' = newSpec /\ edits' = edits + 1
  /\ changedFiles' = changedFiles \cup {SpecFile} /\ hits' = hits \cup {acid}
  /\ UNCHANGED <<scStage, baseStatus, headStatus, deltas>>

DeleteRequirement == \E i \in DOMAIN headSpec : EditSpec(RemoveAt(headSpec, i), headSpec[i])

InsertRequirement ==
  \E i \in 1..(Len(headSpec) + 1), a \in Acids \ (Range(headSpec) \cup Range(BaseSpec)) :
    EditSpec(InsertAt(headSpec, i, a), a)

\* A requirement moves to the end of the spec.
MoveRequirement ==
  \E i \in DOMAIN headSpec : EditSpec(Append(RemoveAt(headSpec, i), headSpec[i]), headSpec[i])

ChangeFile ==
  /\ scStage = "editing"
  /\ \E f \in SourceFiles \ changedFiles, S \in SUBSET Acids :
       /\ Cardinality(S) <= 1
       /\ changedFiles' = changedFiles \cup {f} /\ hits' = hits \cup S
  /\ UNCHANGED <<scStage, headSpec, edits, baseStatus, headStatus, deltas>>

\* evaluateBaseline gives up without a result when the base commit, the temporary
\* directory or the worktree cannot be had.
Evaluate ==
  /\ scStage = "editing"
  /\ headStatus' \in [Range(headSpec) -> GivenStatuses]
  /\ baseStatus' \in {<<>>} \cup [Range(BaseSpec) -> GivenStatuses]
  /\ scStage' = "evaluated"
  /\ UNCHANGED <<headSpec, edits, changedFiles, hits, deltas>>

Compare ==
  /\ scStage = "evaluated"
  /\ deltas' = HeadDeltas \cup RemovedDeltas
  /\ scStage' = "compared"
  /\ UNCHANGED <<headSpec, edits, changedFiles, hits, baseStatus, headStatus>>

ScopeNext == \/ DeleteRequirement \/ InsertRequirement \/ MoveRequirement \/ ChangeFile
        \/ Evaluate \/ Compare

ScopeSpec == ScopeInit /\ [][ScopeNext]_scVars

-----------------------------------------------------------------------------
Deltas ==
  [acid : Acids, from : GivenStatuses \cup {"absent"}, to : GivenStatuses \cup {"absent"},
   delta : {"newly_in_scope", "new_requirement", "removed_requirement", "improved", "regressed", "unchanged"}]

\* Types.  No ACID occurs twice in the specification, however it is edited.
ScopeTypeOK ==
  /\ scStage \in {"editing", "evaluated", "compared"}
  /\ headSpec \in Seq(Acids) /\ IsInjective(headSpec)
  /\ edits \in 0..MaxEdits /\ changedFiles \subseteq SourceFiles \cup {SpecFile}
  /\ hits \subseteq Acids
  /\ scStage # "editing" =>
       /\ headStatus \in [Range(headSpec) -> GivenStatuses]
       /\ baseStatus \in {<<>>} \cup [Range(BaseSpec) -> GivenStatuses]
  /\ deltas \subseteq Deltas

\* However the spec was reordered or grew, a requirement present at both commits is
\* compared with itself: the delta names its own two statuses, is reported at most
\* once, and a requirement of a touched group that lost its coverage is among the
\* regressions.
KeptRequirementsCompareWithThemselves ==
  scStage = "compared" /\ BaseAvailable =>
    /\ \A r \in deltas : r.acid \in Range(BaseSpec) \cap Range(headSpec) =>
         r.from = baseStatus[r.acid] /\ r.to = headStatus[r.acid]
    /\ \A r, s \in deltas : r.acid = s.acid => r = s
    /\ \A a \in Range(BaseSpec) \cap Range(headSpec) :
         /\ GroupOf(a) \in MappedGroups \cup TestGroups
         /\ StatusRank(headStatus[a]) < StatusRank(baseStatus[a])
         => \E r \in deltas : r.acid = a /\ r.delta = "regressed"

\* tests/scoped-coverage.test.ts:114: "PR coverage reports a removed_requirement for
\* a base requirement deleted from the spec".
DeletedRequirementsReported ==
  scStage = "compared" /\ BaseAvailable =>
    \A a \in Range(BaseSpec) \ Range(headSpec) :
      \E r \in deltas : r.acid = a /\ r.delta = "removed_requirement"
=============================================================================
