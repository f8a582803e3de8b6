------------------------ MODULE MCValidationEvidence ------------------------
(***************************************************************************)
(* Two contents are enough for a stale head and for a dirty tree; one test *)
(* command and one command whose text confirms the last of three checks;   *)
(* limits of 2 checks named, 2 cases read and 1 kept, all exceeded.        *)
(***************************************************************************)
EXTENDS ValidationEvidence, TLC

CONSTANTS test, attest

MCCommands == {test, attest}
MCTestCommands == {test}
MCRecords == (test :> {}) @@ (attest :> {3})
MCReports == {<<"passed">>, <<"skipped", "passed">>, <<"passed", "failed">>,
              <<"skipped", "failed">>, <<"passed", "passed", "failed">>}
MCSymmetry == Permutations(Contents)
=============================================================================
