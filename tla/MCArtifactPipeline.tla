------------------------- MODULE MCArtifactPipeline -------------------------
(***************************************************************************)
(* Two versions of the inputs: enough for a stale artifact, for inputs     *)
(* that return, and for an invocation overtaken while it runs.             *)
(***************************************************************************)
EXTENDS ArtifactPipeline

TwoVersions == 1..2

\* No property but TypeOK speaks of what follows once both have happened.
NotBoth == ~(returned /\ disturbed)
=============================================================================
