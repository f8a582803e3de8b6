---------------------------- MODULE MCSurfaces -----------------------------
(***************************************************************************)
(* The commands over one output directory, for MCInputs to compose: three  *)
(* commands and an edit.  At the first commit the range is empty as long   *)
(* as the inputs are the first.                                            *)
(***************************************************************************)
EXTENDS ReviewSurfaces

SuNoChange == {[head |-> 1, inputs |-> 1]}

\* One state for the parts that do not step these variables.
SurfacesIdle == Init /\ world.up = {}
=============================================================================
