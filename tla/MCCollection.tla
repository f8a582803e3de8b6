---------------------------- MODULE MCCollection ----------------------------
(***************************************************************************)
(* The collection of the inputs, for MCInputs to compose.  a moves to b in *)
(* one history, gets the content of x in another and is deleted in the     *)
(* third; s is a specification, x is ignored, o is an artifact somebody    *)
(* committed; two changes fall between or into two collections.            *)
(***************************************************************************)
EXTENDS Collection

CoFiles == {"a", "b", "s", "x", "o"}
CoSpecs == {"s"}
CoIgnored == {"x"}
CoArtifact == {"o"}
CoRank == [f \in CoFiles |-> CASE f = "a" -> 1 [] f = "b" -> 2 [] f = "o" -> 3 [] f = "s" -> 4 [] OTHER -> 5]

CoTree(a, b, s, x, o) ==
  [f \in CoFiles |-> CASE f = "a" -> a [] f = "b" -> b [] f = "s" -> s [] f = "x" -> x [] OTHER -> o]
CoBase == CoTree(1, 0, 2, 3, 0)
CoHistories ==
  {<<CoBase, CoTree(0, 1, 2, 3, 4)>>, <<CoBase, CoTree(3, 1, 2, 0, 4)>>, <<CoBase, CoTree(0, 0, 2, 3, 4)>>}
CoTrees == {CoTree(0, 1, 2, 3, 4)}

CoMode(c, s, t) == [current |-> c, strict |-> s, head |-> 2, conversation |-> t]
CoModes == {CoMode(TRUE, FALSE, TRUE), CoMode(TRUE, TRUE, TRUE), CoMode(FALSE, FALSE, FALSE)}

CoEdited == {"b", "s"}
CoDeleted == {"b"}
CoMoved == {<<"x", "a">>, <<"b", "x">>}

\* One state for the parts that do not step these variables.
CollectIdle ==
  /\ mode = CoMode(FALSE, FALSE, FALSE) /\ commits = <<CoBase, CoTree(0, 0, 2, 3, 4)>> /\ staged = FALSE
  /\ CollectionInit
=============================================================================
