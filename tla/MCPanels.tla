-------------------------------- MODULE MCPanels --------------------------------
(***************************************************************************)
(* The panels on a small page: two models, two threads with a file of the  *)
(* same path, one panel of PanelsUsed in a behaviour.                      *)
(***************************************************************************)
EXTENDS Panels, TLC

CONSTANTS roomA, roomB, pathA, pathB

SomeFiles == {<<roomA, pathA>>, <<roomA, pathB>>, <<roomB, pathA>>}

\* The user's models are interchangeable.
Alike == Permutations(Models)
=============================================================================
