---------------------------- MODULE MCGeneration ----------------------------
(***************************************************************************)
(* Generation with two definitions: one with a repair round, one without   *)
(* (the change the tests of the repository make).                          *)
(***************************************************************************)
EXTENDS Generation

MCDefinitions == {"def-1", "def-2"}
MCInitialDefinition == "def-1"
MCRepairBound == [d \in MCDefinitions |-> IF d = "def-1" THEN 1 ELSE 0]

\* Two holds of which at most one is resumed, and one change.
MCCommands ==
  {<<"hold", 1>>, <<"hold", 2>>, <<"resume", 1>>, <<"change_definition", 1>>}
=============================================================================
