------------------------------ MODULE MCOpTasks ------------------------------
(***************************************************************************)
(* OpTasks for TLC. Tasks are interchangeable, and so are watchers.        *)
(***************************************************************************)
EXTENDS OpTasks, TLC

Symmetry == Permutations(Tasks) \cup Permutations(Clients)
=============================================================================
