--------------------------- MODULE MCServingDirs ---------------------------
(* ServingDirs over small sets of interchangeable runs and pids. *)
EXTENDS ServingDirs, TLC

Symmetry == Permutations(Runs) \cup Permutations(Pids)
=============================================================================
