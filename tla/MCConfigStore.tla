--------------------------- MODULE MCConfigStore ---------------------------
(* The instance of ConfigStore that TLC checks. *)
EXTENDS ConfigStore, TLC

Symmetry == Permutations(Procs)
=============================================================================
