---------------------------- MODULE MCServiceAcorn ----------------------------
(* Model values and symmetry for checking ServiceAcorn. *)
EXTENDS ServiceAcorn, TLC

Symmetry == Permutations(Processes) \cup Permutations(Endpoints)
=============================================================================
