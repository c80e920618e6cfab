---------------------------- MODULE MCWalletJobs ----------------------------
(* Symmetry for the runs of WalletJobs that check invariants: processes are *)
(* interchangeable.                                                         *)
EXTENDS WalletJobs, TLC

Symmetry == Permutations(Processes)
=============================================================================
