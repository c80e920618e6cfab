------------------------- MODULE MCProviderPayments -------------------------
(* Symmetry for the safety runs of ProviderPayments: callbacks and worker   *)
(* processes are interchangeable.                                           *)
EXTENDS ProviderPayments, TLC

Symmetry == Permutations(Requests) \cup Permutations(Workers)
=============================================================================
