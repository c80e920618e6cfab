------------------------------ MODULE MCNfcCards ------------------------------
(* Symmetry for the run of NfcCards: cards, pages, browsers, challenges and *)
(* requests are interchangeable.                                            *)
EXTENDS NfcCards, TLC

Symmetry ==
  Permutations(Cards) \cup Permutations(Tabs) \cup Permutations(Challenges)
    \cup Permutations(Requests) \cup Permutations(Browsers)
=============================================================================
