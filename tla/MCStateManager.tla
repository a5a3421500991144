--------------------------- MODULE MCStateManager ---------------------------
(* Instances of StateManager for TLC: the clients are interchangeable.      *)
EXTENDS StateManager

MCSymmetry == Permutations(Clients)
=============================================================================
