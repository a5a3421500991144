--------------------------- MODULE MCConnectionPool ---------------------------
(* Instances of ConnectionPool for TLC.                                     *)
EXTENDS ConnectionPool, TLC

Symmetry == Permutations(Clients)
=============================================================================
