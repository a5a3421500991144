----------------------------- MODULE MCWorkQueue -----------------------------
(* Instances of WorkQueue for TLC: two independent nodes that a third one   *)
(* joins, and a chain of two.                                               *)
EXTENDS WorkQueue, TLC

CONSTANTS n1, n2, n3

JoinDeps == (n1 :> {}) @@ (n2 :> {}) @@ (n3 :> {n1, n2})
ChainDeps == (n1 :> {}) @@ (n2 :> {n1})
JoinRank == (n1 :> 1) @@ (n2 :> 2) @@ (n3 :> 3)
ChainRank == (n1 :> 1) @@ (n2 :> 2)

Symmetry == Permutations(Schedulers) \cup Permutations(Workers)
=============================================================================
