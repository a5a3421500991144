----------------------------- MODULE MCDagService -----------------------------
(* Instances of DagService for TLC.                                         *)
EXTENDS DagService, TLC

Symmetry == Permutations(NodeIds)
=============================================================================
