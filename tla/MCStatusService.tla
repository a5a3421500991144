-------------------------- MODULE MCStatusService --------------------------
(* Instances of StatusService for TLC: the nodes and the pipelines are      *)
(* interchangeable, and no property is temporal.                            *)
EXTENDS StatusService, TLC

MCSymmetry == Permutations(Nodes) \cup Permutations(Pipelines)
=============================================================================
