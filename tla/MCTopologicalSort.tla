-------------------------- MODULE MCTopologicalSort --------------------------
(* Every graph over the nodes and ids of the configuration.                 *)
EXTENDS TopologicalSort, TLC
=============================================================================
