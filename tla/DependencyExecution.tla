------------------------- MODULE DependencyExecution -------------------------
(***************************************************************************)
(* What the DAG Manager's work queue promises to the strategies that use   *)
(* it, with the queue, the status map and the processes left out: a node   *)
(* completes only after everything it depends on, and a result is recorded *)
(* only for a node that completed.  Both facts are permanent.              *)
(*                                                                         *)
(* WorkQueue implements this specification (WorkQueueProofs).              *)
(***************************************************************************)
CONSTANTS Nodes,   \* the data nodes of one strategy version
          Deps     \* Deps[n]: DataNode.dependencies of n, as a set

VARIABLES completed,   \* nodes that were reported COMPLETED at least once
          recorded     \* nodes whose result was recorded at least once

vars == <<completed, recorded>>

Init == /\ completed = {}
        /\ recorded = {}

\* A node completes once all its upstream nodes have.
Complete(n) ==
    /\ n \notin completed
    /\ Deps[n] \subseteq completed
    /\ completed' = completed \cup {n}
    /\ UNCHANGED recorded

\* The result of a completed node is recorded.
Record(n) ==
    /\ n \in completed \ recorded
    /\ recorded' = recorded \cup {n}
    /\ UNCHANGED completed

Next == \E n \in Nodes : Complete(n) \/ Record(n)

Spec == Init /\ [][Next]_vars
=============================================================================
