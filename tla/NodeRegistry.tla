---------------------------- MODULE NodeRegistry ----------------------------
(***************************************************************************)
(* InMemoryNodeService (dag_manager/registry/services/node/memory_impl.py):*)
(* the registered nodes, the CONTAINS relation as two maps that every      *)
(* operation has to keep in step, and the node statuses.  One lock guards  *)
(* every operation that writes, so each is one step.                       *)
(*                                                                         *)
(* A key with an empty list and a missing key answer every call alike, so  *)
(* a map is a total function to sets.                                      *)
(***************************************************************************)
EXTENDS Naturals, Sequences, FiniteSets

CONSTANTS
    NodeIds,     \* ids a caller may name, registered or not
    Strategies,  \* strategy version ids
    Statuses,    \* values a node status may have
    NoStatus     \* no status was ever stored for the id

ASSUME StatusAssumption == NoStatus \notin Statuses

VARIABLES
    nodes,          \* _nodes: the registered ids
    dependencies,   \* DataNode.dependencies of each registered node, a list
    nodeStrategies, \* _node_strategy_map
    strategyNodes,  \* _strategy_node_map
    statuses        \* _node_statuses

registry == <<nodes, dependencies, nodeStrategies, strategyNodes, statuses>>

RegistryTypeOK ==
    /\ nodes \in SUBSET NodeIds
    /\ dependencies \in [NodeIds -> Seq(NodeIds)]
    /\ nodeStrategies \in [NodeIds -> SUBSET Strategies]
    /\ strategyNodes \in [Strategies -> SUBSET NodeIds]
    /\ statuses \in [NodeIds -> Statuses \cup {NoStatus}]

RegistryInit ==
    /\ nodes = {}
    /\ dependencies = [n \in NodeIds |-> <<>>]
    /\ nodeStrategies = [n \in NodeIds |-> {}]
    /\ strategyNodes = [s \in Strategies |-> {}]
    /\ statuses = [n \in NodeIds |-> NoStatus]

InList(x, list) == \E i \in DOMAIN list : list[i] = x

\* list.remove(x): the first occurrence goes.
WithoutFirst(list, x) ==
    LET i == CHOOSE i \in DOMAIN list :
                 list[i] = x /\ \A j \in 1 .. i - 1 : list[j] # x
    IN  SubSeq(list, 1, i - 1) \o SubSeq(list, i + 1, Len(list))
-----------------------------------------------------------------------------
(* Operations.                                                             *)

\* Registering a node resets the status an earlier node left under the id.
CreateNode_Bug(n, deps) ==
    /\ nodes' = nodes \cup {n}
    /\ dependencies' = [dependencies EXCEPT ![n] = deps]
    /\ statuses' = [statuses EXCEPT ![n] = NoStatus]
    /\ UNCHANGED <<nodeStrategies, strategyNodes>>

\* create_node: an upsert, which replaces the dependencies and keeps the
\* relation and the status of the id.
CreateNode(n, deps) ==
    /\ nodes' = nodes \cup {n}
    /\ dependencies' = [dependencies EXCEPT ![n] = deps]
    /\ UNCHANGED <<nodeStrategies, strategyNodes, statuses>>

\* The strategies' own lists keep the node.
DeleteNode_Bug(n) ==
    /\ nodes' = nodes \ {n}
    /\ dependencies' = [dependencies EXCEPT ![n] = <<>>]
    /\ nodeStrategies' = [nodeStrategies EXCEPT ![n] = {}]
    /\ UNCHANGED <<strategyNodes, statuses>>

\* delete_node of a registered node: it leaves the lists of the strategies its
\* own entry names.  Its status and the dependencies of others on it stay.
DeleteNode(n) ==
    /\ nodes' = nodes \ {n}
    /\ dependencies' = [dependencies EXCEPT ![n] = <<>>]
    /\ strategyNodes' = [s \in Strategies |->
           IF s \in nodeStrategies[n] THEN strategyNodes[s] \ {n} ELSE strategyNodes[s]]
    /\ nodeStrategies' = [nodeStrategies EXCEPT ![n] = {}]
    /\ UNCHANGED statuses

\* add_contains_relationship: silently nothing for an unknown node.
AddContains(s, n) ==
    /\ IF n \in nodes
       THEN /\ nodeStrategies' = [nodeStrategies EXCEPT ![n] = @ \cup {s}]
            /\ strategyNodes' = [strategyNodes EXCEPT ![s] = @ \cup {n}]
       ELSE UNCHANGED <<nodeStrategies, strategyNodes>>
    /\ UNCHANGED <<nodes, dependencies, statuses>>

\* Only the node's own list forgets the strategy.
RemoveContains_Bug(s, n) ==
    /\ nodeStrategies' = [nodeStrategies EXCEPT ![n] = @ \ {s}]
    /\ UNCHANGED <<nodes, dependencies, strategyNodes, statuses>>

\* remove_contains_relationship: each map forgets the other side.
RemoveContains(s, n) ==
    /\ nodeStrategies' = [nodeStrategies EXCEPT ![n] = @ \ {s}]
    /\ strategyNodes' = [strategyNodes EXCEPT ![s] = @ \ {n}]
    /\ UNCHANGED <<nodes, dependencies, statuses>>

\* update_node_status: for any id, registered or not.
UpdateNodeStatus(n, status) ==
    /\ statuses' = [statuses EXCEPT ![n] = status]
    /\ UNCHANGED <<nodes, dependencies, nodeStrategies, strategyNodes>>

\* add_dependency: both nodes must be registered; no entry twice.
AddDependency(n, d) ==
    /\ IF n \in nodes /\ d \in nodes /\ ~InList(d, dependencies[n])
       THEN dependencies' = [dependencies EXCEPT ![n] = Append(@, d)]
       ELSE UNCHANGED dependencies
    /\ UNCHANGED <<nodes, nodeStrategies, strategyNodes, statuses>>

\* remove_dependency: only the node itself must be registered.
RemoveDependency(n, d) ==
    /\ IF n \in nodes /\ InList(d, dependencies[n])
       THEN dependencies' = [dependencies EXCEPT ![n] = WithoutFirst(@, d)]
       ELSE UNCHANGED dependencies
    /\ UNCHANGED <<nodes, nodeStrategies, strategyNodes, statuses>>
-----------------------------------------------------------------------------
(* Queries.                                                                *)

\* get_node_ref_count
RefCount(n) == Cardinality(nodeStrategies[n])

\* get_node_ref_strategies
RefStrategies(n) == nodeStrategies[n]

\* get_strategy_nodes: ids that are not registered are skipped.
StrategyNodes(s) == strategyNodes[s] \cap nodes
-----------------------------------------------------------------------------
(* Properties.                                                             *)

\* The two maps are one relation, and only registered nodes are in it:
\* deleting, registering again, adding and removing in any order never leave a
\* reference on one side alone or to a node that is gone.
MapsInverse ==
    /\ \A n \in NodeIds, s \in Strategies :
           s \in nodeStrategies[n] <=> n \in strategyNodes[s]
    /\ \A n \in NodeIds : nodeStrategies[n] # {} => n \in nodes

\* What the registry promises, read off the strategies' side of the relation.
Promise == INSTANCE Containment
    WITH registered <- nodes,
         contains <- {p \in Strategies \X NodeIds : p[2] \in strategyNodes[p[1]]}

\* The registry with its two maps implements one containment relation.
ImplementsContainment == Promise!Spec
=============================================================================
