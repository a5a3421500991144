------------------------------ MODULE DagService ------------------------------
(***************************************************************************)
(* DAGService (src/qmtl/dag_manager/strategy/dag_service.py): the DAG of   *)
(* one strategy in memory, built node by node, verified, and sorted with   *)
(* Kahn's algorithm.                                                       *)
(*                                                                         *)
(* The object is used by one thread.  Its adjacency lists are represented  *)
(* by the number of times an id occurs in them, since add_node appends     *)
(* whether or not the entry is there already; the order in which lists and *)
(* the deque are iterated is left open.                                    *)
(***************************************************************************)
EXTENDS Naturals, Integers, Sequences, FiniteSets

CONSTANTS
    NodeIds,   \* node ids; an id that is only named as a dependency has no node
    MaxDeps,   \* bound: dependencies a node object names
    MaxCalls   \* bound: calls of add_node, build_dag and verify_acyclic

ASSUME DagServiceAssumption ==
    IsFiniteSet(NodeIds) /\ MaxDeps \in Nat /\ MaxCalls \in Nat

\* What DataNode.dependencies can be.
DepSets == {D \in SUBSET NodeIds : Cardinality(D) <= MaxDeps}

VARIABLES
    nodes,      \* keys of self.nodes
    declared,   \* dependencies of the node object stored under each key
    forward,    \* forward[d][n]: occurrences of n in adjacency_list[d]
    forwardKeys,\* keys of adjacency_list
    reverse,    \* reverse[n][d]: occurrences of d in reverse_adjacency_list[n]
    reverseKeys,\* keys of reverse_adjacency_list, a defaultdict
    verified,   \* self.verified
    inDegree,   \* in_degree of the sort that runs
    queue,      \* its deque, as a set
    listed,     \* its topological_order
    phase,      \* what the last verify_acyclic or get_topological_order did
    readded,    \* history: add_node was given a known id since the last reset
    calls       \* calls so far

graph == <<nodes, declared, forward, forwardKeys, reverse, reverseKeys>>
sort == <<inDegree, queue, listed>>
dagVars == <<graph, verified, sort, phase, readded, calls>>

None == [d \in NodeIds |-> 0]
Phases == {"idle", "sorting", "sorted", "cycle", "incomplete"}

DagTypeOK ==
    /\ nodes \in SUBSET NodeIds
    /\ declared \in [NodeIds -> DepSets]
    /\ forward \in [NodeIds -> [NodeIds -> Nat]]
    /\ reverse \in [NodeIds -> [NodeIds -> Nat]]
    /\ nodes \subseteq forwardKeys \cap reverseKeys
    /\ forwardKeys \cup reverseKeys \subseteq NodeIds
    /\ verified \in BOOLEAN
    /\ inDegree \in [NodeIds -> Int]
    /\ queue \in SUBSET nodes
    /\ listed \in Seq(nodes)
    /\ phase \in Phases
    /\ readded \in BOOLEAN
    /\ calls \in 0 .. MaxCalls

DagInit ==
    /\ nodes = {}
    /\ declared = [n \in NodeIds |-> {}]
    /\ forward = [n \in NodeIds |-> None]
    /\ forwardKeys = {}
    /\ reverse = [n \in NodeIds |-> None]
    /\ reverseKeys = {}
    /\ verified = FALSE
    /\ inDegree = None
    /\ queue = {}
    /\ listed = <<>>
    /\ phase = "idle"
    /\ readded = FALSE
    /\ calls = 0

\* A set in which every node has a dependency of its own.
HasCycle(g) == \E S \in SUBSET NodeIds : S # {} /\ \A n \in S : g[n] \cap S # {}

Stored(rev) == [n \in NodeIds |-> {d \in NodeIds : rev[n][d] > 0}]

\* A call other than get_topological_order; the variables of a sort are local.
Call ==
    /\ phase # "sorting"
    /\ calls < MaxCalls
    /\ calls' = calls + 1
    /\ inDegree' = None /\ queue' = {} /\ listed' = <<>>
-----------------------------------------------------------------------------
\* reverse_adjacency_list after add_node: the dependencies are appended to what
\* an earlier node of the same id left; without any, the list is emptied.
AddEdges(rev, n, D) ==
    [rev EXCEPT ![n] = [d \in NodeIds |-> IF D = {} THEN 0
                                          ELSE IF d \in D THEN @[d] + 1 ELSE @[d]]]

\* adjacency_list after add_node: n is appended once for each dependency.
AddDependent(fwd, n, D) ==
    [d \in NodeIds |-> IF d \in D THEN [fwd[d] EXCEPT ![n] = @ + 1] ELSE fwd[d]]

\* A node on which nothing depends gets no entry in adjacency_list.
AddNodeKey_Bug(n, D) ==
    /\ Call
    /\ nodes' = nodes \cup {n}
    /\ declared' = [declared EXCEPT ![n] = D]
    /\ reverse' = AddEdges(reverse, n, D)
    /\ forward' = AddDependent(forward, n, D)
    /\ reverseKeys' = reverseKeys \cup {n}
    /\ forwardKeys' = forwardKeys \cup D
    /\ verified' = FALSE
    /\ readded' = (readded \/ n \in nodes)
    /\ phase' = "idle"

\* add_node(DataNode(n, dependencies=D))
AddNode(n, D) ==
    /\ Call
    /\ nodes' = nodes \cup {n}
    /\ declared' = [declared EXCEPT ![n] = D]
    /\ reverse' = AddEdges(reverse, n, D)
    /\ forward' = AddDependent(forward, n, D)
    /\ reverseKeys' = reverseKeys \cup {n}
    /\ forwardKeys' = forwardKeys \cup {n} \cup D
    /\ verified' = FALSE
    /\ readded' = (readded \/ n \in nodes)
    /\ phase' = "idle"

\* Ids without a node that the depth-first search reaches from a node; looking
\* them up makes them keys of the defaultdict.
UnknownIn(g, N) == (UNION {g[n] : n \in N}) \ N

\* verify_acyclic on the graph with the nodes N and the reverse lists rev: the
\* search (see TopologicalSort) raises if it closes a cycle, and may by then
\* have looked up any of the unknown ids.
Verify(N, rev, keys) ==
    \/ /\ ~HasCycle(Stored(rev))
       /\ reverseKeys' = keys \cup UnknownIn(Stored(rev), N)
       /\ verified' = TRUE
       /\ phase' = "idle"
    \/ /\ HasCycle(Stored(rev))
       /\ \E U \in SUBSET UnknownIn(Stored(rev), N) : reverseKeys' = keys \cup U
       /\ verified' = FALSE
       /\ phase' = "cycle"

\* build_dag: reset, add_node for every node of the list, verify_acyclic.
BuildDag(N, g) ==
    /\ Call
    /\ nodes' = N
    /\ declared' = [n \in NodeIds |-> IF n \in N THEN g[n] ELSE {}]
    /\ reverse' = [n \in NodeIds |-> [d \in NodeIds |-> IF n \in N /\ d \in g[n] THEN 1 ELSE 0]]
    /\ forward' = [d \in NodeIds |-> [n \in NodeIds |-> IF n \in N /\ d \in g[n] THEN 1 ELSE 0]]
    /\ forwardKeys' = N \cup UNION {g[n] : n \in N}
    /\ Verify(N, reverse', N)
    /\ readded' = FALSE

\* verify_acyclic, called on its own.
VerifyAcyclic ==
    /\ Call
    /\ Verify(nodes, reverse, reverseKeys)
    /\ UNCHANGED <<nodes, declared, forward, forwardKeys, reverse, readded>>
-----------------------------------------------------------------------------
(* get_topological_order.                                                  *)

\* in_degree of n: the length of its reverse list, unknown ids included.
DegreeOf(n) == Cardinality(UNION {{d} \X (1 .. reverse[n][d]) : d \in NodeIds})

\* What comes before the loop.  An unverified graph is verified first; the call
\* raises there if it has a cycle (VerifyAcyclic, then no sort).
SortStart ==
    /\ phase # "sorting"
    /\ verified
    /\ inDegree' = [n \in NodeIds |-> IF n \in nodes THEN DegreeOf(n) ELSE 0]
    /\ queue' = {n \in nodes : inDegree'[n] = 0}
    /\ listed' = <<>>
    /\ phase' = "sorting"
    /\ UNCHANGED <<graph, verified, readded, calls>>

\* A dependent is queued as soon as one of its dependencies is listed.
Released_Bug(n) == {m \in nodes : forward[n][m] > 0 /\ inDegree[m] > 0}

\* Dependents whose degree passes through 0 while the list of n is walked.
Released(n) == {m \in nodes : forward[n][m] > 0 /\ inDegree[m] \in 1 .. forward[n][m]}

\* One turn of the loop.
SortStep(n) ==
    /\ phase = "sorting"
    /\ n \in queue
    /\ listed' = Append(listed, n)
    /\ inDegree' = [m \in NodeIds |-> inDegree[m] - forward[n][m]]
    /\ queue' = (queue \ {n}) \cup Released(n)
    /\ UNCHANGED <<graph, verified, phase, readded, calls>>

\* The comparison of the lengths: fewer nodes than there are is reported as
\* CyclicDependencyError("DAG contains a cycle").
SortEnd ==
    /\ phase = "sorting"
    /\ queue = {}
    /\ phase' = IF Len(listed) = Cardinality(nodes) THEN "sorted" ELSE "incomplete"
    /\ UNCHANGED <<graph, verified, sort, readded, calls>>

DagNext ==
    \/ \E n \in NodeIds, D \in DepSets : AddNode(n, D)
    \/ \E N \in SUBSET NodeIds : \E g \in [N -> DepSets] : BuildDag(N, g)
    \/ VerifyAcyclic
    \/ SortStart
    \/ \E n \in NodeIds : SortStep(n)
    \/ SortEnd

DagSpec == DagInit /\ [][DagNext]_dagVars
-----------------------------------------------------------------------------
(* Properties.                                                             *)

\* get_root_nodes and get_leaf_nodes.
RootNodes == {n \in reverseKeys : reverse[n] = None}
LeafNodes == {n \in forwardKeys : forward[n] = None}

Unknown == (UNION {declared[n] : n \in nodes}) \ nodes

Precedes(a, b) ==
    \E i, j \in 1 .. Len(listed) : i < j /\ listed[i] = a /\ listed[j] = b

IsTopological ==
    /\ {listed[i] : i \in 1 .. Len(listed)} = nodes
    /\ \A n \in nodes : \A d \in declared[n] : Precedes(d, n)

\* The roots are the nodes without dependencies and the leaves those without
\* dependents, unless a dependency is no node.
RootsAndLeaves ==
    Unknown = {} =>
        /\ RootNodes = {n \in nodes : declared[n] = {}}
        /\ LeafNodes = {n \in nodes : \A m \in nodes : n \notin declared[m]}

\* `verified` means that the stored graph has no cycle, after any sequence of
\* calls.  As long as no node is added twice, a returned order is a topological
\* order of the declared dependencies, and it is returned whenever there is one;
\* roots and leaves are those of the declared dependencies, also after a failed
\* sort or verification has looked ids up in the defaultdict.
OrderOfDeclared ==
    /\ verified => ~HasCycle(Stored(reverse))
    /\ ~readded =>
        /\ phase = "sorted" => IsTopological
        /\ phase = "incomplete" => Unknown # {}
        /\ phase = "cycle" => HasCycle(declared)
        /\ RootsAndLeaves
=============================================================================
