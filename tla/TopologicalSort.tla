--------------------------- MODULE TopologicalSort ---------------------------
(***************************************************************************)
(* The depth-first topological sort of                                     *)
(*   GraphBuilder.get_topological_sort_result  (dag_manager/core), and     *)
(*   Pipeline._topological_sort                (sdk), which validates the  *)
(*                                              upstreams first.           *)
(*                                                                         *)
(* Every call of visit is a step and the call stack is a variable, so that *)
(* what holds in the middle of the recursion can be stated.  The order in  *)
(* which a list or a Python set is iterated is left open.                  *)
(***************************************************************************)
EXTENDS Naturals, Sequences, FiniteSets

CONSTANTS
    Nodes,       \* ids of the nodes in the list
    Ids          \* ids a dependency may name: the nodes and unknown ids

ASSUME SortAssumption ==
    /\ IsFiniteSet(Ids)
    /\ Nodes \subseteq Ids

VARIABLES
    deps,      \* deps[n]: DataNode.dependencies or ProcessingNode.upstreams
    stack,     \* the nodes whose visit has not returned, outermost first
    todo,      \* todo[n]: dependencies the loop in visit(n) has still to take
    tempMark,  \* temp_mark
    visited,   \* visited
    order,     \* order
    outcome    \* how the call ended

marks == <<tempMark, visited, order>>
vars == <<deps, stack, todo, marks, outcome>>

Outcomes == {"validating", "running", "sorted", "cycle", "missing"}

TypeOK ==
    /\ deps \in [Nodes -> SUBSET Ids]
    /\ stack \in Seq(Nodes)
    /\ todo \in [Nodes -> SUBSET Ids]
    /\ tempMark \in SUBSET Nodes
    /\ visited \in SUBSET Nodes
    /\ order \in Seq(Nodes)
    /\ outcome \in Outcomes

\* Pipeline starts with the validation, GraphBuilder at once.
Init ==
    /\ deps \in [Nodes -> SUBSET Ids]
    /\ stack = <<>>
    /\ todo = [n \in Nodes |-> {}]
    /\ tempMark = {}
    /\ visited = {}
    /\ order = <<>>
    /\ outcome \in {"validating", "running"}

Top == stack[Len(stack)]
-----------------------------------------------------------------------------
\* Pipeline._validate_dependencies: an upstream that is no node raises.
Validate ==
    /\ outcome = "validating"
    /\ outcome' = IF \A n \in Nodes : deps[n] \subseteq Nodes THEN "running" ELSE "missing"
    /\ UNCHANGED <<deps, stack, todo, marks>>

\* visit(n) from the start of its body to its loop.
Enter(n) ==
    /\ stack' = Append(stack, n)
    /\ tempMark' = tempMark \cup {n}
    /\ UNCHANGED <<deps, visited, order>>

\* The outer loop calls visit(n); it returns at once for a visited node.
VisitRoot(n) ==
    /\ outcome = "running"
    /\ stack = <<>>
    /\ n \notin visited
    /\ Enter(n)
    /\ todo' = [todo EXCEPT ![n] = deps[n]]
    /\ UNCHANGED outcome

\* visit(Top) calls visit(d), and d is a node to visit.
VisitDep(d) ==
    /\ outcome = "running"
    /\ stack # <<>>
    /\ d \in todo[Top] \cap Nodes
    /\ d \notin visited
    /\ d \notin tempMark
    /\ Enter(d)
    /\ todo' = [todo EXCEPT ![Top] = @ \ {d}, ![d] = deps[d]]
    /\ UNCHANGED outcome

\* visit(Top) calls visit(d), which returns: d is visited.
SkipDep(d) ==
    /\ outcome = "running"
    /\ stack # <<>>
    /\ d \in todo[Top] \cap visited
    /\ todo' = [todo EXCEPT ![Top] = @ \ {d}]
    /\ UNCHANGED <<deps, stack, marks, outcome>>

\* Every repeated call is taken for a cycle.
CycleFound_Bug(d) ==
    /\ outcome = "running"
    /\ stack # <<>>
    /\ d \in todo[Top] \cap (tempMark \cup visited)
    /\ outcome' = "cycle"
    /\ UNCHANGED <<deps, stack, todo, marks>>

\* visit(Top) calls visit(d), which raises: d is on the path.
CycleFound(d) ==
    /\ outcome = "running"
    /\ stack # <<>>
    /\ d \in todo[Top] \cap tempMark
    /\ d \notin visited
    /\ outcome' = "cycle"
    /\ UNCHANGED <<deps, stack, todo, marks>>

\* visit(Top) calls visit(d), and node_map[d] raises KeyError.
UnknownId(d) ==
    /\ outcome = "running"
    /\ stack # <<>>
    /\ d \in todo[Top] \ Nodes
    /\ outcome' = "missing"
    /\ UNCHANGED <<deps, stack, todo, marks>>

\* A pre-order: the node is listed as its visit begins.
LeaveEarly_Bug ==
    /\ outcome = "running"
    /\ stack # <<>>
    /\ Top \notin visited
    /\ tempMark' = tempMark \ {Top}
    /\ visited' = visited \cup {Top}
    /\ order' = Append(order, Top)
    /\ stack' = SubSeq(stack, 1, Len(stack) - 1)
    /\ UNCHANGED <<deps, todo, outcome>>

\* The end of visit(Top).
Leave ==
    /\ outcome = "running"
    /\ stack # <<>>
    /\ todo[Top] = {}
    /\ tempMark' = tempMark \ {Top}
    /\ visited' = visited \cup {Top}
    /\ order' = Append(order, Top)
    /\ stack' = SubSeq(stack, 1, Len(stack) - 1)
    /\ UNCHANGED <<deps, todo, outcome>>

\* The outer loop is over.
Finish ==
    /\ outcome = "running"
    /\ stack = <<>>
    /\ Nodes \subseteq visited
    /\ outcome' = "sorted"
    /\ UNCHANGED <<deps, stack, todo, marks>>

Next ==
    \/ Validate
    \/ \E n \in Nodes : VisitRoot(n)
    \/ \E d \in Ids : VisitDep(d) \/ SkipDep(d) \/ CycleFound(d) \/ UnknownId(d)
    \/ Leave
    \/ Finish

Spec == Init /\ [][Next]_vars
-----------------------------------------------------------------------------
(* Properties.                                                             *)

\* A set in which every node has a dependency of its own: a finite graph has one
\* exactly when it has a cycle.
Cyclic(g) == \E S \in SUBSET Nodes : S # {} /\ \A n \in S : g[n] \cap S # {}

Before(i) == {order[j] : j \in 1 .. i - 1}

\* At any moment, and so in the list that is returned, a node comes once and
\* after everything it depends on.  WorkQueue relies on it.
OrderRespectsDeps ==
    /\ \A i \in 1 .. Len(order) : deps[order[i]] \subseteq Before(i)
    /\ \A i, j \in 1 .. Len(order) : order[i] = order[j] => i = j
    /\ outcome = "sorted" => {order[i] : i \in 1 .. Len(order)} = Nodes

\* The call sorts exactly the graphs it can: an order is returned only when there
\* is no cycle and no unknown id, a cycle is reported only when there is one, and
\* an unknown id only when a dependency names one.
OutcomeCorrect ==
    /\ outcome = "sorted" => ~Cyclic(deps) /\ \A n \in Nodes : deps[n] \subseteq Nodes
    /\ outcome = "cycle" => Cyclic(deps)
    /\ outcome = "missing" => \E n \in Nodes : ~(deps[n] \subseteq Nodes)
=============================================================================
