----------------------------- MODULE GraphStore -----------------------------
(***************************************************************************)
(* The node registry in Neo4j (registry/services/node/management.py and    *)
(* neo4j_schema.py).  Each execute_query is one auto-commit transaction    *)
(* and one step; what a method or an API handler does in several queries   *)
(* interleaves with every other client of the database, the garbage        *)
(* collector among them.                                                   *)
(***************************************************************************)
EXTENDS Naturals, FiniteSets

CONSTANTS
    NodeIds,      \* values of node_id
    Versions,     \* the StrategyVersion vertices
    Callers,      \* threads that call the node service
    Copies,       \* bound: DataNode vertices with the same node_id
    MaxWrites,    \* bound: calls that write
    None          \* a caller at rest

ASSUME StoreAssumption == Copies \in Nat \ {0} /\ MaxWrites \in Nat

VARIABLES
    unique,    \* the constraint node_id IS UNIQUE is in place
    vertices,  \* DataNode vertices, <<node_id, copy>>
    dependsOn, \* DEPENDS_ON edges, pairs of vertices
    contains,  \* CONTAINS edges, <<version, vertex>>
    call,      \* call[c]: where c is in a call of several queries, or None
    writes     \* calls so far

graph == <<vertices, dependsOn, contains>>
store == <<unique, graph, call, writes>>

Vertices == NodeIds \X (1 .. Copies)

\* Next query of a call that takes more than one.
CallStates ==
    [at : {"create"}, node : NodeIds]
        \cup [at : {"dep", "merge"}, node : NodeIds, other : NodeIds]

StoreTypeOK ==
    /\ unique \in BOOLEAN
    /\ vertices \in SUBSET Vertices
    /\ dependsOn \in SUBSET (vertices \X vertices)
    /\ contains \in SUBSET (Versions \X vertices)
    /\ call \in [Callers -> CallStates \cup {None}]
    /\ writes \in 0 .. MaxWrites

\* Startup went on without its schema.
InitSchema_Bug == unique \in BOOLEAN

\* init_neo4j_schema, called by on_startup, went well.
InitSchema == unique = TRUE

StoreInit ==
    /\ InitSchema
    /\ vertices = {}
    /\ dependsOn = {}
    /\ contains = {}
    /\ call = [c \in Callers |-> None]
    /\ writes = 0

\* MATCH (n:DataNode {node_id: $n})
Match(n) == {v \in vertices : v[1] = n}

\* The vertices go and their edges stay.
DetachDelete_Bug(V) == vertices' = vertices \ V /\ UNCHANGED <<dependsOn, contains>>

\* DETACH DELETE of a set of vertices.
DetachDelete(V) ==
    /\ vertices' = vertices \ V
    /\ dependsOn' = {e \in dependsOn : e[1] \notin V /\ e[2] \notin V}
    /\ contains' = {p \in contains : p[2] \notin V}
-----------------------------------------------------------------------------
\* A call starts, within the bound.
Begin(c) ==
    /\ call[c] = None
    /\ writes < MaxWrites
    /\ writes' = writes + 1

Goto(c, state) == call' = [call EXCEPT ![c] = state]

\* create_node, first query: an id that is there raises DatabaseError.
CheckNew(c, n) ==
    /\ Begin(c)
    /\ IF Match(n) = {} THEN Goto(c, [at |-> "create", node |-> n]) ELSE UNCHANGED call
    /\ UNCHANGED <<unique, graph>>

\* create_node, second query: CREATE, which the constraint may refuse.
CreateNew(c) ==
    /\ call[c] # None
    /\ call[c].at = "create"
    /\ LET n == call[c].node
           k == Cardinality(Match(n)) + 1
       IN  IF Match(n) # {} /\ unique
           THEN UNCHANGED vertices
           ELSE /\ k <= Copies
                /\ vertices' = vertices \cup {<<n, k>>}
    /\ Goto(c, None)
    /\ UNCHANGED <<unique, dependsOn, contains, writes>>

\* delete_node
DeleteNode(c, n) ==
    /\ Begin(c)
    /\ DetachDelete(Match(n))
    /\ UNCHANGED <<unique, call>>

\* add_contains_relationship: MERGE for each matching vertex.
AddContains(c, s, n) ==
    /\ Begin(c)
    /\ contains' = contains \cup ({s} \X Match(n))
    /\ UNCHANGED <<unique, vertices, dependsOn, call>>

\* remove_contains_relationship
RemoveContains(c, s, n) ==
    /\ Begin(c)
    /\ contains' = contains \ ({s} \X Match(n))
    /\ UNCHANGED <<unique, vertices, dependsOn, call>>

\* add_node_dependency, first query: get_node(node_id), else 404.
CheckNode(c, n, d) ==
    /\ Begin(c)
    /\ IF Match(n) # {}
       THEN Goto(c, [at |-> "dep", node |-> n, other |-> d])
       ELSE UNCHANGED call
    /\ UNCHANGED <<unique, graph>>

\* add_node_dependency, second query: get_node(dependency_id), else 404.
CheckDependency(c) ==
    /\ call[c] # None
    /\ call[c].at = "dep"
    /\ IF Match(call[c].other) # {}
       THEN Goto(c, [call[c] EXCEPT !.at = "merge"])
       ELSE Goto(c, None)
    /\ UNCHANGED <<unique, graph, writes>>

\* add_dependency: MERGE between what the ids match by now, perhaps nothing;
\* the handler answers success either way.
MergeDependency(c) ==
    /\ call[c] # None
    /\ call[c].at = "merge"
    /\ dependsOn' = dependsOn \cup (Match(call[c].node) \X Match(call[c].other))
    /\ Goto(c, None)
    /\ UNCHANGED <<unique, vertices, contains, writes>>

\* remove_dependency
RemoveDependency(c, n, d) ==
    /\ Begin(c)
    /\ dependsOn' = dependsOn \ (Match(n) \X Match(d))
    /\ UNCHANGED <<unique, vertices, contains, call>>

Continue(c) == CreateNew(c) \/ CheckDependency(c) \/ MergeDependency(c)

Write(c) ==
    \/ Continue(c)
    \/ \E n \in NodeIds :
          \/ CheckNew(c, n) \/ DeleteNode(c, n)
          \/ \E s \in Versions : AddContains(c, s, n) \/ RemoveContains(c, s, n)
          \/ \E d \in NodeIds : CheckNode(c, n, d) \/ RemoveDependency(c, n, d)
-----------------------------------------------------------------------------
\* Two callers that both find an id free, or a deletion in between, never leave
\* two vertices with one node_id, since the second CREATE meets the constraint.
OneVertexPerId == \A n \in NodeIds : Cardinality(Match(n)) <= 1

\* No caller is in a call, and no call is left to make.
WritersDone == writes = MaxWrites /\ \A c \in Callers : call[c] = None
=============================================================================
