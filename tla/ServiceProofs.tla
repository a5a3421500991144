---------------------------- MODULE ServiceProofs ----------------------------
(***************************************************************************)
(* Proofs about two services of the DAG manager: StatusService, for any    *)
(* pipelines, any finite set of nodes and any number of calls, and         *)
(* GarbageCollection over GraphStore, for any writers, controllers and     *)
(* threads.                                                                *)
(***************************************************************************)
EXTENDS StatusService, GarbageCollection, FiniteSetTheorems, TLAPS

-----------------------------------------------------------------------------
(* StatusService                                                           *)

\* x is at most 100 times y: then so is the quotient.
LEMMA Percent ==
    ASSUME NEW x \in Nat, NEW y \in Nat \ {0}, x <= 100 * y
    PROVE  x \div y \in 0 .. 100
<1> DEFINE q == x \div y
<1>1. q \in Int /\ y * q <= x /\ x < y * q + y
  OBVIOUS
<1>2. q >= 0
  BY <1>1
<1>3. q <= 100
  BY <1>1
<1>4. QED BY <1>1, <1>2, <1>3

\* A node is counted as ended, as running, or not at all: the progress of a
\* pipeline with nodes is a percentage.
LEMMA ProgressType ==
    ASSUME NEW N \in SUBSET Nodes, NEW f \in [N -> NodeStatuses], N # {}
    PROVE  Progress(f) \in 0 .. 100
<1> DEFINE E == {n \in N : f[n].status \in Ended}
           R == {n \in N : f[n].status \in {"RUNNING"}}
<1>1. IsFiniteSet(N) /\ IsFiniteSet(E) /\ IsFiniteSet(R) /\ IsFiniteSet(E \cup R)
  BY StatusAssumption, FS_Subset DEF StatusAssumption
<1>2. E \cap R = {}
  BY DEF Ended
<1>3. Cardinality(E \cup R) = Cardinality(E) + Cardinality(R)
  <2>1. Cardinality(E \cup R) = Cardinality(E) + Cardinality(R) - Cardinality(E \cap R)
    BY <1>1, FS_Union
  <2>2. Cardinality(E \cap R) = 0
    BY <1>2, FS_EmptySet
  <2>3. Cardinality(E) \in Nat /\ Cardinality(R) \in Nat
    BY <1>1, FS_CardinalityType
  <2>4. QED BY <2>1, <2>2, <2>3
<1>4. Cardinality(E \cup R) <= Cardinality(N)
  BY <1>1, FS_Subset
<1>5. /\ Cardinality(N) \in Nat \ {0}
      /\ Cardinality(E) \in Nat
      /\ Cardinality(R) \in Nat
  BY <1>1, FS_CardinalityType, FS_EmptySet
<1>6. /\ Count(f, Ended) = Cardinality(E)
      /\ Count(f, {"RUNNING"}) = Cardinality(R)
      /\ DOMAIN f = N
  BY DEF Count
<1> HIDE DEF E, R
<1> DEFINE x == 100 * (2 * Cardinality(E) + Cardinality(R))
           y == 2 * Cardinality(N)
<1>7. x \in Nat /\ y \in Nat \ {0} /\ x <= 100 * y
  BY <1>3, <1>4, <1>5
<1>8. Progress(f) = x \div y
  BY <1>6 DEF Progress
<1> HIDE DEF x, y
<1>9. QED BY <1>7, <1>8, Percent

-----------------------------------------------------------------------------
\* The types, pipeline by pipeline.
Typed ==
    /\ DOMAIN pipelines \subseteq Pipelines
    /\ DOMAIN nodes = DOMAIN pipelines
    /\ pipelines = [p \in DOMAIN pipelines |-> pipelines[p]]
    /\ \A p \in DOMAIN pipelines :
           /\ pipelines[p] \in PipelineStatuses
           /\ DOMAIN nodes[p] \subseteq Nodes
           /\ nodes[p] \in [DOMAIN nodes[p] -> NodeStatuses]
    /\ calls \in 0 .. MaxCalls
    /\ outcome \in {"ok", "ValueError", "StatusServiceError", "TypeError"}

LEMMA TypedIsTypeOK == TypeOK <=> Typed
<1>1. ASSUME TypeOK PROVE Typed
  <2>1. PICK P \in SUBSET Pipelines :
            /\ pipelines \in [P -> PipelineStatuses]
            /\ DOMAIN nodes = P
            /\ \A p \in P : \E N \in SUBSET Nodes : nodes[p] \in [N -> NodeStatuses]
    BY <1>1 DEF TypeOK
  <2>2. \A p \in P : DOMAIN nodes[p] \subseteq Nodes /\ nodes[p] \in [DOMAIN nodes[p] -> NodeStatuses]
    BY <2>1
  <2>3. DOMAIN pipelines = P /\ pipelines = [p \in DOMAIN pipelines |-> pipelines[p]]
    BY <2>1
  <2>4. QED BY <1>1, <2>1, <2>2, <2>3 DEF TypeOK, Typed
<1>2. ASSUME Typed PROVE TypeOK
  <2>1. pipelines \in [DOMAIN pipelines -> PipelineStatuses]
    BY <1>2 DEF Typed
  <2>2. QED BY <1>2, <2>1 DEF Typed, TypeOK
<1>3. QED BY <1>1, <1>2

LEMMA TypeInit == Init => Typed
BY StatusAssumption DEF StatusAssumption, Init, Typed

LEMMA CallType ==
    ASSUME Typed, NEW o, Call(o)
    PROVE  calls' \in 0 .. MaxCalls /\ now \in Times /\ outcome' = o
BY StatusAssumption DEF StatusAssumption, Typed, Call, now, Times

\* A step that changes the entry of one pipeline, in both dicts.
LEMMA EntryChanged ==
    ASSUME Typed, NEW p \in Pipelines, NEW v \in PipelineStatuses,
           NEW N \in SUBSET Nodes, NEW g \in [N -> NodeStatuses],
           NEW D, D = DOMAIN pipelines \cup {p},
           pipelines' = [q \in D |-> IF q = p THEN v ELSE pipelines[q]],
           DOMAIN nodes' = D,
           nodes'[p] = g,
           \A q \in D \ {p} : nodes'[q] = nodes[q],
           calls' \in 0 .. MaxCalls,
           outcome' \in {"ok", "ValueError", "StatusServiceError", "TypeError"}
    PROVE  Typed'
<1>1. D \subseteq Pipelines /\ DOMAIN pipelines' = D
  BY DEF Typed
<1>2. pipelines' = [q \in DOMAIN pipelines' |-> pipelines'[q]]
  BY <1>1
<1>3. \A q \in D :
          /\ pipelines'[q] \in PipelineStatuses
          /\ DOMAIN nodes'[q] \subseteq Nodes
          /\ nodes'[q] \in [DOMAIN nodes'[q] -> NodeStatuses]
  BY DEF Typed
<1>4. QED BY <1>1, <1>2, <1>3 DEF Typed

LEMMA TypeStep == Typed /\ [Next]_vars => Typed'
<1> SUFFICES ASSUME Typed, [Next]_vars PROVE Typed'
  OBVIOUS
<1>0. ASSUME NEW o \in {"ok", "ValueError", "StatusServiceError", "TypeError"}, Raise(o) PROVE Typed'
  BY <1>0, CallType DEF Raise, status, Typed
<1>1. ASSUME NEW p \in Pipelines, NEW N \in SUBSET Nodes, InitializePipeline(p, N) PROVE Typed'
  <2> DEFINE v == [status |-> "PENDING", progress |-> 0, end |-> Never, update |-> now, result |-> {}]
             g == [n \in N |-> PendingNode]
             D == DOMAIN pipelines \cup {p}
  <2>1. /\ Call("ok")
        /\ pipelines' = Put(pipelines, p, v)
        /\ nodes' = Put(nodes, p, g)
    BY <1>1 DEF InitializePipeline
  <2>2. v \in PipelineStatuses
    BY <2>1, CallType, StatusAssumption
       DEF StatusAssumption, PipelineStatuses, Statuses, Never, Times
  <2>3. g \in [N -> NodeStatuses]
    BY StatusAssumption DEF StatusAssumption, PendingNode, NodeStatuses, Statuses, Never, Times
  <2>4. calls' \in 0 .. MaxCalls /\ outcome' = "ok"
    BY <2>1, CallType
  <2>5. pipelines' = [q \in D |-> IF q = p THEN v ELSE pipelines[q]]
    BY <2>1 DEF Put
  <2>6. nodes' = [q \in D |-> IF q = p THEN g ELSE nodes[q]]
    BY <2>1 DEF Put, Typed
  <2> HIDE DEF v, g
  <2>7. DOMAIN nodes' = D /\ nodes'[p] = g /\ \A q \in D \ {p} : nodes'[q] = nodes[q]
    BY <2>6
  <2> HIDE DEF D
  <2>8. D = DOMAIN pipelines \cup {p}
    BY DEF D
  <2>9. QED BY <2>2, <2>3, <2>4, <2>5, <2>7, <2>8, EntryChanged
<1>2. ASSUME NEW p \in Pipelines, NEW st \in Statuses, UpdatePipelineStatus(p, st) PROVE Typed'
  <2>1. p \in DOMAIN pipelines /\ Call("ok") /\ nodes' = nodes
    BY <1>2 DEF UpdatePipelineStatus
  <2>2. PICK result \in {pipelines[p].result, {Own}} :
            pipelines' = [pipelines EXCEPT ![p] = UpdatedPipeline(@, st, result)]
    BY <1>2 DEF UpdatePipelineStatus
  <2>3. pipelines[p] \in PipelineStatuses
    BY <2>1 DEF Typed
  <2>4. result \in SUBSET (Nodes \cup {Own})
    BY <2>3 DEF PipelineStatuses
  <2>5. now \in Times /\ 100 \in 0 .. 100
    BY <2>1, CallType
  <2>6. UpdatedPipeline(pipelines[p], st, result) \in PipelineStatuses
    BY <2>3, <2>4, <2>5 DEF UpdatedPipeline, PipelineStatuses
  <2>7. /\ DOMAIN pipelines' = DOMAIN pipelines
        /\ pipelines' = [q \in DOMAIN pipelines' |-> pipelines'[q]]
        /\ \A q \in DOMAIN pipelines : pipelines'[q] \in PipelineStatuses
    BY <2>1, <2>2, <2>6 DEF Typed
  <2>8. QED
    BY <2>1, <2>7, CallType DEF Typed
<1>3. ASSUME NEW p \in Pipelines, PipelineUpdateRaises(p) PROVE Typed'
  BY <1>3, <1>0 DEF PipelineUpdateRaises
<1>4. ASSUME NEW p \in Pipelines, NEW n \in Nodes, NEW st \in Statuses, UpdateNodeStatus(p, n, st)
      PROVE  Typed'
  <2>1. /\ p \in DOMAIN pipelines /\ p \in DOMAIN nodes /\ n \in DOMAIN nodes[p]
        /\ Call("ok")
        /\ nodes' = [nodes EXCEPT ![p][n] = UpdatedNode(@, st)]
    BY <1>4 DEF UpdateNodeStatus, Known, Typed
  <2>2. pipelines' = [pipelines EXCEPT ![p].progress = Progress(nodes'[p]), ![p].update = now]
    BY <1>4 DEF UpdateNodeStatus, UpdateProgress
  <2>3. UpdatedNode(nodes[p][n], st) \in NodeStatuses
    <3>1. nodes[p][n] \in NodeStatuses
      BY <2>1 DEF Typed
    <3>2. QED BY <2>1, <3>1, CallType DEF UpdatedNode, NodeStatuses
  <2>4. nodes'[p] = [nodes[p] EXCEPT ![n] = UpdatedNode(nodes[p][n], st)]
    BY <2>1
  <2>5. DOMAIN nodes'[p] = DOMAIN nodes[p] /\ nodes'[p] \in [DOMAIN nodes[p] -> NodeStatuses]
    BY <2>1, <2>3, <2>4 DEF Typed
  <2>6. Progress(nodes'[p]) \in 0 .. 100
    BY <2>1, <2>5, ProgressType DEF Typed
  <2>7. pipelines'[p] \in PipelineStatuses
    <3>1. pipelines[p] \in PipelineStatuses /\ now \in Times
      BY <2>1, CallType DEF Typed
    <3>2. pipelines'[p] = [pipelines[p] EXCEPT !.progress = Progress(nodes'[p]), !.update = now]
      BY <2>1, <2>2 DEF Typed
    <3>3. QED BY <2>6, <3>1, <3>2 DEF PipelineStatuses
  <2>8. DOMAIN nodes' = DOMAIN nodes /\ \A q \in DOMAIN nodes \ {p} : nodes'[q] = nodes[q]
    BY <2>1
  <2>9. DOMAIN pipelines' = DOMAIN pipelines /\ \A q \in DOMAIN pipelines \ {p} : pipelines'[q] = pipelines[q]
    BY <2>2
  <2>10. pipelines' = [q \in DOMAIN pipelines' |-> pipelines'[q]]
    BY <2>2
  <2>11. calls' \in 0 .. MaxCalls /\ outcome' = "ok"
    BY <2>1, CallType
  <2>12. QED
    BY <2>5, <2>7, <2>8, <2>9, <2>10, <2>11 DEF Typed
<1>5. ASSUME NEW p \in Pipelines, NEW n \in Nodes, NEW st \in Statuses, UpdateNodeText(p, n, st)
      PROVE  Typed'
  <2>1. /\ p \in DOMAIN pipelines
        /\ Call("StatusServiceError")
        /\ pipelines' = [pipelines EXCEPT ![p].result = @ \cup {n}]
        /\ nodes' = nodes
    BY <1>5 DEF UpdateNodeText, Known, Typed
  <2>2. pipelines[p] \in PipelineStatuses
    BY <2>1 DEF Typed
  <2>3. [pipelines[p] EXCEPT !.result = @ \cup {n}] \in PipelineStatuses
    BY <2>2 DEF PipelineStatuses
  <2>4. QED
    BY <2>1, <2>3, CallType DEF Typed
<1>6. ASSUME NEW p \in Pipelines, NEW n \in Nodes, NEW st \in Statuses, NodeUpdateRaises(p, n, st)
      PROVE  Typed'
  BY <1>6, <1>0 DEF NodeUpdateRaises
<1>7. ASSUME NEW p \in Pipelines, CleanupPipeline(p) PROVE Typed'
  <2>1. /\ Call("ok")
        /\ pipelines' = [q \in DOMAIN pipelines \ {p} |-> pipelines[q]]
        /\ nodes' = [q \in DOMAIN pipelines \ {p} |-> nodes[q]]
    BY <1>7 DEF CleanupPipeline, Drop, Restrict, Typed
  <2>2. QED
    BY <2>1, CallType DEF Typed
<1>8. ASSUME CleanupOldPipelines PROVE Typed'
  BY <1>8, <1>0 DEF CleanupOldPipelines
<1>9. CASE UNCHANGED vars
  BY <1>9 DEF vars, status, Typed
<1>10. QED
  BY <1>1, <1>2, <1>3, <1>4, <1>5, <1>6, <1>7, <1>8, <1>9 DEF Next

LEMMA TypedHolds == Spec => []Typed
BY TypeInit, TypeStep, PTL DEF Spec

\* The two dicts of the service have the same pipelines and every stored value
\* its type: a progress is a percentage whatever the nodes report.
THEOREM TypeCorrect == Spec => []TypeOK
BY TypedHolds, TypedIsTypeOK, PTL
-----------------------------------------------------------------------------
LEMMA ProgressStep == Typed /\ ProgressAgrees /\ [Next]_vars => ProgressAgrees'
<1> SUFFICES ASSUME Typed, ProgressAgrees, [Next]_vars PROVE ProgressAgrees'
  OBVIOUS
<1>s. ASSUME UNCHANGED status PROVE ProgressAgrees'
  BY <1>s DEF status, ProgressAgrees
<1>1. ASSUME NEW p \in Pipelines, NEW N \in SUBSET Nodes, InitializePipeline(p, N) PROVE ProgressAgrees'
  <2>1. /\ DOMAIN pipelines' = DOMAIN pipelines \cup {p}
        /\ pipelines'[p].progress = 0
        /\ nodes'[p] = [n \in N |-> PendingNode]
        /\ \A q \in DOMAIN pipelines \ {p} : pipelines'[q] = pipelines[q] /\ nodes'[q] = nodes[q]
    BY <1>1 DEF InitializePipeline, Put, Typed
  <2>2. N # {} => Progress(nodes'[p]) = 0
    <3>1. Count(nodes'[p], Ended) = 0 /\ Count(nodes'[p], {"RUNNING"}) = 0
      <4>1. {n \in DOMAIN nodes'[p] : nodes'[p][n].status \in Ended} = {}
        BY <2>1 DEF PendingNode, Ended
      <4>2. {n \in DOMAIN nodes'[p] : nodes'[p][n].status \in {"RUNNING"}} = {}
        BY <2>1 DEF PendingNode
      <4>3. QED BY <4>1, <4>2, FS_EmptySet DEF Count
    <3>2. N # {} => Cardinality(N) \in Nat \ {0}
      BY StatusAssumption, FS_Subset, FS_CardinalityType, FS_EmptySet DEF StatusAssumption
    <3>3. DOMAIN nodes'[p] = N
      BY <2>1
    <3>4. QED
      BY <3>1, <3>2, <3>3 DEF Progress
  <2>3. DOMAIN nodes'[p] = N
    BY <2>1
  <2> HIDE DEF Progress
  <2>4. QED
    BY <2>1, <2>2, <2>3 DEF ProgressAgrees
<1>2. ASSUME NEW p \in Pipelines, NEW st \in Statuses, UpdatePipelineStatus(p, st) PROVE ProgressAgrees'
  <2>1. p \in DOMAIN pipelines /\ nodes' = nodes
    BY <1>2 DEF UpdatePipelineStatus
  <2>2. PICK result : pipelines' = [pipelines EXCEPT ![p] = UpdatedPipeline(@, st, result)]
    BY <1>2 DEF UpdatePipelineStatus
  <2>3. pipelines[p] \in PipelineStatuses
    BY <2>1 DEF Typed
  <2>4. pipelines'[p].progress = IF st = "COMPLETED" THEN 100 ELSE pipelines[p].progress
    BY <2>1, <2>2, <2>3 DEF UpdatedPipeline, PipelineStatuses
  <2>5. DOMAIN pipelines' = DOMAIN pipelines /\ \A q \in DOMAIN pipelines \ {p} : pipelines'[q] = pipelines[q]
    BY <2>2
  <2>6. QED
    BY <2>1, <2>4, <2>5 DEF ProgressAgrees
<1>3. ASSUME NEW p \in Pipelines, NEW n \in Nodes, NEW st \in Statuses, UpdateNodeStatus(p, n, st)
      PROVE  ProgressAgrees'
  <2>1. /\ p \in DOMAIN pipelines /\ p \in DOMAIN nodes /\ n \in DOMAIN nodes[p]
        /\ nodes' = [nodes EXCEPT ![p][n] = UpdatedNode(@, st)]
    BY <1>3 DEF UpdateNodeStatus, Known, Typed
  <2>2. pipelines' = [pipelines EXCEPT ![p].progress = Progress(nodes'[p]), ![p].update = now]
    BY <1>3 DEF UpdateNodeStatus, UpdateProgress
  <2>3. pipelines'[p].progress = Progress(nodes'[p])
    <3>1. pipelines[p] \in PipelineStatuses
      BY <2>1 DEF Typed
    <3>2. pipelines'[p] = [pipelines[p] EXCEPT !.progress = Progress(nodes'[p]), !.update = now]
      BY <2>1, <2>2 DEF Typed
    <3>3. QED BY <3>1, <3>2 DEF PipelineStatuses
  <2>4. DOMAIN nodes'[p] # {}
    BY <2>1
  <2>5. /\ DOMAIN pipelines' = DOMAIN pipelines
        /\ \A q \in DOMAIN pipelines \ {p} : pipelines'[q] = pipelines[q] /\ nodes'[q] = nodes[q]
    BY <2>1, <2>2 DEF Typed
  <2>6. QED
    BY <2>3, <2>4, <2>5 DEF ProgressAgrees
<1>4. ASSUME NEW p \in Pipelines, NEW n \in Nodes, NEW st \in Statuses, UpdateNodeText(p, n, st)
      PROVE  ProgressAgrees'
  <2>1. /\ p \in DOMAIN pipelines
        /\ pipelines' = [pipelines EXCEPT ![p].result = @ \cup {n}]
        /\ nodes' = nodes
    BY <1>4 DEF UpdateNodeText, Known, Typed
  <2>2. \A q \in DOMAIN pipelines : pipelines'[q].progress = pipelines[q].progress
    <3>1. pipelines[p] \in PipelineStatuses
      BY <2>1 DEF Typed
    <3>2. QED BY <2>1, <3>1 DEF PipelineStatuses
  <2>3. QED
    BY <2>1, <2>2 DEF ProgressAgrees
<1>5. ASSUME NEW p \in Pipelines, CleanupPipeline(p) PROVE ProgressAgrees'
  <2>1. /\ pipelines' = [q \in DOMAIN pipelines \ {p} |-> pipelines[q]]
        /\ nodes' = [q \in DOMAIN pipelines \ {p} |-> nodes[q]]
    BY <1>5 DEF CleanupPipeline, Drop, Restrict, Typed
  <2>2. QED
    BY <2>1 DEF ProgressAgrees
<1>6. ASSUME NEW o, Raise(o) PROVE ProgressAgrees'
  BY <1>6, <1>s DEF Raise
<1>7. CASE UNCHANGED vars
  BY <1>7, <1>s DEF vars
<1>8. QED
  BY <1>1, <1>2, <1>3, <1>4, <1>5, <1>6, <1>7
     DEF Next, PipelineUpdateRaises, NodeUpdateRaises, CleanupOldPipelines

\* The progress that is stored is the one of the nodes' statuses, or the 100 of
\* a COMPLETED pipeline, for any pipelines, nodes and sequence of calls.
THEOREM ProgressAgreesHolds == Spec => []ProgressAgrees
<1>1. Init => ProgressAgrees
  BY DEF Init, ProgressAgrees
<1>2. QED
  BY <1>1, ProgressStep, TypedHolds, PTL DEF Spec
-----------------------------------------------------------------------------
LEMMA UpdateKeepsTimes ==
    ASSUME Typed, NEW p \in Pipelines, NEW n \in Nodes, NEW st \in Statuses,
           UpdateNodeStatus(p, n, st), NEW q \in DOMAIN nodes, NEW m \in DOMAIN nodes[q]
    PROVE  KeepsTimes(q, m)
<1>1. /\ ~FieldTwice(nodes[p][n], st)
      /\ nodes' = [nodes EXCEPT ![p][n] = UpdatedNode(@, st)]
      /\ n \in DOMAIN nodes[p]
      /\ p \in DOMAIN nodes
  BY DEF UpdateNodeStatus, Known
<1>2. CASE q = p /\ m = n
  <2>1. nodes'[q][m] = UpdatedNode(nodes[q][m], st)
    BY <1>1, <1>2
  <2>2. QED
    BY <1>1, <1>2, <2>1 DEF KeepsTimes, UpdatedNode, FieldTwice
<1>3. CASE ~(q = p /\ m = n)
  <2>1. nodes'[q][m] = nodes[q][m]
    BY <1>1, <1>3 DEF Typed
  <2>2. QED BY <2>1 DEF KeepsTimes
<1>4. QED BY <1>2, <1>3

\* No later report moves the first start or the first end of a node, as long as
\* its pipeline is not initialized again or cleaned up.
THEOREM TimesKeptHolds == Spec => TimesKept
<1> DEFINE Kept == \A p \in DOMAIN nodes \cap DOMAIN nodes' :
                      \/ \E N \in SUBSET Nodes : InitializePipeline(p, N)
                      \/ \A n \in DOMAIN nodes[p] : KeepsTimes(p, n)
<1>1. ASSUME Typed, [Next]_vars PROVE Kept
  <2>s. ASSUME nodes' = nodes PROVE Kept
    BY <2>s DEF KeepsTimes
  <2>1. ASSUME NEW p \in Pipelines, NEW N \in SUBSET Nodes, InitializePipeline(p, N) PROVE Kept
    <3>1. \A q \in DOMAIN nodes \ {p} : nodes'[q] = nodes[q]
      BY <2>1 DEF InitializePipeline, Put
    <3>2. \A q \in DOMAIN nodes \ {p} : \A n \in DOMAIN nodes[q] : KeepsTimes(q, n)
      BY <3>1 DEF KeepsTimes
    <3>3. QED BY <2>1, <3>2
  <2>2. ASSUME NEW p \in Pipelines, NEW n \in Nodes, NEW st \in Statuses, UpdateNodeStatus(p, n, st) PROVE Kept
    BY <1>1, <2>2, UpdateKeepsTimes
  <2>3. ASSUME NEW p \in Pipelines, CleanupPipeline(p) PROVE Kept
    <3>1. \A q \in DOMAIN nodes \cap DOMAIN nodes' : nodes'[q] = nodes[q]
      BY <2>3 DEF CleanupPipeline, Drop, Restrict
    <3>2. QED BY <3>1 DEF KeepsTimes
  <2>4. QED
    BY <1>1, <2>s, <2>1, <2>2, <2>3
       DEF Next, vars, status, UpdatePipelineStatus, UpdateNodeText, PipelineUpdateRaises,
           NodeUpdateRaises, CleanupOldPipelines, Raise
<1>2. QED BY <1>1, TypedHolds, PTL DEF Spec, TimesKept

\* A call that raises changes no node's status, no progress and no time of a
\* pipeline; only a pipeline's result may have got an entry.
THEOREM RaiseHarmless == Spec => RaiseChangesNoStatus
<1> DEFINE Harmless ==
        \/ outcome' = "ok"
        \/ /\ nodes' = nodes
           /\ \A p \in DOMAIN pipelines :
                 pipelines'[p] = [pipelines[p] EXCEPT !.result = pipelines'[p].result]
<1>1. ASSUME Typed, [Next]_vars PROVE Harmless
  <2>s. ASSUME UNCHANGED status PROVE Harmless
    BY <1>1, <2>s DEF status, Typed, PipelineStatuses
  <2>1. ASSUME Call("ok") PROVE Harmless
    BY <2>1 DEF Call
  <2>2. ASSUME NEW p \in Pipelines, NEW n \in Nodes, NEW st \in Statuses, UpdateNodeText(p, n, st) PROVE Harmless
    <3>1. /\ p \in DOMAIN pipelines
          /\ pipelines' = [pipelines EXCEPT ![p].result = @ \cup {n}]
          /\ nodes' = nodes
      BY <1>1, <2>2 DEF UpdateNodeText, Known, Typed
    <3>2. \A q \in DOMAIN pipelines : pipelines[q] \in PipelineStatuses
      BY <1>1 DEF Typed
    <3>3. QED BY <3>1, <3>2 DEF PipelineStatuses
  <2>3. QED
    BY <1>1, <2>s, <2>1, <2>2
       DEF Next, vars, InitializePipeline, UpdatePipelineStatus, UpdateNodeStatus, CleanupPipeline,
           PipelineUpdateRaises, NodeUpdateRaises, CleanupOldPipelines, Raise
<1>2. QED BY <1>1, TypedHolds, PTL DEF Spec, RaiseChangesNoStatus
-----------------------------------------------------------------------------
(* GraphStore and GarbageCollection                                        *)

\* The constraint is in place, and it is obeyed.
OneVertex == unique /\ \A v, w \in vertices : v[1] = w[1] => v = w

LEMMA Matching ==
    ASSUME OneVertex, NEW n
    PROVE  IsFiniteSet(Match(n)) /\ Cardinality(Match(n)) \in 0 .. 1
<1>1. CASE Match(n) = {}
  BY <1>1, FS_EmptySet
<1>2. CASE Match(n) # {}
  <2>1. PICK v : v \in Match(n)
    BY <1>2
  <2>2. Match(n) = {v}
    BY <2>1 DEF OneVertex, Match
  <2>3. IsFiniteSet({v}) /\ Cardinality({v}) = 1
    BY FS_Singleton
  <2>4. QED BY <2>2, <2>3
<1>3. QED BY <1>1, <1>2

\* DETACH DELETE leaves no dangling edge.
LEMMA DetachType ==
    ASSUME StoreTypeOK, OneVertex, NEW V, DetachDelete(V), UNCHANGED unique
    PROVE  /\ vertices' \in SUBSET Vertices
           /\ dependsOn' \in SUBSET (vertices' \X vertices')
           /\ contains' \in SUBSET (Versions \X vertices')
           /\ OneVertex'
BY DEF StoreTypeOK, OneVertex, DetachDelete

\* What a call of several queries has in hand.
LEMMA InCall ==
    ASSUME StoreTypeOK, NEW c \in Callers, call[c] # None
    PROVE  /\ call[c] \in CallStates /\ call[c].node \in NodeIds
           /\ call[c].at \in {"dep", "merge"} => call[c].other \in NodeIds
           /\ call[c].at = "dep" => [call[c] EXCEPT !.at = "merge"] \in CallStates
<1>1. call[c] \in CallStates
  BY DEF StoreTypeOK
<1>2. CASE call[c] \in [at : {"create"}, node : NodeIds]
  BY <1>1, <1>2
<1>3. CASE call[c] \in [at : {"dep", "merge"}, node : NodeIds, other : NodeIds]
  BY <1>1, <1>3 DEF CallStates
<1>4. QED BY <1>1, <1>2, <1>3 DEF CallStates

LEMMA StoreStep ==
    ASSUME StoreTypeOK, OneVertex, NEW c \in Callers, Write(c)
    PROVE  StoreTypeOK' /\ OneVertex'

<1>t. /\ unique \in BOOLEAN /\ vertices \in SUBSET Vertices
      /\ dependsOn \in SUBSET (vertices \X vertices)
      /\ contains \in SUBSET (Versions \X vertices)
      /\ call \in [Callers -> CallStates \cup {None}] /\ writes \in 0 .. MaxWrites
  BY DEF StoreTypeOK
<1>b. ASSUME Begin(c) PROVE writes' \in 0 .. MaxWrites
  BY <1>b, <1>t, StoreAssumption DEF Begin, StoreAssumption
<1>g. ASSUME NEW state \in CallStates \cup {None}, call' = call \/ Goto(c, state)
      PROVE  call' \in [Callers -> CallStates \cup {None}]
  BY <1>g, <1>t DEF Goto
<1>m. \A n : Match(n) \subseteq vertices
  BY DEF Match
<1>1. ASSUME NEW n \in NodeIds, CheckNew(c, n) PROVE StoreTypeOK' /\ OneVertex'
  <2>1. [at |-> "create", node |-> n] \in CallStates
    BY DEF CallStates
  <2>2. call' \in [Callers -> CallStates \cup {None}]
    BY <1>1, <1>g, <2>1 DEF CheckNew
  <2>3. QED BY <1>1, <1>t, <1>b, <2>2 DEF CheckNew, graph, StoreTypeOK, OneVertex
<1>2. CASE CreateNew(c)
  <2> DEFINE n == call[c].node
             k == Cardinality(Match(n)) + 1
  <2>1. n \in NodeIds
    BY <1>2, InCall DEF CreateNew
  <2>2. call' \in [Callers -> CallStates \cup {None}]
    BY <1>2, <1>g DEF CreateNew
  <2>3. \/ vertices' = vertices
        \/ Match(n) = {} /\ k <= Copies /\ vertices' = vertices \cup {<<n, k>>}
    BY <1>2 DEF CreateNew, OneVertex
  <2>4. k \in Nat \ {0}
    BY Matching
  <2>5. vertices' \in SUBSET Vertices
    BY <1>t, <2>1, <2>3, <2>4, StoreAssumption DEF Vertices, StoreAssumption
  <2>6. UNCHANGED <<unique, dependsOn, contains, writes>>
    BY <1>2 DEF CreateNew
  <2>7. OneVertex'
    <3>1. CASE vertices' = vertices
      BY <2>6, <3>1 DEF OneVertex
    <3>2. CASE Match(n) = {} /\ vertices' = vertices \cup {<<n, k>>}
      <4>1. \A v \in vertices : v[1] # n
        BY <3>2 DEF Match
      <4>2. <<n, k>>[1] = n
        OBVIOUS
      <4> HIDE DEF k, n
      <4>3. QED BY <2>6, <3>2, <4>1, <4>2 DEF OneVertex
    <3>3. QED BY <2>3, <3>1, <3>2
  <2>8. vertices \subseteq vertices'
    BY <2>3
  <2>9. QED BY <1>t, <2>2, <2>5, <2>6, <2>7, <2>8 DEF StoreTypeOK
<1>3. ASSUME NEW n \in NodeIds, DeleteNode(c, n) PROVE StoreTypeOK' /\ OneVertex'
  BY <1>3, <1>t, <1>b, DetachType DEF DeleteNode, StoreTypeOK
<1>4. ASSUME NEW n \in NodeIds, NEW s \in Versions, AddContains(c, s, n) PROVE StoreTypeOK' /\ OneVertex'
  BY <1>4, <1>t, <1>b, <1>m DEF AddContains, StoreTypeOK, OneVertex
<1>5. ASSUME NEW n \in NodeIds, NEW s \in Versions, RemoveContains(c, s, n) PROVE StoreTypeOK' /\ OneVertex'
  BY <1>5, <1>t, <1>b DEF RemoveContains, StoreTypeOK, OneVertex
<1>6. ASSUME NEW n \in NodeIds, NEW d \in NodeIds, CheckNode(c, n, d) PROVE StoreTypeOK' /\ OneVertex'
  <2>1. [at |-> "dep", node |-> n, other |-> d] \in CallStates
    BY DEF CallStates
  <2>2. call' \in [Callers -> CallStates \cup {None}]
    BY <1>6, <1>g, <2>1 DEF CheckNode
  <2>3. QED BY <1>6, <1>t, <1>b, <2>2 DEF CheckNode, graph, StoreTypeOK, OneVertex
<1>7. CASE CheckDependency(c)
  <2>1. call' \in [Callers -> CallStates \cup {None}]
    BY <1>7, <1>g, InCall DEF CheckDependency
  <2>2. QED BY <1>7, <1>t, <2>1 DEF CheckDependency, graph, StoreTypeOK, OneVertex
<1>8. CASE MergeDependency(c)
  <2>1. call' \in [Callers -> CallStates \cup {None}]
    BY <1>8, <1>g DEF MergeDependency
  <2>2. QED BY <1>8, <1>t, <1>m, <2>1 DEF MergeDependency, StoreTypeOK, OneVertex
<1>9. ASSUME NEW n \in NodeIds, NEW d \in NodeIds, RemoveDependency(c, n, d)
      PROVE  StoreTypeOK' /\ OneVertex'
  BY <1>9, <1>t, <1>b DEF RemoveDependency, StoreTypeOK, OneVertex
<1>10. QED
  BY <1>1, <1>2, <1>3, <1>4, <1>5, <1>6, <1>7, <1>8, <1>9 DEF Write, Continue

\* A start_daemon call without a stop_daemon call beside it has cleared the event
\* for good, and there is a thread to start.
StartsCleared ==
    \A c \in Controllers :
        /\ pc[c] \in {"assign", "start"} /\ plain[c] => ~stopEvent
        /\ pc[c] = "start" => daemon # NoThread

GcInv == GcTypeOK /\ OneVertex /\ StartsCleared /\ StartTakesEffect

LEMMA GcInitial == GcInit => GcInv
<1> SUFFICES ASSUME GcInit PROVE GcInv
  OBVIOUS
<1>1. StoreTypeOK /\ OneVertex
  BY StoreAssumption
     DEF StoreAssumption, GcInit, StoreInit, InitSchema, StoreTypeOK, OneVertex, Vertices
<1>2. /\ loop \in [Threads -> LoopStates] /\ joining \in [Controllers -> Threads \cup {NoThread}]
      /\ pc \in [Controllers -> {"idle", "check", "clear", "assign", "start"} \cup StopSteps]
      /\ plain \in [Controllers -> BOOLEAN] /\ \A t \in Threads : loop[t] = "none"
  BY DEF GcInit, LoopStates
<1>3. /\ stopEvent \in BOOLEAN /\ daemon \in Threads \cup {NoThread} /\ wanted \in BOOLEAN
      /\ controls \in 0 .. MaxControls /\ errors \in 0 .. MaxErrors
  <2>1. stopEvent = FALSE /\ wanted = FALSE /\ daemon = NoThread /\ controls = 0 /\ errors = 0
    BY DEF GcInit
  <2>2. 0 \in 0 .. MaxControls /\ 0 \in 0 .. MaxErrors
    BY ControlAssumption DEF ControlAssumption
  <2>3. QED BY <2>1, <2>2
<1>4. GcTypeOK
  BY <1>1, <1>2, <1>3 DEF GcTypeOK
<1>5. StartsCleared /\ StartTakesEffect
  BY DEF GcInit, StartsCleared, StartTakesEffect
<1>6. QED BY <1>1, <1>4, <1>5 DEF GcInv

LEMMA StoreSame ==
    ASSUME StoreTypeOK, OneVertex, UNCHANGED store
    PROVE  StoreTypeOK' /\ OneVertex'
BY DEF store, graph, StoreTypeOK, OneVertex

\* A step of start_daemon or stop_daemon.
LEMMA ControlStep ==
    ASSUME GcInv, NEW c \in Controllers, CallStart(c) \/ CallStop(c) \/ Control(c)
    PROVE  GcInv'

<1> DEFINE PcStates == {"idle", "check", "clear", "assign", "start"} \cup StopSteps
<1>t. /\ StoreTypeOK /\ OneVertex /\ stopEvent \in BOOLEAN /\ daemon \in Threads \cup {NoThread}
      /\ loop \in [Threads -> LoopStates] /\ pc \in [Controllers -> PcStates]
      /\ joining \in [Controllers -> Threads \cup {NoThread}]
      /\ controls \in 0 .. MaxControls /\ errors \in 0 .. MaxErrors
      /\ plain \in [Controllers -> BOOLEAN] /\ wanted \in BOOLEAN
      /\ (daemon = NoThread) => \A t \in Threads : loop[t] = "none"
  BY DEF GcInv, GcTypeOK
<1>p. {"idle", "check", "clear", "assign", "start", "set", "join"} = PcStates
  BY DEF StopSteps
<1> HIDE DEF PcStates
<1>i. StartsCleared /\ StartTakesEffect
  BY DEF GcInv
<1>s. UNCHANGED <<store, errors>>
  BY DEF CallStart, CallStop, Control, AlreadyRunning, NotRunning, ClearEvent, AssignThread,
         StartThread, ReadThread, Joined
<1>u. StoreTypeOK' /\ OneVertex' /\ errors' \in 0 .. MaxErrors
  BY <1>s, <1>t, StoreSame
<1>a. ASSUME NEW from \in PcStates, NEW to \in PcStates, At(c, from, to)
      PROVE  /\ pc' \in [Controllers -> PcStates] /\ pc[c] = from /\ pc'[c] = to
             /\ \A d \in Controllers \ {c} : pc'[d] = pc[d]
  BY <1>a, <1>t DEF At
<1>q. ASSUME stopEvent' \in BOOLEAN, daemon' \in Threads \cup {NoThread},
             loop' \in [Threads -> LoopStates], pc' \in [Controllers -> PcStates],
             joining' \in [Controllers -> Threads \cup {NoThread}], controls' \in 0 .. MaxControls,
             plain' \in [Controllers -> BOOLEAN], wanted' \in BOOLEAN,
             (daemon' = NoThread) => \A t \in Threads : loop'[t] = "none",
             StartsCleared', StartTakesEffect'
      PROVE  GcInv'
  BY <1>q, <1>u DEF GcInv, GcTypeOK, PcStates
<1>1. CASE CallStart(c)
  <2>1. /\ pc' \in [Controllers -> PcStates] /\ pc'[c] = "check"
        /\ \A d \in Controllers \ {c} : pc'[d] = pc[d] /\ plain'[d] = plain[d]
        /\ UNCHANGED <<stopEvent, daemon, joining, loop, wanted>>
        /\ plain' \in [Controllers -> BOOLEAN]
    BY <1>1, <1>a, <1>p, <1>t DEF CallStart
  <2>2. controls' \in 0 .. MaxControls
    BY <1>1, <1>t, ControlAssumption DEF CallStart, ControlAssumption
  <2>3. StartsCleared' /\ StartTakesEffect'
    BY <1>i, <2>1 DEF StartsCleared, StartTakesEffect, Alive
  <2>4. QED BY <1>q, <1>t, <2>1, <2>2, <2>3
<1>2. CASE CallStop(c)
  <2>1. /\ pc' \in [Controllers -> PcStates] /\ pc'[c] = "set" /\ stopEvent' = TRUE /\ ~wanted'
        /\ \A d \in Controllers \ {c} : pc'[d] = pc[d]
        /\ \A d \in Controllers : ~plain'[d]
        /\ UNCHANGED <<daemon, joining, loop>>
        /\ plain' \in [Controllers -> BOOLEAN] /\ wanted' \in BOOLEAN
    BY <1>2, <1>a, <1>p, <1>t DEF CallStop
  <2>2. controls' \in 0 .. MaxControls
    BY <1>2, <1>t, ControlAssumption DEF CallStop, ControlAssumption
  <2>3. StartsCleared' /\ StartTakesEffect'
    BY <1>i, <2>1 DEF StartsCleared, StartTakesEffect
  <2>4. QED BY <1>q, <1>t, <2>1, <2>2, <2>3
<1>3. CASE AlreadyRunning(c) \/ NotRunning(c)
  <2>1. \E to \in {"idle", "clear"} : At(c, "check", to)
    BY <1>3 DEF AlreadyRunning, NotRunning
  <2>2. /\ pc' \in [Controllers -> PcStates] /\ pc'[c] \in {"idle", "clear"}
        /\ \A d \in Controllers \ {c} : pc'[d] = pc[d]
    BY <1>a, <1>p, <2>1
  <2>3. UNCHANGED <<stopEvent, daemon, joining, controls, plain, loop>>
    BY <1>3 DEF AlreadyRunning, NotRunning
  <2>4. wanted' \in BOOLEAN /\ (wanted' => wanted \/ (~stopEvent /\ IsAlive(daemon)))
    BY <1>3, <1>t DEF AlreadyRunning, NotRunning
  <2>5. StartsCleared'
    BY <1>i, <2>2, <2>3 DEF StartsCleared
  <2>6. StartTakesEffect'
    BY <1>i, <1>t, <2>3, <2>4 DEF StartTakesEffect, IsAlive, Alive
  <2>7. QED BY <1>q, <1>t, <2>2, <2>3, <2>4, <2>5, <2>6
<1>4. CASE ClearEvent(c)
  <2>1. /\ pc' \in [Controllers -> PcStates] /\ pc'[c] = "assign" /\ pc[c] = "clear"
        /\ \A d \in Controllers \ {c} : pc'[d] = pc[d]
        /\ stopEvent' = FALSE
        /\ UNCHANGED <<daemon, joining, controls, plain, loop, wanted>>
    BY <1>4, <1>a, <1>p DEF ClearEvent
  <2>2. StartsCleared' /\ StartTakesEffect'
    BY <1>i, <2>1 DEF StartsCleared, StartTakesEffect, Alive
  <2>3. QED BY <1>q, <1>t, <2>1, <2>2
<1>5. CASE AssignThread(c)
  <2>1. PICK t \in Threads : loop[t] = "none" /\ loop' = [loop EXCEPT ![t] = "new"] /\ daemon' = t
    BY <1>5 DEF AssignThread
  <2>2. /\ pc' \in [Controllers -> PcStates] /\ pc'[c] = "start" /\ pc[c] = "assign"
        /\ \A d \in Controllers \ {c} : pc'[d] = pc[d]
        /\ UNCHANGED <<stopEvent, joining, controls, plain, wanted>>
    BY <1>5, <1>a, <1>p DEF AssignThread
  <2>3. loop' \in [Threads -> LoopStates] /\ daemon' # NoThread
    BY <1>t, <2>1, ControlAssumption DEF LoopStates, ControlAssumption
  <2>4. \A u \in Threads : Alive(u) => Alive(u)'
    BY <1>t, <2>1 DEF Alive
  <2>5. StartsCleared' /\ StartTakesEffect'
    BY <1>i, <2>2, <2>3, <2>4 DEF StartsCleared, StartTakesEffect
  <2>6. QED BY <1>q, <1>t, <2>1, <2>2, <2>3, <2>5
<1>6. CASE StartThread(c)
  <2>1. /\ pc' \in [Controllers -> PcStates] /\ pc'[c] = "idle" /\ pc[c] = "start"
        /\ \A d \in Controllers \ {c} : pc'[d] = pc[d]
        /\ UNCHANGED <<stopEvent, daemon, joining, controls, plain>>
    BY <1>6, <1>a, <1>p DEF StartThread
  <2>2. daemon \in Threads /\ (plain[c] => ~stopEvent)
    BY <1>i, <1>t, <2>1 DEF StartsCleared
  <2>3. \/ loop[daemon] = "new" /\ loop' = [loop EXCEPT ![daemon] = "check"] /\ wanted' = (wanted \/ plain[c])
        \/ UNCHANGED <<loop, wanted>>
    BY <1>6 DEF StartThread
  <2>4. loop' \in [Threads -> LoopStates] /\ wanted' \in BOOLEAN
    BY <1>t, <2>2, <2>3 DEF LoopStates
  <2>5. StartsCleared'
    BY <1>i, <2>1 DEF StartsCleared
  <2>6. StartTakesEffect'
    BY <1>i, <1>t, <2>1, <2>2, <2>3 DEF StartTakesEffect, Alive
  <2>7. QED BY <1>q, <1>t, <2>1, <2>2, <2>4, <2>5, <2>6, ControlAssumption DEF ControlAssumption
<1>7. CASE ReadThread(c)
  <2>1. \E to \in {"join", "idle"} : At(c, "set", to)
    BY <1>7 DEF ReadThread
  <2>2. /\ pc' \in [Controllers -> PcStates] /\ pc'[c] \in {"join", "idle"}
        /\ \A d \in Controllers \ {c} : pc'[d] = pc[d]
    BY <1>a, <1>p, <2>1
  <2>3. /\ UNCHANGED <<stopEvent, daemon, controls, plain, loop, wanted>>
        /\ joining' \in [Controllers -> Threads \cup {NoThread}]
    BY <1>7, <1>t DEF ReadThread
  <2>4. StartsCleared' /\ StartTakesEffect'
    BY <1>i, <2>2, <2>3 DEF StartsCleared, StartTakesEffect, Alive
  <2>5. QED BY <1>q, <1>t, <2>2, <2>3, <2>4
<1>8. CASE Joined(c)
  <2>1. /\ pc' \in [Controllers -> PcStates] /\ pc'[c] = "idle"
        /\ \A d \in Controllers \ {c} : pc'[d] = pc[d]
        /\ UNCHANGED <<stopEvent, daemon, controls, plain, loop, wanted>>
        /\ joining' \in [Controllers -> Threads \cup {NoThread}]
    BY <1>8, <1>a, <1>p, <1>t DEF Joined
  <2>2. StartsCleared' /\ StartTakesEffect'
    BY <1>i, <2>1 DEF StartsCleared, StartTakesEffect, Alive
  <2>3. QED BY <1>q, <1>t, <2>1, <2>2
<1>9. QED
  BY <1>1, <1>2, <1>3, <1>4, <1>5, <1>6, <1>7, <1>8 DEF Control

\* A step of a collecting thread.
LEMMA CollectStep ==
    ASSUME GcInv, NEW t \in Threads, Collect(t)
    PROVE  GcInv'
<1>t. GcTypeOK /\ StoreTypeOK /\ OneVertex /\ StartsCleared /\ StartTakesEffect
  BY DEF GcInv, GcTypeOK
<1>c. UNCHANGED <<stopEvent, daemon, pc, joining, controls, plain>>
  BY DEF Collect, CheckEvent, CollectTtlExpired, CollectZeroDeps, QueryFails, PoolFails, Wake, control
<1>s. StoreTypeOK' /\ OneVertex'
  <2>1. CASE UNCHANGED store
    BY <1>t, <2>1, StoreSame
  <2>2. CASE CollectZeroDeps(t)
    BY <1>t, <2>2, DetachType DEF CollectZeroDeps, StoreTypeOK
  <2>3. QED
    BY <2>1, <2>2 DEF Collect, CheckEvent, CollectTtlExpired, QueryFails, PoolFails, Wake
<1>1. PICK from \in {"check", "ttl", "zero", "wait"}, to \in LoopStates : Goes(t, from, to)
  BY DEF Collect, CheckEvent, CollectTtlExpired, CollectZeroDeps, QueryFails, PoolFails, Wake, LoopStates
<1>2. /\ loop' \in [Threads -> LoopStates] /\ loop[t] = from /\ loop'[t] = to
      /\ \A u \in Threads \ {t} : loop'[u] = loop[u]
  BY <1>1, <1>t DEF Goes, GcTypeOK
<1>3. errors' \in 0 .. MaxErrors
  BY <1>t, ControlAssumption
     DEF ControlAssumption, GcTypeOK, Collect, CheckEvent, CollectTtlExpired, CollectZeroDeps,
         QueryFails, PoolFails, Wake
<1>4. daemon # NoThread
  BY <1>2, <1>t DEF GcTypeOK
<1>5. \/ ~wanted' /\ wanted' \in BOOLEAN
      \/ wanted' = wanted /\ (to = "ended" => stopEvent)
  <2>1. CASE CheckEvent(t)
    BY <1>2, <2>1 DEF CheckEvent, Goes
  <2>2. CASE CollectTtlExpired(t) \/ CollectZeroDeps(t) \/ Wake(t)
    BY <1>2, <1>t, <2>2 DEF CollectTtlExpired, CollectZeroDeps, Wake, Goes, GcTypeOK
  <2>3. CASE QueryFails(t)
    BY <1>2, <1>t, <2>3 DEF QueryFails, Goes, GcTypeOK
  <2>4. CASE PoolFails(t)
    BY <2>4 DEF PoolFails
  <2>5. QED BY <2>1, <2>2, <2>3, <2>4 DEF Collect
<1>6. StartTakesEffect'
  <2>1. CASE ~wanted'
    BY <2>1 DEF StartTakesEffect
  <2>2. CASE wanted' = wanted /\ wanted /\ (to = "ended" => stopEvent)
    <3>1. ~stopEvent /\ \E u \in Threads : Alive(u)
      BY <1>t, <2>2 DEF StartTakesEffect
    <3>2. to \in {"check", "ttl", "zero", "wait"}
      <4>1. CASE CheckEvent(t)
        BY <1>2, <2>2, <3>1, <4>1, <1>t DEF CheckEvent, Goes, GcTypeOK
      <4>2. CASE CollectTtlExpired(t) \/ CollectZeroDeps(t) \/ Wake(t) \/ QueryFails(t)
        BY <1>2, <1>t, <4>2 DEF CollectTtlExpired, CollectZeroDeps, Wake, QueryFails, Goes, GcTypeOK
      <4>3. CASE PoolFails(t)
        BY <2>2, <4>3 DEF PoolFails
      <4>4. QED BY <4>1, <4>2, <4>3 DEF Collect
    <3>3. \A u \in Threads : Alive(u) => Alive(u)'
      BY <1>2, <3>2 DEF Alive
    <3>4. QED BY <1>c, <3>1, <3>3 DEF StartTakesEffect
  <2>3. QED BY <1>5, <2>1, <2>2
<1>7. StartsCleared'
  BY <1>c, <1>t DEF StartsCleared
<1>8. wanted' \in BOOLEAN
  BY <1>5, <1>t DEF GcTypeOK
<1>9. QED
  BY <1>c, <1>t, <1>s, <1>2, <1>3, <1>4, <1>6, <1>7, <1>8 DEF GcInv, GcTypeOK

LEMMA GcStep == GcInv /\ [GcNext]_gcVars => GcInv'
<1> SUFFICES ASSUME GcInv, [GcNext]_gcVars PROVE GcInv'
  OBVIOUS
<1>t. GcTypeOK /\ StoreTypeOK /\ OneVertex /\ StartsCleared /\ StartTakesEffect
  BY DEF GcInv, GcTypeOK
<1>r. ASSUME StoreTypeOK', OneVertex', UNCHANGED <<control, loop, errors, wanted>> PROVE GcInv'
  BY <1>r, <1>t DEF control, GcInv, GcTypeOK, StartsCleared, StartTakesEffect, Alive
<1>1. ASSUME NEW c \in Callers, Write(c), UNCHANGED <<control, loop, errors, wanted>> PROVE GcInv'
  BY <1>1, <1>r, <1>t, StoreStep
<1>2. CASE UNCHANGED gcVars
  BY <1>2, <1>r, <1>t, StoreSame DEF gcVars
<1>3. QED BY <1>1, <1>2, ControlStep, CollectStep DEF GcNext

LEMMA GcInvHolds == GcSpec => []GcInv
BY GcInitial, GcStep, PTL DEF GcSpec

\* Every variable of the graph and of the daemon keeps its type, the edges join
\* vertices that are there, and a thread exists only when _daemon_thread names one
\* (Neo4jNodeService, Neo4jGCService).
THEOREM GcTypeCorrect == GcSpec => []GcTypeOK
BY GcInvHolds, PTL DEF GcInv

\* However the two queries of create_node of any number of callers interleave with
\* each other, with deletions and with the collector, no two vertices have one
\* node_id.
THEOREM OneVertexPerIdHolds == GcSpec => []OneVertexPerId
<1>1. GcInv => OneVertexPerId
  BY Matching DEF GcInv, OneVertexPerId
<1>2. QED BY <1>1, GcInvHolds, PTL

\* A start_daemon call that succeeded, without a stop beside or after it, means a
\* collecting loop that is not told to end, for any number of threads that start and
\* stop the daemon without a lock, unless a loop died of a failing pool.
THEOREM StartTakesEffectHolds == GcSpec => []StartTakesEffect
BY GcInvHolds, PTL DEF GcInv

=============================================================================
