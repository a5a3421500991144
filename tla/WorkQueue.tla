------------------------------ MODULE WorkQueue ------------------------------
(***************************************************************************)
(* The DAG Manager's work queue (src/qmtl/dag_manager/core) and the node   *)
(* management methods that drive it:                                       *)
(*                                                                         *)
(*   schedulers  NodeManagementService.get_ready_nodes, then               *)
(*               enqueue_ready_nodes (ReadyNodeSelector and QueueWorker)   *)
(*   workers     RedisQueueRepository.pop, the node's execution, then      *)
(*               QueueWorker.complete_node                                 *)
(*   Redis       the queue and processing lists and the results hash       *)
(*                                                                         *)
(* Every Redis command and every call of the status service is one step,   *)
(* so calls of different processes interleave between any two of them, and *)
(* a process may crash there.                                              *)
(***************************************************************************)
EXTENDS Naturals, Sequences, FiniteSets

CONSTANTS
    Nodes,         \* the data nodes of one strategy version
    Deps,          \* Deps[n]: the ids in DataNode.dependencies of n
    Rank,          \* position of a node in GraphBuilder's topological order
    Schedulers,    \* processes that select and enqueue ready nodes
    Workers,       \* consumers of the queue
    Results,       \* the values one execution of a node may produce
    NoNode,        \* a process that has no node in hand
    NoResult,      \* a field the results hash does not hold
    InitialStates, \* node states a strategy may start from
    MaxRounds,     \* bound: calls of get_ready_nodes, over all schedulers
    MaxCrashes     \* bound: crashes of workers and schedulers

\* What GraphBuilder.build_dag guarantees when it returns: every dependency is
\* a node of the list and precedes its dependents in the order.
ASSUME DagAssumption ==
    /\ Deps \in [Nodes -> SUBSET Nodes]
    /\ Rank \in [Nodes -> Nat]
    /\ \A m, n \in Nodes : Rank[m] = Rank[n] => m = n
    /\ \A n \in Nodes : \A d \in Deps[n] : Rank[d] < Rank[n]

StatusValues == {"NONE", "PENDING", "READY", "RUNNING", "COMPLETED", "FAILED"}

ASSUME ConstantAssumption ==
    /\ NoNode \notin Nodes
    /\ NoResult \notin Results
    /\ InitialStates \subseteq StatusValues \ {"COMPLETED"}
    /\ MaxRounds \in Nat
    /\ MaxCrashes \in Nat

VARIABLES
    queue,        \* Redis list queue_key; Head is the end BRPOPLPUSH takes from
    processing,   \* Redis list processing_key, as occurrences of each node id
    results,      \* Redis hash results_key
    ttlArmed,     \* results_key has a time to live
    status,       \* node_id -> status, as the status service holds it
    batch,        \* batch[s]: selected nodes that s has still to push
    pushed,       \* pushed[s]: the node s pushed and has not yet marked READY
    pc,           \* pc[w]: where worker w is between pop and its next pop
    item,         \* item[w]: the node id w popped
    rounds,       \* calls of get_ready_nodes so far
    crashes,      \* crashes so far
    completedOnce,\* history: nodes that were ever reported COMPLETED
    recorded,     \* history: nodes whose result was ever stored
    enqueued      \* history: nodes that were ever pushed

redis == <<queue, processing, results, ttlArmed>>
scheduler == <<batch, pushed, rounds>>
worker == <<pc, item>>
history == <<completedOnce, recorded, enqueued>>
vars == <<redis, status, scheduler, worker, crashes, history>>

WorkerSteps == {"idle", "run", "lrem", "hset", "expire"}

TypeOK ==
    /\ queue \in Seq(Nodes)
    /\ processing \in [Nodes -> Nat]
    /\ results \in [Nodes -> Results \cup {NoResult}]
    /\ ttlArmed \in BOOLEAN
    /\ status \in [Nodes -> StatusValues]
    /\ batch \in [Schedulers -> SUBSET Nodes]
    /\ pushed \in [Schedulers -> Nodes \cup {NoNode}]
    /\ pc \in [Workers -> WorkerSteps]
    /\ item \in [Workers -> Nodes \cup {NoNode}]
    /\ \A w \in Workers : (pc[w] = "idle") <=> (item[w] = NoNode)
    /\ rounds \in 0 .. MaxRounds
    /\ crashes \in 0 .. MaxCrashes
    /\ completedOnce \in SUBSET Nodes
    /\ recorded \in SUBSET Nodes
    /\ enqueued \in SUBSET Nodes

Init ==
    /\ queue = <<>>
    /\ processing = [n \in Nodes |-> 0]
    /\ results = [n \in Nodes |-> NoResult]
    /\ ttlArmed = FALSE
    /\ status \in [Nodes -> InitialStates]
    /\ batch = [s \in Schedulers |-> {}]
    /\ pushed = [s \in Schedulers |-> NoNode]
    /\ pc = [w \in Workers |-> "idle"]
    /\ item = [w \in Workers |-> NoNode]
    /\ rounds = 0
    /\ crashes = 0
    /\ completedOnce = {}
    /\ recorded = {}
    /\ enqueued = {}
-----------------------------------------------------------------------------
(* The Redis commands the repository issues.  Names ending in _Bug are     *)
(* faulty variants of the definition that follows them: no specification   *)
(* uses them, they show that the properties notice such a fault.           *)

\* LPUSH queue_key
LPush(n) == queue' = Append(queue, n)

\* A plain BRPOP: what a worker holds is nowhere in Redis.
BRPop_Bug(n) ==
    /\ queue # <<>>
    /\ n = Head(queue)
    /\ queue' = Tail(queue)
    /\ UNCHANGED processing

\* BRPOPLPUSH queue_key processing_key: one command moves the item.
BRPopLPush(n) ==
    /\ queue # <<>>
    /\ n = Head(queue)
    /\ queue' = Tail(queue)
    /\ processing' = [processing EXCEPT ![n] = @ + 1]

\* The entry is looked up in another form than it was pushed in.
LRemMiss_Bug(n) == UNCHANGED processing

\* LREM processing_key 0 n removes every occurrence and returns their number.
LRem(n) == processing' = [processing EXCEPT ![n] = 0]

\* HSET results_key n r; the hash keeps the time to live it had.
HSet(n, r) == results' = [results EXCEPT ![n] = r]
-----------------------------------------------------------------------------
(* Schedulers.                                                             *)

PendingStates == {"NONE", "PENDING", "READY"}
\* A dependency counts once it was queued.
CompletedStates_Bug == {"COMPLETED", "READY"}
\* Every status in which a node is over counts.
TerminalStates_Bug == {"COMPLETED", "FAILED"}
CompletedStates == {"COMPLETED"}

\* ReadyNodeSelector.get_ready_nodes on the node_status_map st.
ReadyNodes(st) ==
    {n \in Nodes : /\ st[n] \in PendingStates
                   /\ \A d \in Deps[n] : st[d] \in CompletedStates}

\* The list enqueue_ready_nodes iterates is in topological order.
IsFirst(n, S) == n \in S /\ \A m \in S : Rank[n] <= Rank[m]

Idle(s) == batch[s] = {} /\ pushed[s] = NoNode

\* get_ready_nodes reads the statuses once; the list it returns is used later.
GetReadyNodes(s) ==
    /\ Idle(s)
    /\ rounds < MaxRounds
    /\ rounds' = rounds + 1
    /\ batch' = [batch EXCEPT ![s] = ReadyNodes(status)]
    /\ UNCHANGED <<redis, status, pushed, worker, crashes, history>>

\* enqueue_ready_nodes, first call of the loop body: push_fn(node.node_id).
PushReady(s) ==
    /\ pushed[s] = NoNode
    /\ \E n \in Nodes :
           /\ IsFirst(n, batch[s])
           /\ LPush(n)
           /\ batch' = [batch EXCEPT ![s] = @ \ {n}]
           /\ pushed' = [pushed EXCEPT ![s] = n]
           /\ enqueued' = enqueued \cup {n}
    /\ UNCHANGED <<processing, results, ttlArmed, status, rounds, worker,
                   crashes, completedOnce, recorded>>

\* enqueue_ready_nodes, second call: update_status_fn(node.node_id, "READY").
\* Nothing looks at the status the node has by now.
MarkReady(s) ==
    /\ pushed[s] # NoNode
    /\ status' = [status EXCEPT ![pushed[s]] = "READY"]
    /\ pushed' = [pushed EXCEPT ![s] = NoNode]
    /\ UNCHANGED <<redis, batch, rounds, worker, crashes, history>>

\* The process dies, or a call raises: the rest of the list is not enqueued.
SchedulerCrash(s) ==
    /\ ~Idle(s)
    /\ crashes < MaxCrashes
    /\ crashes' = crashes + 1
    /\ batch' = [batch EXCEPT ![s] = {}]
    /\ pushed' = [pushed EXCEPT ![s] = NoNode]
    /\ UNCHANGED <<redis, status, rounds, worker, history>>
-----------------------------------------------------------------------------
(* Workers.                                                                *)

Pop(w) ==
    /\ pc[w] = "idle"
    /\ \E n \in Nodes :
          /\ BRPopLPush(n)
          /\ item' = [item EXCEPT ![w] = n]
    /\ pc' = [pc EXCEPT ![w] = "run"]
    /\ UNCHANGED <<results, ttlArmed, status, scheduler, crashes, history>>

\* The time limit of a blocking pop on an empty queue: it returns None.
PopTimeout(w) ==
    /\ pc[w] = "idle"
    /\ queue = <<>>
    /\ UNCHANGED vars

\* complete_node, first call: update_status_fn(node_id, "COMPLETED").
ReportCompleted(w) ==
    /\ pc[w] = "run"
    /\ status' = [status EXCEPT ![item[w]] = "COMPLETED"]
    /\ completedOnce' = completedOnce \cup {item[w]}
    /\ pc' = [pc EXCEPT ![w] = "lrem"]
    /\ UNCHANGED <<redis, scheduler, item, crashes, recorded, enqueued>>

\* The test of `removed` is inverted.
RemoveProcessing_Bug(w) ==
    /\ pc[w] = "lrem"
    /\ LRem(item[w])
    /\ \/ /\ processing[item[w]] = 0
          /\ pc' = [pc EXCEPT ![w] = "hset"]
          /\ UNCHANGED item
       \/ /\ processing[item[w]] > 0
          /\ pc' = [pc EXCEPT ![w] = "idle"]
          /\ item' = [item EXCEPT ![w] = NoNode]
    /\ UNCHANGED <<queue, results, ttlArmed, status, scheduler, crashes, history>>

\* complete: `removed = lrem(...)`, and what the `if removed` decides: without
\* a processing entry the result is not stored.
RemoveProcessing(w) ==
    /\ pc[w] = "lrem"
    /\ LRem(item[w])
    /\ \/ /\ processing[item[w]] > 0
          /\ pc' = [pc EXCEPT ![w] = "hset"]
          /\ UNCHANGED item
       \/ /\ processing[item[w]] = 0
          /\ pc' = [pc EXCEPT ![w] = "idle"]
          /\ item' = [item EXCEPT ![w] = NoNode]
    /\ UNCHANGED <<queue, results, ttlArmed, status, scheduler, crashes, history>>

\* complete: hset(results_key, work_id, payload).
RecordResult(w) ==
    /\ pc[w] = "hset"
    /\ \E r \in Results : HSet(item[w], r)
    /\ recorded' = recorded \cup {item[w]}
    /\ pc' = [pc EXCEPT ![w] = "expire"]
    /\ UNCHANGED <<queue, processing, ttlArmed, status, scheduler, item,
                   crashes, completedOnce, enqueued>>

\* complete: expire(results_key, ttl) on the whole hash; returns True.
SetExpiry(w) ==
    /\ pc[w] = "expire"
    /\ ttlArmed' = (\E n \in Nodes : results[n] # NoResult)
    /\ pc' = [pc EXCEPT ![w] = "idle"]
    /\ item' = [item EXCEPT ![w] = NoNode]
    /\ UNCHANGED <<queue, processing, results, status, scheduler, crashes, history>>

\* The process dies, or a call raises: between lrem and hset json.dumps does on a
\* result it cannot serialise.
WorkerCrash(w) ==
    /\ pc[w] # "idle"
    /\ crashes < MaxCrashes
    /\ crashes' = crashes + 1
    /\ pc' = [pc EXCEPT ![w] = "idle"]
    /\ item' = [item EXCEPT ![w] = NoNode]
    /\ UNCHANGED <<redis, status, scheduler, history>>

\* Redis drops the key when its time to live ends.
ResultsExpire ==
    /\ ttlArmed
    /\ results' = [n \in Nodes |-> NoResult]
    /\ ttlArmed' = FALSE
    /\ UNCHANGED <<queue, processing, status, scheduler, worker, crashes, history>>
-----------------------------------------------------------------------------
SchedulerStep(s) ==
    GetReadyNodes(s) \/ PushReady(s) \/ MarkReady(s) \/ SchedulerCrash(s)

WorkerStep(w) ==
    \/ Pop(w) \/ PopTimeout(w) \/ ReportCompleted(w) \/ RemoveProcessing(w)
    \/ RecordResult(w) \/ SetExpiry(w) \/ WorkerCrash(w)

Next ==
    \/ \E s \in Schedulers : SchedulerStep(s)
    \/ \E w \in Workers : WorkerStep(w)
    \/ ResultsExpire

Spec == Init /\ [][Next]_vars

\* A consumer loops over pop and complete_node: none of its steps waits for
\* another process once the queue holds an item.
Fairness ==
    /\ WF_vars(\E w \in Workers : Pop(w))
    /\ \A w \in Workers : /\ WF_vars(ReportCompleted(w))
                          /\ WF_vars(RemoveProcessing(w))
                          /\ WF_vars(RecordResult(w))
                          /\ WF_vars(SetExpiry(w))

FairSpec == Spec /\ Fairness
-----------------------------------------------------------------------------
(* Properties.                                                             *)

QueuedNodes == {queue[i] : i \in 1 .. Len(queue)}

\* Some process or Redis has node n in hand, or it was completed before.
Active(n) ==
    \/ n \in QueuedNodes
    \/ processing[n] > 0
    \/ \E s \in Schedulers : n \in batch[s]
    \/ \E w \in Workers : item[w] = n
    \/ n \in completedOnce

\* A node that is selected, queued, in flight or executing has only upstream
\* nodes that completed at least once, whatever the schedulers' stale lists,
\* duplicates and crashes did to the statuses since it was selected.
DependencyOrder ==
    \A n \in Nodes : Active(n) => Deps[n] \subseteq completedOnce

\* A worker that stops takes nothing out of Redis with it: a node that was
\* pushed waits in the queue, has an entry in the processing list, or was
\* completed.
NoSilentLoss ==
    \A n \in enqueued : n \in QueuedNodes \/ processing[n] > 0 \/ n \in completedOnce

\* Workers on node n that still count on a processing entry.
Holders(n) == {w \in Workers : item[w] = n /\ pc[w] \in {"run", "lrem"}}

\* The processing list holds no more entries of a node than workers run it,
\* except one for every crash: nothing piles up there in normal operation.
ProcessingBounded ==
    \A n \in Nodes : processing[n] <= Cardinality(Holders(n)) + crashes

\* Workers that are about to store the result of n.
Storing(n) == {w \in Workers : item[w] = n /\ pc[w] = "hset"}

\* A completed node whose result was never stored can still get it: its entry
\* is in the processing list, or a worker is about to store the result.  Two
\* workers that complete the same node must not each leave it to the other.
NoResultLost ==
    \A n \in completedOnce \ recorded : processing[n] > 0 \/ Storing(n) # {}

\* Once pushed, a node gets its result as long as no worker stops.
QueuedWorkRecorded ==
    \A n \in Nodes : (n \in QueuedNodes) ~> (n \in recorded)

Abstract == INSTANCE DependencyExecution WITH completed <- completedOnce

\* The work queue implements the dependency-ordered execution it stands for.
ImplementsAbstract == Abstract!Spec
=============================================================================
