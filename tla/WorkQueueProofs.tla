--------------------------- MODULE WorkQueueProofs ---------------------------
(***************************************************************************)
(* Proofs about WorkQueue for every DAG and every number of schedulers,    *)
(* workers, rounds and crashes.                                            *)
(***************************************************************************)
EXTENDS WorkQueue, SequenceTheorems, FiniteSetTheorems, TLAPS

\* LPUSH adds its item to the nodes in the queue.
LEMMA QueuedAfterPush ==
    ASSUME queue \in Seq(Nodes), NEW n \in Nodes, queue' = Append(queue, n)
    PROVE  QueuedNodes' = QueuedNodes \cup {n}
<1>1. /\ Len(queue) \in Nat /\ Len(queue') = Len(queue) + 1 /\ queue'[Len(queue) + 1] = n
      /\ \A i \in 1 .. Len(queue) : queue'[i] = queue[i]
  BY AppendProperties, LenProperties
<1>2. \A i \in 1 .. Len(queue') : i \in 1 .. Len(queue) \/ i = Len(queue')
  BY <1>1
<1>3. \A i \in 1 .. Len(queue) : i \in 1 .. Len(queue')
  BY <1>1
<1>4. Len(queue') \in 1 .. Len(queue')
  BY <1>1
<1>5. QED BY <1>1, <1>2, <1>3, <1>4 DEF QueuedNodes

\* BRPOPLPUSH takes one occurrence of its item from the queue.
LEMMA QueuedAfterPop ==
    ASSUME queue \in Seq(Nodes), NEW n \in Nodes, BRPopLPush(n)
    PROVE  QueuedNodes = {n} \cup QueuedNodes'
<1>1. queue # <<>> /\ n = Head(queue) /\ queue' = Tail(queue)
  BY DEF BRPopLPush
<1>2. /\ Len(queue) \in Nat \ {0} /\ queue[1] = n
      /\ Len(queue') = Len(queue) - 1 /\ \A i \in 1 .. Len(queue') : queue'[i] = queue[i + 1]
  BY <1>1, HeadTailProperties
<1>3. \A i \in 2 .. Len(queue) : i - 1 \in 1 .. Len(queue') /\ queue'[i - 1] = queue[i]
  BY <1>2
<1>4. \A i \in 1 .. Len(queue') : i + 1 \in 1 .. Len(queue)
  BY <1>2
<1>5. 1 \in 1 .. Len(queue) /\ \A i \in 1 .. Len(queue) : i = 1 \/ i \in 2 .. Len(queue)
  BY <1>2
<1>6. QED BY <1>2, <1>3, <1>4, <1>5 DEF QueuedNodes

-----------------------------------------------------------------------------
LEMMA TypeInit == Init => TypeOK
<1> SUFFICES ASSUME Init PROVE TypeOK
  OBVIOUS
<1>1. queue \in Seq(Nodes) /\ processing \in [Nodes -> Nat]
  BY DEF Init
<1>2. status \in [Nodes -> StatusValues]
  BY ConstantAssumption DEF ConstantAssumption, Init
<1>3. rounds \in 0 .. MaxRounds /\ crashes \in 0 .. MaxCrashes
  BY ConstantAssumption DEF ConstantAssumption, Init
<1>4. \A w \in Workers : (pc[w] = "idle") <=> (item[w] = NoNode)
  BY DEF Init
<1>5. QED
  BY <1>1, <1>2, <1>3, <1>4 DEF Init, TypeOK, WorkerSteps

LEMMA TypeStep == TypeOK /\ [Next]_vars => TypeOK'
<1> SUFFICES ASSUME TypeOK, [Next]_vars PROVE TypeOK'
  OBVIOUS
<1> USE ConstantAssumption DEF ConstantAssumption, TypeOK, WorkerSteps, StatusValues, vars, redis, scheduler, worker, history
<1>1. ASSUME NEW s \in Schedulers, GetReadyNodes(s) PROVE TypeOK'
  BY <1>1 DEF GetReadyNodes, ReadyNodes
<1>2. ASSUME NEW s \in Schedulers, PushReady(s) PROVE TypeOK'
  BY <1>2 DEF PushReady, LPush
<1>3. ASSUME NEW s \in Schedulers, MarkReady(s) PROVE TypeOK'
  BY <1>3 DEF MarkReady
<1>4. ASSUME NEW s \in Schedulers, SchedulerCrash(s) PROVE TypeOK'
  BY <1>4 DEF SchedulerCrash
<1>5. ASSUME NEW w \in Workers, Pop(w) PROVE TypeOK'
  BY <1>5 DEF Pop, BRPopLPush
<1>6. ASSUME NEW w \in Workers, PopTimeout(w) PROVE TypeOK'
  BY <1>6 DEF PopTimeout
<1>7. ASSUME NEW w \in Workers, ReportCompleted(w) PROVE TypeOK'
  BY <1>7 DEF ReportCompleted
<1>8. ASSUME NEW w \in Workers, RemoveProcessing(w) PROVE TypeOK'
  BY <1>8 DEF RemoveProcessing, LRem
<1>9. ASSUME NEW w \in Workers, RecordResult(w) PROVE TypeOK'
  BY <1>9 DEF RecordResult, HSet
<1>10. ASSUME NEW w \in Workers, SetExpiry(w) PROVE TypeOK'
  BY <1>10 DEF SetExpiry
<1>11. ASSUME NEW w \in Workers, WorkerCrash(w) PROVE TypeOK'
  BY <1>11 DEF WorkerCrash
<1>12. ASSUME ResultsExpire PROVE TypeOK'
  BY <1>12 DEF ResultsExpire
<1>13. CASE UNCHANGED vars
  BY <1>13
<1>14. QED
  BY <1>1, <1>2, <1>3, <1>4, <1>5, <1>6, <1>7, <1>8, <1>9, <1>10, <1>11, <1>12, <1>13
     DEF Next, SchedulerStep, WorkerStep

\* Every variable of the work queue keeps its type (the Redis keys, the status
\* map, and the lists and items the processes have in hand).
THEOREM TypeCorrect == Spec => []TypeOK
BY TypeInit, TypeStep, PTL DEF Spec
-----------------------------------------------------------------------------
\* A COMPLETED status was written by complete_node: no other call writes it.
CompletedWasReported == \A n \in Nodes : status[n] = "COMPLETED" => n \in completedOnce

OrderInv == TypeOK /\ CompletedWasReported /\ DependencyOrder

\* A step may make a node active only if its upstream nodes have completed, and
\* it forgets no completed node: then DependencyOrder is kept.
LEMMA ActiveStep ==
    ASSUME DependencyOrder,
           completedOnce \subseteq completedOnce',
           \A n \in Nodes : Active(n)' => Active(n) \/ Deps[n] \subseteq completedOnce
    PROVE  DependencyOrder'
BY DEF DependencyOrder

LEMMA OrderInvStep == OrderInv /\ [Next]_vars => OrderInv'
<1> SUFFICES ASSUME OrderInv, [Next]_vars PROVE OrderInv'
  OBVIOUS
<1>t. TypeOK'
  BY TypeStep DEF OrderInv
<1> DEFINE Goal == CompletedWasReported' /\ DependencyOrder'
<1>1. ASSUME NEW s \in Schedulers, GetReadyNodes(s) PROVE Goal
  <2>1. \A n \in ReadyNodes(status) : n \in Nodes /\ Deps[n] \subseteq completedOnce
    BY DagAssumption DEF DagAssumption, ReadyNodes, CompletedStates, OrderInv, CompletedWasReported
  <2>2. \A n \in Nodes : Active(n)' => Active(n) \/ Deps[n] \subseteq completedOnce
    BY <1>1, <2>1 DEF GetReadyNodes, Active, QueuedNodes, redis, worker, history, OrderInv, TypeOK
  <2>3. CompletedWasReported' /\ completedOnce' = completedOnce
    BY <1>1 DEF GetReadyNodes, history, OrderInv, CompletedWasReported
  <2>4. QED BY <2>2, <2>3, ActiveStep DEF OrderInv
<1>2. ASSUME NEW s \in Schedulers, PushReady(s) PROVE Goal
  <2>1. PICK n \in Nodes : /\ n \in batch[s]
                           /\ queue' = Append(queue, n)
                           /\ batch' = [batch EXCEPT ![s] = @ \ {n}]
    BY <1>2 DEF PushReady, IsFirst, LPush
  <2>2. QueuedNodes' = QueuedNodes \cup {n}
    BY <2>1, QueuedAfterPush DEF OrderInv, TypeOK
  <2>3. \A m \in Nodes : Active(m)' => Active(m)
    BY <1>2, <2>1, <2>2 DEF PushReady, Active, worker, OrderInv, TypeOK
  <2>4. CompletedWasReported' /\ completedOnce' = completedOnce
    BY <1>2 DEF PushReady, OrderInv, CompletedWasReported
  <2>5. QED BY <2>3, <2>4, ActiveStep DEF OrderInv
<1>3. ASSUME NEW s \in Schedulers, MarkReady(s) PROVE Goal
  <2>1. \A n \in Nodes : Active(n)' => Active(n)
    BY <1>3 DEF MarkReady, Active, QueuedNodes, redis, worker, history
  <2>2. CompletedWasReported' /\ completedOnce' = completedOnce
    BY <1>3 DEF MarkReady, history, OrderInv, CompletedWasReported, TypeOK
  <2>3. QED BY <2>1, <2>2, ActiveStep DEF OrderInv
<1>4. ASSUME NEW s \in Schedulers, SchedulerCrash(s) PROVE Goal
  <2>1. \A n \in Nodes : Active(n)' => Active(n)
    BY <1>4 DEF SchedulerCrash, Active, QueuedNodes, redis, worker, history, OrderInv, TypeOK
  <2>2. CompletedWasReported' /\ completedOnce' = completedOnce
    BY <1>4 DEF SchedulerCrash, history, OrderInv, CompletedWasReported
  <2>3. QED BY <2>1, <2>2, ActiveStep DEF OrderInv
<1>5. ASSUME NEW w \in Workers, Pop(w) PROVE Goal
  <2>1. PICK n \in Nodes : BRPopLPush(n) /\ item' = [item EXCEPT ![w] = n]
    BY <1>5 DEF Pop
  <2>2. QueuedNodes = {n} \cup QueuedNodes'
    BY <2>1, QueuedAfterPop DEF OrderInv, TypeOK
  <2>3. \A m \in Nodes : Active(m)' => Active(m)
    BY <1>5, <2>1, <2>2 DEF Pop, BRPopLPush, Active, scheduler, history, OrderInv, TypeOK
  <2>4. CompletedWasReported' /\ completedOnce' = completedOnce
    BY <1>5 DEF Pop, history, OrderInv, CompletedWasReported
  <2>5. QED BY <2>3, <2>4, ActiveStep DEF OrderInv
<1>6. ASSUME NEW w \in Workers, ReportCompleted(w) PROVE Goal
  <2>1. item[w] \in Nodes
    BY <1>6 DEF ReportCompleted, OrderInv, TypeOK
  <2>2. \A n \in Nodes : Active(n)' => Active(n)
    BY <1>6, <2>1 DEF ReportCompleted, Active, QueuedNodes, redis, scheduler
  <2>3. CompletedWasReported' /\ completedOnce \subseteq completedOnce'
    BY <1>6, <2>1 DEF ReportCompleted, OrderInv, CompletedWasReported, TypeOK
  <2>4. QED BY <2>2, <2>3, ActiveStep DEF OrderInv
<1>7. ASSUME NEW w \in Workers, RemoveProcessing(w) PROVE Goal
  <2>1. \A n \in Nodes : Active(n)' => Active(n)
    BY <1>7, ConstantAssumption
       DEF RemoveProcessing, LRem, Active, QueuedNodes, scheduler, history, OrderInv, TypeOK,
           ConstantAssumption
  <2>2. CompletedWasReported' /\ completedOnce' = completedOnce
    BY <1>7 DEF RemoveProcessing, history, OrderInv, CompletedWasReported
  <2>3. QED BY <2>1, <2>2, ActiveStep DEF OrderInv
<1>8. ASSUME NEW w \in Workers, RecordResult(w) PROVE Goal
  <2>1. \A n \in Nodes : Active(n)' => Active(n)
    BY <1>8 DEF RecordResult, Active, QueuedNodes, scheduler
  <2>2. CompletedWasReported' /\ completedOnce' = completedOnce
    BY <1>8 DEF RecordResult, OrderInv, CompletedWasReported
  <2>3. QED BY <2>1, <2>2, ActiveStep DEF OrderInv
<1>9. ASSUME NEW w \in Workers, SetExpiry(w) \/ WorkerCrash(w) PROVE Goal
  <2>1. \A n \in Nodes : Active(n)' => Active(n)
    BY <1>9, ConstantAssumption
       DEF SetExpiry, WorkerCrash, Active, QueuedNodes, redis, scheduler, history,
           OrderInv, TypeOK, ConstantAssumption
  <2>2. CompletedWasReported' /\ completedOnce' = completedOnce
    BY <1>9 DEF SetExpiry, WorkerCrash, history, OrderInv, CompletedWasReported
  <2>3. QED BY <2>1, <2>2, ActiveStep DEF OrderInv
<1>10. ASSUME ResultsExpire PROVE Goal
  <2>1. \A n \in Nodes : Active(n)' => Active(n)
    BY <1>10 DEF ResultsExpire, Active, QueuedNodes, scheduler, worker, history
  <2>2. CompletedWasReported' /\ completedOnce' = completedOnce
    BY <1>10 DEF ResultsExpire, history, OrderInv, CompletedWasReported
  <2>3. QED BY <2>1, <2>2, ActiveStep DEF OrderInv
<1>11. ASSUME UNCHANGED vars PROVE Goal
  BY <1>11 DEF vars, redis, scheduler, worker, history, OrderInv, CompletedWasReported,
               DependencyOrder, Active, QueuedNodes
<1>12. QED
  BY <1>t, <1>1, <1>2, <1>3, <1>4, <1>5, <1>6, <1>7, <1>8, <1>9, <1>10, <1>11
     DEF Next, SchedulerStep, WorkerStep, PopTimeout, OrderInv

\* No stale list, duplicate or crash lets a node run before its upstream nodes
\* completed (ReadyNodeSelector.get_ready_nodes against complete_node).
THEOREM DependencyOrderHolds == Spec => []DependencyOrder
<1>1. Init => OrderInv
  <2>1. Init => TypeOK
    BY TypeInit
  <2>2. Init => CompletedWasReported
    BY ConstantAssumption DEF ConstantAssumption, Init, CompletedWasReported
  <2>3. Init => \A n \in Nodes : ~Active(n)
    BY ConstantAssumption DEF ConstantAssumption, Init, Active, QueuedNodes
  <2>4. QED BY <2>1, <2>2, <2>3 DEF OrderInv, DependencyOrder
<1>2. OrderInv => DependencyOrder
  BY DEF OrderInv
<1>3. QED
  BY <1>1, <1>2, OrderInvStep, PTL DEF Spec
-----------------------------------------------------------------------------
\* What a worker removes from the processing list, it has reported COMPLETED.
ReportedBeforeRemoved ==
    \A w \in Workers : pc[w] \in {"lrem", "hset", "expire"} => item[w] \in completedOnce

LossInv == TypeOK /\ ReportedBeforeRemoved /\ NoSilentLoss

LEMMA LossInvStep == LossInv /\ [Next]_vars => LossInv'
<1> SUFFICES ASSUME LossInv, [Next]_vars PROVE LossInv'
  OBVIOUS
<1>t. TypeOK'
  BY TypeStep DEF LossInv
<1> DEFINE Goal == ReportedBeforeRemoved' /\ NoSilentLoss'
<1> USE DEF LossInv, ReportedBeforeRemoved, NoSilentLoss
<1>1. ASSUME NEW s \in Schedulers, GetReadyNodes(s) PROVE Goal
  BY <1>1 DEF GetReadyNodes, QueuedNodes, redis, worker, history
<1>2. ASSUME NEW s \in Schedulers, PushReady(s) PROVE Goal
  <2>1. PICK n \in Nodes : queue' = Append(queue, n) /\ enqueued' = enqueued \cup {n}
    BY <1>2 DEF PushReady, LPush
  <2>2. QueuedNodes' = QueuedNodes \cup {n}
    BY <2>1, QueuedAfterPush DEF TypeOK
  <2>3. QED BY <1>2, <2>1, <2>2 DEF PushReady, worker
<1>3. ASSUME NEW s \in Schedulers, MarkReady(s) PROVE Goal
  BY <1>3 DEF MarkReady, QueuedNodes, redis, worker, history
<1>4. ASSUME NEW s \in Schedulers, SchedulerCrash(s) PROVE Goal
  BY <1>4 DEF SchedulerCrash, QueuedNodes, redis, worker, history
<1>5. ASSUME NEW w \in Workers, Pop(w) PROVE Goal
  <2>1. PICK n \in Nodes : BRPopLPush(n) /\ item' = [item EXCEPT ![w] = n]
    BY <1>5 DEF Pop
  <2>2. QueuedNodes = {n} \cup QueuedNodes'
    BY <2>1, QueuedAfterPop DEF TypeOK
  <2>3. NoSilentLoss'
    BY <1>5, <2>1, <2>2 DEF Pop, BRPopLPush, history, TypeOK
  <2>4. ReportedBeforeRemoved'
    BY <1>5, <2>1 DEF Pop, history, TypeOK
  <2>5. QED BY <2>3, <2>4
<1>6. ASSUME NEW w \in Workers, ReportCompleted(w) PROVE Goal
  BY <1>6 DEF ReportCompleted, QueuedNodes, redis, TypeOK
<1>7. ASSUME NEW w \in Workers, RemoveProcessing(w) PROVE Goal
  <2>1. item[w] \in completedOnce /\ item[w] \in Nodes
    BY <1>7 DEF RemoveProcessing, TypeOK
  <2>2. NoSilentLoss'
    BY <1>7, <2>1 DEF RemoveProcessing, LRem, QueuedNodes, history, TypeOK
  <2>3. ReportedBeforeRemoved'
    BY <1>7 DEF RemoveProcessing, history, TypeOK
  <2>4. QED BY <2>2, <2>3
<1>8. ASSUME NEW w \in Workers, RecordResult(w) PROVE Goal
  BY <1>8 DEF RecordResult, QueuedNodes, TypeOK
<1>9. ASSUME NEW w \in Workers, SetExpiry(w) \/ WorkerCrash(w) PROVE Goal
  <2>1. /\ pc' = [pc EXCEPT ![w] = "idle"]
        /\ item' = [item EXCEPT ![w] = NoNode]
        /\ UNCHANGED <<queue, processing, history>>
    BY <1>9 DEF SetExpiry, WorkerCrash, redis
  <2>2. ReportedBeforeRemoved'
    BY <2>1 DEF history, TypeOK
  <2>3. NoSilentLoss'
    BY <2>1 DEF history, QueuedNodes
  <2>4. QED BY <2>2, <2>3
<1>10. ASSUME ResultsExpire PROVE Goal
  BY <1>10 DEF ResultsExpire, QueuedNodes, worker, history
<1>11. ASSUME UNCHANGED vars PROVE Goal
  BY <1>11 DEF vars, redis, worker, history, QueuedNodes
<1>12. QED
  BY <1>t, <1>1, <1>2, <1>3, <1>4, <1>5, <1>6, <1>7, <1>8, <1>9, <1>10, <1>11
     DEF Next, SchedulerStep, WorkerStep, PopTimeout

\* A node that was pushed is never forgotten by Redis before it completes, even
\* when workers stop between any two commands (pop uses BRPOPLPUSH).
THEOREM NoSilentLossHolds == Spec => []NoSilentLoss
<1>1. Init => LossInv
  BY TypeInit DEF LossInv, Init, ReportedBeforeRemoved, NoSilentLoss
<1>2. LossInv => NoSilentLoss
  BY DEF LossInv
<1>3. QED
  BY <1>1, <1>2, LossInvStep, PTL DEF Spec
-----------------------------------------------------------------------------
\* Without crashes, a worker whose processing entry another worker removed has
\* not lost the result of its node: it is stored, or the other one will.
EntryOrResult ==
    \A w \in Workers :
        pc[w] \in {"run", "lrem"} =>
            \/ processing[item[w]] > 0
            \/ item[w] \in recorded
            \/ Storing(item[w]) # {}

ResultInv == TypeOK /\ crashes = 0 /\ EntryOrResult /\ NoResultLost

LEMMA ResultInvStep ==
    ASSUME MaxCrashes = 0
    PROVE  ResultInv /\ [Next]_vars => ResultInv'
<1> SUFFICES ASSUME ResultInv, [Next]_vars PROVE ResultInv'
  OBVIOUS
<1>t. TypeOK'
  BY TypeStep DEF ResultInv
<1> DEFINE Goal == crashes' = 0 /\ EntryOrResult' /\ NoResultLost'
<1> USE DEF ResultInv, EntryOrResult, NoResultLost, Storing
<1>1. ASSUME NEW s \in Schedulers, GetReadyNodes(s) PROVE Goal
  BY <1>1 DEF GetReadyNodes, redis, worker, history
<1>2. ASSUME NEW s \in Schedulers, PushReady(s) PROVE Goal
  BY <1>2 DEF PushReady, worker
<1>3. ASSUME NEW s \in Schedulers, MarkReady(s) PROVE Goal
  BY <1>3 DEF MarkReady, redis, worker, history
<1>4. ASSUME NEW w \in Workers, Pop(w) PROVE Goal
  <2>1. PICK n \in Nodes : BRPopLPush(n) /\ item' = [item EXCEPT ![w] = n]
    BY <1>4 DEF Pop
  <2>2. \A m \in Nodes : processing'[m] >= processing[m] /\ Storing(m) \subseteq Storing(m)'
    BY <1>4, <2>1 DEF Pop, BRPopLPush, TypeOK
  <2>3. processing'[n] > 0
    BY <2>1 DEF BRPopLPush, TypeOK
  <2>4. NoResultLost'
    <3>1. SUFFICES ASSUME NEW m \in completedOnce' \ recorded'
                   PROVE  processing'[m] > 0 \/ Storing(m)' # {}
      BY DEF NoResultLost
    <3>2. m \in Nodes /\ (processing[m] > 0 \/ Storing(m) # {})
      BY <1>4 DEF Pop, history, TypeOK
    <3>3. processing[m] \in Nat /\ processing'[m] \in Nat
      BY <3>2, TypeOK, <1>t DEF TypeOK
    <3>4. QED BY <2>2, <3>2, <3>3
  <2>5. EntryOrResult'
    <3>1. SUFFICES ASSUME NEW v \in Workers, pc'[v] \in {"run", "lrem"}
                   PROVE  (\/ processing[item[v]] > 0
                           \/ item[v] \in recorded
                           \/ Storing(item[v]) # {})'
      BY DEF EntryOrResult
    <3>2. CASE v = w
      BY <2>1, <2>3, <3>2 DEF TypeOK
    <3>3. CASE v # w
      <4>1. item'[v] = item[v] /\ pc'[v] = pc[v] /\ recorded' = recorded
        BY <1>4, <2>1, <3>3 DEF Pop, history, TypeOK
      <4>2. item[v] \in Nodes
        BY <3>1, <4>1 DEF TypeOK
      <4>3. processing[item[v]] \in Nat /\ processing'[item[v]] \in Nat
        BY <4>2, <1>t DEF TypeOK
      <4>4. \/ processing[item[v]] > 0
            \/ item[v] \in recorded
            \/ Storing(item[v]) # {}
        BY <3>1, <4>1
      <4>5. Storing(item[v]) \subseteq Storing(item[v])' /\ processing'[item[v]] >= processing[item[v]]
        BY <2>2, <4>1, <4>2
      <4>6. QED BY <4>1, <4>3, <4>4, <4>5
    <3>4. QED BY <3>2, <3>3
  <2>6. QED BY <1>4, <2>4, <2>5 DEF Pop
<1>5. ASSUME NEW w \in Workers, ReportCompleted(w) PROVE Goal
  <2>1. \A m \in Nodes : Storing(m)' = Storing(m)
    BY <1>5 DEF ReportCompleted, TypeOK
  <2>2. QED BY <1>5, <2>1 DEF ReportCompleted, redis, TypeOK
<1>6. ASSUME NEW w \in Workers, RemoveProcessing(w), processing[item[w]] > 0 PROVE Goal
  <2>1. item[w] \in Nodes
    BY <1>6 DEF RemoveProcessing, TypeOK
  <2>2. pc' = [pc EXCEPT ![w] = "hset"] /\ item' = item
    BY <1>6, <2>1 DEF RemoveProcessing, TypeOK
  <2>3. w \in Storing(item[w])' /\ \A m \in Nodes : Storing(m) \subseteq Storing(m)'
    BY <1>6, <2>2 DEF RemoveProcessing, TypeOK
  <2>4. \A m \in Nodes : processing'[m] = processing[m] \/ m = item[w]
    BY <1>6 DEF RemoveProcessing, LRem, TypeOK
  <2>5. QED BY <1>6, <2>1, <2>2, <2>3, <2>4 DEF RemoveProcessing, history, TypeOK
<1>7. ASSUME NEW w \in Workers, RemoveProcessing(w), ~(processing[item[w]] > 0) PROVE Goal
  <2>1. item[w] \in Nodes
    BY <1>7 DEF RemoveProcessing, TypeOK
  <2>2. processing' = processing
    BY <1>7, <2>1 DEF RemoveProcessing, LRem, TypeOK
  <2>3. pc' = [pc EXCEPT ![w] = "idle"] /\ item' = [item EXCEPT ![w] = NoNode]
    BY <1>7 DEF RemoveProcessing
  <2>4. \A m \in Nodes : Storing(m)' = Storing(m)
    BY <1>7, <2>3, ConstantAssumption DEF RemoveProcessing, TypeOK, ConstantAssumption
  <2>5. QED BY <1>7, <2>2, <2>3, <2>4 DEF RemoveProcessing, history, TypeOK
<1>8. ASSUME NEW w \in Workers, RecordResult(w) PROVE Goal
  <2>1. item[w] \in Nodes /\ recorded' = recorded \cup {item[w]}
    BY <1>8 DEF RecordResult, TypeOK
  <2>2. \A m \in Nodes \ {item[w]} : Storing(m)' = Storing(m)
    BY <1>8 DEF RecordResult, TypeOK
  <2>3. QED BY <1>8, <2>1, <2>2 DEF RecordResult, TypeOK
<1>9. ASSUME NEW w \in Workers, SetExpiry(w) PROVE Goal
  <2>1. \A m \in Nodes : Storing(m)' = Storing(m)
    BY <1>9, ConstantAssumption DEF SetExpiry, TypeOK, ConstantAssumption
  <2>2. QED BY <1>9, <2>1 DEF SetExpiry, history, TypeOK
<1>10. ASSUME ResultsExpire PROVE Goal
  BY <1>10 DEF ResultsExpire, worker, history
<1>11. ASSUME UNCHANGED vars PROVE Goal
  BY <1>11 DEF vars, redis, worker, history
<1>12. \A w \in Workers : ~WorkerCrash(w)
  BY DEF WorkerCrash
<1>13. \A s \in Schedulers : ~SchedulerCrash(s)
  BY DEF SchedulerCrash
<1>14. QED
  BY <1>t, <1>1, <1>2, <1>3, <1>4, <1>5, <1>6, <1>7, <1>8, <1>9, <1>10, <1>11, <1>12, <1>13
     DEF Next, SchedulerStep, WorkerStep, PopTimeout

\* When no process stops, every completed node has its result stored, is about
\* to have it stored, or still has the processing entry with which complete
\* stores it, however many workers complete the same node at once.
THEOREM NoResultLostHolds ==
    ASSUME MaxCrashes = 0
    PROVE  Spec => []NoResultLost
<1>1. Init => ResultInv
  BY TypeInit DEF ResultInv, Init, EntryOrResult, NoResultLost
<1>2. ResultInv => NoResultLost
  BY DEF ResultInv
<1>3. ResultInv /\ [Next]_vars => ResultInv'
  BY ResultInvStep
<1>4. QED
  BY <1>1, <1>2, <1>3, PTL DEF Spec
-----------------------------------------------------------------------------
ImplInv == OrderInv /\ LossInv

\* The work queue implements DependencyExecution: reporting COMPLETED completes a
\* node whose upstream nodes completed, HSET records the result of a completed
\* node, and every other step leaves the abstract state alone.
THEOREM Implementation == Spec => ImplementsAbstract
<1>1. Init => Abstract!Init
  BY DEF Init, Abstract!Init
<1>2. Init => ImplInv
  <2>1. Init => CompletedWasReported /\ \A n \in Nodes : ~Active(n)
    BY ConstantAssumption DEF ConstantAssumption, Init, CompletedWasReported, Active, QueuedNodes
  <2>2. QED
    BY <2>1, TypeInit
       DEF ImplInv, OrderInv, LossInv, Init, DependencyOrder, ReportedBeforeRemoved, NoSilentLoss
<1>3. ImplInv /\ [Next]_vars => ImplInv'
  BY OrderInvStep, LossInvStep DEF ImplInv
<1>4. ImplInv /\ [Next]_vars => [Abstract!Next]_Abstract!vars
  <2> SUFFICES ASSUME ImplInv, [Next]_vars PROVE [Abstract!Next]_Abstract!vars
    OBVIOUS
  <2>1. ASSUME NEW w \in Workers, ReportCompleted(w) PROVE [Abstract!Next]_Abstract!vars
    <3>1. item[w] \in Nodes /\ Deps[item[w]] \subseteq completedOnce
      BY <2>1 DEF ReportCompleted, ImplInv, OrderInv, TypeOK, DependencyOrder, Active
    <3>2. completedOnce' = completedOnce \cup {item[w]} /\ recorded' = recorded
      BY <2>1 DEF ReportCompleted
    <3>3. CASE item[w] \in completedOnce
      BY <3>2, <3>3 DEF Abstract!vars
    <3>4. CASE item[w] \notin completedOnce
      BY <3>1, <3>2, <3>4 DEF Abstract!Next, Abstract!Complete
    <3>5. QED BY <3>3, <3>4
  <2>2. ASSUME NEW w \in Workers, RecordResult(w) PROVE [Abstract!Next]_Abstract!vars
    <3>1. item[w] \in Nodes /\ item[w] \in completedOnce
      BY <2>2 DEF RecordResult, ImplInv, LossInv, ReportedBeforeRemoved, TypeOK
    <3>2. recorded' = recorded \cup {item[w]} /\ completedOnce' = completedOnce
      BY <2>2 DEF RecordResult
    <3>3. CASE item[w] \in recorded
      BY <3>2, <3>3 DEF Abstract!vars
    <3>4. CASE item[w] \notin recorded
      BY <3>1, <3>2, <3>4 DEF Abstract!Next, Abstract!Record
    <3>5. QED BY <3>3, <3>4
  <2>3. CASE UNCHANGED <<completedOnce, recorded>>
    BY <2>3 DEF Abstract!vars
  <2>4. QED
    BY <2>1, <2>2, <2>3
       DEF Next, SchedulerStep, WorkerStep, GetReadyNodes, PushReady, MarkReady, SchedulerCrash,
           Pop, PopTimeout, RemoveProcessing, SetExpiry, WorkerCrash, ResultsExpire, vars, history
<1>5. QED
  BY <1>1, <1>2, <1>3, <1>4, PTL DEF Spec, Abstract!Spec, ImplementsAbstract
-----------------------------------------------------------------------------
(* ProcessingBounded                                                       *)

BoundInv == TypeOK /\ ProcessingBounded

\* A step that leaves the entries, the holders of each node and the number of
\* crashes alone, or loses one holder by a crash, keeps the bound.
LEMMA HoldersStep ==
    ASSUME IsFiniteSet(Workers), BoundInv, TypeOK', NEW w \in Workers,
           UNCHANGED processing,
           \A n \in Nodes : Holders(n) \ {w} \subseteq Holders(n)',
           \/ crashes' = crashes + 1
           \/ crashes' = crashes /\ \A n \in Nodes : Holders(n)' = Holders(n)
    PROVE  ProcessingBounded'
<1> SUFFICES ASSUME NEW n \in Nodes
             PROVE  processing'[n] <= Cardinality(Holders(n)') + crashes'
  BY DEF ProcessingBounded
<1> DEFINE H == Holders(n)
           K == Holders(n)'
<1>1. /\ IsFiniteSet(H) /\ IsFiniteSet(K)
      /\ Cardinality(H) \in Nat /\ Cardinality(K) \in Nat
  <2>1. H \subseteq Workers /\ K \subseteq Workers
    BY DEF Holders
  <2>2. QED BY <2>1, FS_Subset, FS_CardinalityType
<1>2. processing[n] <= Cardinality(H) + crashes /\ processing[n] \in Nat /\ crashes \in Nat
  BY ConstantAssumption DEF ConstantAssumption, BoundInv, ProcessingBounded, TypeOK
<1>3. CASE crashes' = crashes + 1
  <2>1. H \ {w} \subseteq K
    OBVIOUS
  <2>2. Cardinality(H \ {w}) <= Cardinality(K) /\ Cardinality(H \ {w}) >= Cardinality(H) - 1
    <3> HIDE DEF H, K
    <3>1. Cardinality(H \ {w}) = IF w \in H THEN Cardinality(H) - 1 ELSE Cardinality(H)
      BY <1>1, FS_RemoveElement
    <3>2. Cardinality(H \ {w}) <= Cardinality(K)
      BY <1>1, <2>1, FS_Subset
    <3>3. QED BY <1>1, <3>1, <3>2
  <2>3. Cardinality(H \ {w}) \in Nat
    BY <1>1, FS_RemoveElement, FS_CardinalityType
  <2> HIDE DEF H, K
  <2>4. processing[n] <= Cardinality(K) + crashes'
    BY <1>1, <1>2, <1>3, <2>2, <2>3
  <2>5. QED BY <2>4 DEF K
<1>4. CASE crashes' = crashes /\ K = H
  BY <1>2, <1>4
<1>5. QED BY <1>3, <1>4

LEMMA BoundStep ==
    ASSUME IsFiniteSet(Workers), BoundInv, [Next]_vars
    PROVE  BoundInv'
<1> USE DEF BoundInv
<1>0. TypeOK'
  BY TypeStep
<1>1. ASSUME UNCHANGED <<processing, worker, crashes>> PROVE ProcessingBounded'
  BY <1>1 DEF ProcessingBounded, Holders, worker
<1>2. ASSUME NEW s \in Schedulers, SchedulerCrash(s) PROVE ProcessingBounded'
  <2>1. \A n \in Nodes : Holders(n)' = Holders(n)
    BY <1>2 DEF SchedulerCrash, Holders, worker
  <2>2. crashes \in Nat /\ crashes' = crashes + 1 /\ processing' = processing
    BY <1>2, ConstantAssumption DEF ConstantAssumption, SchedulerCrash, redis, TypeOK
  <2>3. \A n \in Nodes : Holders(n) \subseteq Workers
    BY DEF Holders
  <2>4. \A n \in Nodes : Cardinality(Holders(n)) \in Nat
    BY <2>3, FS_Subset, FS_CardinalityType
  <2>5. \A n \in Nodes : processing[n] \in Nat /\ processing[n] <= Cardinality(Holders(n)) + crashes
    BY DEF ProcessingBounded, TypeOK
  <2>6. \A n \in Nodes : processing[n] <= Cardinality(Holders(n)) + crashes'
    BY <2>2, <2>4, <2>5
  <2>7. QED
    BY <2>1, <2>2, <2>6 DEF ProcessingBounded
<1>3. ASSUME NEW w \in Workers, Pop(w) PROVE ProcessingBounded'
  <2>1. PICK n \in Nodes : /\ processing' = [processing EXCEPT ![n] = @ + 1]
                           /\ item' = [item EXCEPT ![w] = n]
    BY <1>3 DEF Pop, BRPopLPush
  <2>2. pc[w] = "idle" /\ item[w] = NoNode /\ pc' = [pc EXCEPT ![w] = "run"] /\ crashes' = crashes
    BY <1>3 DEF Pop, TypeOK
  <2>3. w \notin Holders(n) /\ Holders(n)' = Holders(n) \cup {w}
    BY <2>1, <2>2 DEF Holders, TypeOK
  <2>4. \A m \in Nodes : m # n => Holders(m)' = Holders(m)
    BY <2>1, <2>2, ConstantAssumption DEF ConstantAssumption, Holders, TypeOK
  <2>5. IsFiniteSet(Holders(n)) /\ Cardinality(Holders(n)) \in Nat
    <3>1. Holders(n) \subseteq Workers
      BY DEF Holders
    <3>2. QED BY <3>1, FS_Subset, FS_CardinalityType
  <2>6. Cardinality(Holders(n) \cup {w}) = Cardinality(Holders(n)) + 1
    BY <2>3, <2>5, FS_AddElement
  <2>7. processing[n] \in Nat /\ crashes \in Nat /\ processing[n] <= Cardinality(Holders(n)) + crashes
    BY ConstantAssumption DEF ConstantAssumption, ProcessingBounded, TypeOK
  <2>8. processing'[n] <= Cardinality(Holders(n) \cup {w}) + crashes
    BY <2>1, <2>5, <2>6, <2>7 DEF TypeOK
  <2>9. \A m \in Nodes : processing'[m] <= Cardinality(Holders(m)') + crashes'
    BY <2>1, <2>2, <2>3, <2>4, <2>8 DEF ProcessingBounded, TypeOK
  <2>10. QED BY <2>9 DEF ProcessingBounded
<1>4. ASSUME NEW w \in Workers, ReportCompleted(w) \/ RecordResult(w) \/ SetExpiry(w)
      PROVE  ProcessingBounded'
  <2>1. \A n \in Nodes : Holders(n)' = Holders(n)
    BY <1>4, ConstantAssumption
       DEF ConstantAssumption, ReportCompleted, RecordResult, SetExpiry, Holders, TypeOK
  <2>2. processing' = processing /\ crashes' = crashes
    BY <1>4 DEF ReportCompleted, RecordResult, SetExpiry, redis
  <2>3. QED BY <1>0, <2>1, <2>2, HoldersStep
<1>5. ASSUME NEW w \in Workers, RemoveProcessing(w) PROVE ProcessingBounded'
  <2>1. item[w] \in Nodes /\ processing' = [processing EXCEPT ![item[w]] = 0] /\ crashes' = crashes
    BY <1>5 DEF RemoveProcessing, LRem, TypeOK
  <2>2. \A n \in Nodes : n # item[w] => Holders(n)' = Holders(n)
    BY <1>5, ConstantAssumption DEF ConstantAssumption, RemoveProcessing, Holders, TypeOK
  <2>3. \A n \in Nodes : Holders(n)' \subseteq Workers
    BY DEF Holders
  <2>4. \A n \in Nodes : Cardinality(Holders(n)') \in Nat
    BY <2>3, FS_Subset, FS_CardinalityType
  <2>5. crashes \in Nat
    BY ConstantAssumption DEF ConstantAssumption, TypeOK
  <2>6. ASSUME NEW n \in Nodes PROVE processing'[n] <= Cardinality(Holders(n)') + crashes'
    <3>1. CASE n = item[w]
      <4>1. processing'[n] = 0
        BY <2>1, <3>1 DEF TypeOK
      <4>2. QED BY <2>1, <2>4, <2>5, <4>1
    <3>2. CASE n # item[w]
      BY <2>1, <2>2, <3>2 DEF ProcessingBounded, TypeOK
    <3>3. QED BY <3>1, <3>2
  <2>7. QED BY <2>6 DEF ProcessingBounded
<1>6. ASSUME NEW w \in Workers, WorkerCrash(w) PROVE ProcessingBounded'
  <2>1. \A n \in Nodes : Holders(n) \ {w} \subseteq Holders(n)'
    BY <1>6 DEF WorkerCrash, Holders, TypeOK
  <2>2. processing' = processing /\ crashes' = crashes + 1
    BY <1>6 DEF WorkerCrash, redis
  <2>3. QED BY <1>0, <2>1, <2>2, HoldersStep
<1>7. ASSUME NEW s \in Schedulers, GetReadyNodes(s) \/ PushReady(s) \/ MarkReady(s)
      PROVE  ProcessingBounded'
  BY <1>1, <1>7 DEF GetReadyNodes, PushReady, MarkReady, redis
<1>8. ASSUME ResultsExpire \/ UNCHANGED vars PROVE ProcessingBounded'
  BY <1>1, <1>8 DEF ResultsExpire, vars, redis
<1>9. QED
  BY <1>0, <1>2, <1>3, <1>4, <1>5, <1>6, <1>7, <1>8
     DEF Next, SchedulerStep, WorkerStep, PopTimeout

\* ProcessingBounded of WorkQueue: with finitely many workers, entries without a
\* worker are left in the processing list by crashes only, one by each.
THEOREM ProcessingBoundedHolds ==
    ASSUME IsFiniteSet(Workers)
    PROVE  Spec => []ProcessingBounded
<1>1. Init => BoundInv
  <2> SUFFICES ASSUME Init PROVE BoundInv
    OBVIOUS
  <2>1. \A n \in Nodes : Holders(n) = {} /\ processing[n] = 0 /\ crashes = 0
    BY DEF Init, Holders
  <2>2. ProcessingBounded
    BY <2>1, FS_EmptySet DEF ProcessingBounded
  <2>3. QED BY <2>2, TypeInit DEF BoundInv
<1>2. BoundInv /\ [Next]_vars => BoundInv'
  BY BoundStep
<1>3. BoundInv => ProcessingBounded
  BY DEF BoundInv
<1>4. QED BY <1>1, <1>2, <1>3, PTL DEF Spec
=============================================================================
