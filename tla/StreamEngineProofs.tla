------------------------- MODULE StreamEngineProofs -------------------------
(***************************************************************************)
(* Proofs about StreamEngine for every graph of nodes and any number of    *)
(* results, runs and failures.                                             *)
(***************************************************************************)
EXTENDS StreamEngine, SequenceTheorems, FiniteSetTheorems, TLAPS

\* LPUSH and LTRIM keep a list within its bound.
LEMMA Trimmed ==
    ASSUME NEW s \in Seq(Stamps), NEW x \in Stamps
    PROVE  LET q == <<x>> \o s
               r == SubSeq(q, 1, IF Len(q) < MaxItems THEN Len(q) ELSE MaxItems)
           IN  /\ r \in Seq(Stamps)
               /\ Len(r) <= MaxItems
               /\ \A y \in ToSet(r) : y = x \/ y \in ToSet(s)
<1> DEFINE q == <<x>> \o s
           k == IF Len(q) < MaxItems THEN Len(q) ELSE MaxItems
           r == SubSeq(q, 1, k)
<1>1. MaxItems \in Nat \ {0}
  BY StreamAssumption DEF StreamAssumption
<1>2. q \in Seq(Stamps) /\ Len(q) = Len(s) + 1 /\ q[1] = x
  OBVIOUS
<1>3. \A i \in 2 .. Len(q) : q[i] = s[i - 1] /\ i - 1 \in 1 .. Len(s)
  BY <1>2
<1>4. k \in 1 .. Len(q) /\ k <= MaxItems
  BY <1>1, <1>2
<1> HIDE DEF q, k
<1>5. r \in Seq(Stamps) /\ Len(r) = k /\ \A i \in 1 .. k : r[i] = q[i]
  BY <1>2, <1>4
<1>6. ASSUME NEW y \in ToSet(r) PROVE y = x \/ y \in ToSet(s)
  <2>1. PICK i \in 1 .. k : y = q[i]
    BY <1>5 DEF ToSet
  <2>2. CASE i = 1
    BY <1>2, <2>1, <2>2
  <2>3. CASE i # 1
    <3>1. i \in 2 .. Len(q)
      BY <1>4, <2>3
    <3>2. y = s[i - 1] /\ i - 1 \in DOMAIN s
      BY <1>3, <2>1, <3>1
    <3>3. QED BY <3>2 DEF ToSet
  <2>4. QED BY <2>2, <2>3
<1>7. QED
  BY <1>4, <1>5, <1>6 DEF q, k
-----------------------------------------------------------------------------
LEMMA TypeInit == Init => TypeOK
<1> SUFFICES ASSUME Init PROVE TypeOK
  OBVIOUS
<1>1. position \in [Links -> Offsets] /\ committed \in [Links -> Offsets]
  BY DEF Init, Unassigned, Offsets
<1>2. \A l \in Links : {position[l], committed[l]} \ {None} = {}
  BY DEF Init, Unassigned
<1>3. topic \in [Nodes -> Seq(Messages)] /\ stored \in [Nodes -> Seq(Stamps)]
  BY DEF Init
<1>4. \A n \in Nodes : Len(stored[n]) <= MaxItems
  BY StreamAssumption DEF StreamAssumption, Init
<1>5. \A l \in Links : \A offset \in {position[l], committed[l]} \ {None} :
        offset <= Len(topic[l[2]])
  BY <1>2
<1>6. stamp \in 0 .. MaxStamp /\ run \in 0 .. MaxRuns /\ errors \in 0 .. MaxErrors
  BY StreamAssumption DEF StreamAssumption, Init
<1>7. QED
  BY <1>1, <1>3, <1>4, <1>5, <1>6 DEF Init, TypeOK

\* A message that is consumed is one of the topic.
LEMMA NextMessageType ==
    ASSUME TypeOK, NEW l \in Links, Consumable(l)
    PROVE  /\ NextMessage(l) \in Iterations
           /\ position[l] \in Nat /\ position[l] + 1 <= Len(topic[l[2]])
<1>1. position[l] \in Nat /\ position[l] < Len(topic[l[2]]) /\ l[1] \in Nodes /\ l[2] \in Nodes
  BY DEF Consumable, TypeOK, Offsets, Links
<1>2. topic[l[2]] \in Seq(Messages) /\ position[l] + 1 \in 1 .. Len(topic[l[2]])
  BY <1>1 DEF TypeOK
<1>3. topic[l[2]][position[l] + 1] \in Messages
  BY <1>2
<1>4. topic[l[2]][position[l] + 1].stamp \in Stamps
  BY <1>3 DEF Messages
<1>5. QED
  BY <1>1, <1>2, <1>4 DEF NextMessage, Iterations

LEMMA TypeStep == TypeOK /\ [Next]_vars => TypeOK'
<1> SUFFICES ASSUME TypeOK, [Next]_vars PROVE TypeOK'
  OBVIOUS
<1> USE StreamAssumption DEF StreamAssumption
<1>1. ASSUME Prepare PROVE TypeOK'
  BY <1>1 DEF Prepare, TypeOK, kafka
<1>2. ASSUME StartTasks PROVE TypeOK'
  BY <1>2 DEF StartTasks, TypeOK, kafka, bounds
<1>3. ASSUME Stop PROVE TypeOK'
  BY <1>3 DEF Stop, TypeOK, kafka, bounds
<1>4. ASSUME TasksDone PROVE TypeOK'
  BY <1>4 DEF TasksDone, TypeOK, kafka, bounds, Unassigned, Offsets
<1>5. ASSUME Collect PROVE TypeOK'
  BY <1>5 DEF Collect, TypeOK, kafka, bounds
<1>6. ASSUME Crash PROVE TypeOK'
  BY <1>6 DEF Crash, TypeOK, kafka, bounds, Unassigned, Offsets
<1>7. ASSUME NEW n \in Nodes, TaskEnds(n) PROVE TypeOK'
  BY <1>7 DEF TaskEnds, TypeOK, kafka, bounds
<1>8. ASSUME NEW n \in Nodes, Execute(n) PROVE TypeOK'
  <2>1. stamp' = stamp + 1 /\ stamp' \in Stamps /\ stamp' \in 0 .. MaxStamp /\ stamp' \in Nat
    BY <1>8 DEF Execute, TypeOK, Stamps
  <2>2. active' \in Iterations
    BY <1>8, <2>1 DEF Execute, Iterations
  <2>3. QED
    BY <1>8, <2>1, <2>2 DEF Execute, TypeOK, kafka
<1>9. ASSUME NEW l \in Links, AutoCommit(l) PROVE TypeOK'
  BY <1>9 DEF AutoCommit, TypeOK, bounds
<1>10. ASSUME NEW l \in Links, Assign(l) PROVE TypeOK'
  <2> DEFINE start == IF committed[l] = None THEN Len(topic[l[2]]) ELSE committed[l]
  <2>1. topic[l[2]] \in Seq(Messages)
    BY DEF TypeOK, Links
  <2>2. start \in Offsets /\ start <= Len(topic[l[2]])
    BY <2>1 DEF TypeOK, Offsets
  <2>3. position' = [position EXCEPT ![l] = start]
    BY <1>10 DEF Assign
  <2> HIDE DEF start
  <2>4. position' \in [Links -> Offsets]
    BY <2>2, <2>3 DEF TypeOK
  <2>5. \A k \in Links : \A offset \in {position'[k], committed[k]} \ {None} : offset <= Len(topic[k[2]])
    BY <2>2, <2>3 DEF TypeOK
  <2>6. QED
    BY <1>10, <2>4, <2>5 DEF Assign, TypeOK, kafka, bounds
<1>11. ASSUME NEW l \in Links, Consume(l) PROVE TypeOK'
  <2>1. Consumable(l) /\ position' = [position EXCEPT ![l] = @ + 1]
    BY <1>11 DEF Consume
  <2>2. position[l] \in Nat /\ position[l] + 1 <= Len(topic[l[2]]) /\ NextMessage(l) \in Iterations
    BY <2>1, NextMessageType
  <2>3. position' \in [Links -> Offsets]
    BY <2>1, <2>2 DEF TypeOK, Offsets
  <2>4. \A k \in Links : \A offset \in {position'[k], committed[k]} \ {None} : offset <= Len(topic[k[2]])
    BY <2>1, <2>2 DEF TypeOK
  <2>5. active' \in Iterations \cup {None}
    BY <1>11, <2>2 DEF Consume
  <2>6. QED
    BY <1>11, <2>3, <2>4, <2>5 DEF Consume, TypeOK, kafka, bounds
<1>12. ASSUME Publish PROVE TypeOK'
  <2> DEFINE n == active.node
             m == [stamp |-> active.stamp, from |-> active.from, run |-> run]
  <2>1. active \in Iterations
    BY <1>12 DEF Publish, AtStage, TypeOK
  <2>2. active' \in Iterations
    BY <1>12, <2>1 DEF Publish, Goto, Iterations
  <2>3. run \in 0 .. MaxRuns
    BY DEF TypeOK
  <2>4. n \in Nodes /\ topic' = [topic EXCEPT ![n] = Append(@, m)]
    BY <1>12, <2>1 DEF Publish, Iterations
  <2>5. m \in Messages
    BY <2>1, <2>3 DEF Iterations, Messages
  <2>6. topic[n] \in Seq(Messages)
    BY <2>4 DEF TypeOK
  <2> HIDE DEF n, m
  <2>7. Append(topic[n], m) \in Seq(Messages) /\ Len(Append(topic[n], m)) = Len(topic[n]) + 1
    BY <2>5, <2>6
  <2>8. topic' \in [Nodes -> Seq(Messages)]
    BY <2>4, <2>7 DEF TypeOK
  <2>9. \A k \in Nodes : Len(topic'[k]) \in Nat /\ Len(topic[k]) \in Nat /\ Len(topic[k]) <= Len(topic'[k])
    BY <2>4, <2>7 DEF TypeOK
  <2>10. \A k \in Links : \A offset \in {position[k], committed[k]} \ {None} : offset <= Len(topic'[k[2]])
    <3>1. ASSUME NEW k \in Links, NEW offset \in {position[k], committed[k]} \ {None}
          PROVE  offset <= Len(topic'[k[2]])
      <4>1. k[2] \in Nodes /\ offset \in Nat /\ offset <= Len(topic[k[2]])
        BY DEF TypeOK, Links, Offsets
      <4>2. QED BY <2>9, <4>1
    <3>2. QED BY <3>1
  <2>11. QED
    BY <1>12, <2>2, <2>8, <2>10 DEF Publish, TypeOK, bounds
<1>13. ASSUME PublishLost PROVE TypeOK'
  <2>1. active \in Iterations
    BY <1>13 DEF PublishLost, AtStage, TypeOK
  <2>2. active' \in Iterations /\ lost' \in SUBSET (Nodes \X Stamps)
    BY <1>13, <2>1 DEF PublishLost, Goto, Iterations, TypeOK
  <2>3. QED
    BY <1>13, <2>2 DEF PublishLost, Fail, TypeOK
<1>14. ASSUME IterationFails PROVE TypeOK'
  BY <1>14 DEF IterationFails, Fail, TypeOK, kafka
<1>15. ASSUME SaveHistory PROVE TypeOK'
  <2>1. active \in Iterations
    BY <1>15 DEF SaveHistory, AtStage, TypeOK
  <2>2. active.node \in Nodes /\ active.stamp \in Stamps /\ stored[active.node] \in Seq(Stamps)
    BY <2>1 DEF Iterations, TypeOK
  <2>3. PICK s \in Seq(Stamps) : Len(s) <= MaxItems /\ stored' = [stored EXCEPT ![active.node] = s]
    BY <1>15, <2>2, Trimmed DEF SaveHistory
  <2>4. QED
    BY <1>15, <2>2, <2>3 DEF SaveHistory, TypeOK, kafka, bounds
<1>16. ASSUME SaveFails PROVE TypeOK'
  BY <1>16 DEF SaveFails, Fail, TypeOK, kafka
<1>17. CASE UNCHANGED vars
  BY <1>17 DEF vars, kafka, bounds, TypeOK
<1>18. QED
  BY <1>1, <1>2, <1>3, <1>4, <1>5, <1>6, <1>7, <1>8, <1>9, <1>10, <1>11, <1>12, <1>13, <1>14,
     <1>15, <1>16, <1>17 DEF Next, Iterate

\* Topics, offsets and histories keep their types, offsets lie within their
\* topics and no history exceeds max_history, whatever fails or dies.
THEOREM TypeCorrect == Spec => []TypeOK
BY TypeInit, TypeStep, PTL DEF Spec
-----------------------------------------------------------------------------
(* SavedWasPublished and OnlyChainsRun                                     *)

\* The result an iteration is about to save is published or given up on, and
\* every iteration is of a node with at most one upstream.
IterationOK ==
    active # None =>
        /\ active.at = "save" =>
               \/ <<active.node, active.stamp>> \in lost
               \/ \E m \in ToSet(topic[active.node]) : m.stamp = active.stamp
        /\ ~(Cardinality(Upstreams[active.node]) > 1)

PublishedInv == TypeOK /\ IterationOK /\ SavedWasPublished /\ OnlyChainsRun

LEMMA PublishedInit == Init => PublishedInv
<1> SUFFICES ASSUME Init PROVE PublishedInv
  OBVIOUS
<1>1. \A n \in Nodes : stored[n] = <<>> /\ topic[n] = <<>>
  BY DEF Init
<1>2. SavedWasPublished
  BY <1>1 DEF SavedWasPublished, ToSet
<1>3. IterationOK /\ OnlyChainsRun
  BY <1>1 DEF Init, IterationOK, OnlyChainsRun
<1>4. QED
  BY <1>2, <1>3, TypeInit DEF PublishedInv

LEMMA PublishedStep == PublishedInv /\ [Next]_vars => PublishedInv'
<1> SUFFICES ASSUME PublishedInv, [Next]_vars PROVE PublishedInv'
  OBVIOUS
<1> USE DEF PublishedInv
<1>0. TypeOK'
  BY TypeStep
<1>1. ASSUME UNCHANGED <<topic, lost, stored>>, active' = active \/ active' = None
      PROVE  PublishedInv'
  BY <1>0, <1>1 DEF IterationOK, SavedWasPublished, OnlyChainsRun
<1>2. ASSUME UNCHANGED <<topic, lost, stored>>, active' \in Iterations,
             active'.at = "publish", ~(Cardinality(Upstreams[active'.node]) > 1)
      PROVE  PublishedInv'
  BY <1>0, <1>2 DEF IterationOK, SavedWasPublished, OnlyChainsRun
<1>3. ASSUME NEW n \in Nodes, Execute(n) PROVE PublishedInv'
  <2>1. stamp' \in Stamps /\ stamp' \in Nat
    BY <1>3, StreamAssumption DEF StreamAssumption, Execute, TypeOK, Stamps
  <2>2. active' \in Iterations /\ active'.at = "publish" /\ active'.node = n
    BY <1>3, <2>1 DEF Execute, Iterations
  <2>3. QED
    BY <1>2, <1>3, <2>2, FS_EmptySet DEF Execute, Sources, kafka
<1>4. ASSUME NEW l \in Links, Consume(l) PROVE PublishedInv'
  <2>1. CASE Upstreams[l[1]] = {l[2]}
    <3>1. active' = NextMessage(l) /\ NextMessage(l) \in Iterations
      BY <1>4, <2>1, NextMessageType DEF Consume
    <3>2. active'.at = "publish" /\ active'.node = l[1]
      BY <3>1 DEF NextMessage
    <3>3. Cardinality(Upstreams[l[1]]) = 1
      BY <2>1, FS_Singleton
    <3>4. QED
      BY <1>2, <1>4, <3>1, <3>2, <3>3 DEF Consume, kafka
  <2>2. CASE Upstreams[l[1]] # {l[2]}
    BY <1>1, <1>4, <2>2 DEF Consume, kafka
  <2>3. QED
    BY <2>1, <2>2
<1>5. ASSUME Publish PROVE PublishedInv'
  <2>1. active \in Iterations /\ active # None /\ active.node \in Nodes
    BY <1>5 DEF Publish, AtStage, TypeOK, Iterations
  <2>2. active' = [active EXCEPT !.at = "save"] /\ stored' = stored /\ lost' = lost
    BY <1>5 DEF Publish, Goto
  <2> DEFINE m == [stamp |-> active.stamp, from |-> active.from, run |-> run]
  <2>3. topic' = [topic EXCEPT ![active.node] = Append(@, m)] /\ m.stamp = active.stamp /\ m \in Messages
    BY <1>5, <2>1 DEF Publish, TypeOK, Iterations, Messages
  <2> HIDE DEF m
  <2>4. topic[active.node] \in Seq(Messages) /\ topic'[active.node] = Append(topic[active.node], m)
    BY <2>1, <2>3 DEF TypeOK
  <2>5. m \in ToSet(topic'[active.node]) /\ ToSet(topic[active.node]) \subseteq ToSet(topic'[active.node])
    <3>1. PICK q \in Seq(Messages), r \in Seq(Messages) :
              q = topic[active.node] /\ r = topic'[active.node] /\ r = Append(q, m)
      BY <2>3, <2>4, AppendProperties
    <3>2. /\ Len(q) \in Nat /\ Len(r) = Len(q) + 1 /\ r[Len(r)] = m
          /\ \A i \in 1 .. Len(q) : r[i] = q[i]
          /\ DOMAIN q = 1 .. Len(q) /\ DOMAIN r = 1 .. Len(r)
      BY <2>3, <3>1, AppendProperties, LenProperties
    <3>3. Len(r) \in DOMAIN r /\ DOMAIN q \subseteq DOMAIN r
      BY <3>2
    <3>4. QED BY <3>1, <3>2, <3>3 DEF ToSet
  <2>6. \A n \in Nodes : ToSet(topic[n]) \subseteq ToSet(topic'[n])
    BY <2>3, <2>5 DEF TypeOK
  <2>7. active'.node = active.node /\ active'.stamp = active.stamp
    BY <2>1, <2>2 DEF Iterations
  <2>8. IterationOK'
    BY <2>1, <2>3, <2>5, <2>7 DEF IterationOK
  <2>9. SavedWasPublished'
    BY <2>2, <2>6 DEF SavedWasPublished
  <2>10. \A n \in Nodes : Cardinality(Upstreams[n]) > 1 => n # active.node
    BY <2>1 DEF IterationOK
  <2>11. OnlyChainsRun'
    BY <2>2, <2>3, <2>10 DEF OnlyChainsRun, TypeOK
  <2>12. QED
    BY <1>0, <2>8, <2>9, <2>11
<1>6. ASSUME PublishLost PROVE PublishedInv'
  <2>1. active \in Iterations /\ active # None
    BY <1>6 DEF PublishLost, AtStage, TypeOK
  <2>2. active'.node = active.node /\ active'.stamp = active.stamp
    BY <1>6, <2>1 DEF PublishLost, Goto, Iterations
  <2>3. UNCHANGED <<topic, stored>> /\ lost' = lost \cup {<<active.node, active.stamp>>}
    BY <1>6 DEF PublishLost
  <2>4. QED
    BY <1>0, <2>1, <2>2, <2>3 DEF IterationOK, SavedWasPublished, OnlyChainsRun
<1>7. ASSUME SaveHistory PROVE PublishedInv'
  <2>1. active \in Iterations /\ active # None /\ active.at = "save"
    BY <1>7 DEF SaveHistory, AtStage, TypeOK
  <2>2. active.node \in Nodes /\ active.stamp \in Stamps /\ stored[active.node] \in Seq(Stamps)
    BY <2>1 DEF Iterations, TypeOK
  <2>3. PICK s : /\ \A y \in ToSet(s) : y = active.stamp \/ y \in ToSet(stored[active.node])
                 /\ stored' = [stored EXCEPT ![active.node] = s]
    BY <1>7, <2>2, Trimmed DEF SaveHistory
  <2>4. UNCHANGED <<topic, lost>> /\ active' = None
    BY <1>7 DEF SaveHistory, kafka
  <2>5. ASSUME NEW n \in Nodes, NEW y \in ToSet(stored'[n])
        PROVE  <<n, y>> \in lost \/ \E m \in ToSet(topic[n]) : m.stamp = y
    <3>1. CASE n = active.node /\ y = active.stamp
      BY <2>1, <3>1 DEF IterationOK
    <3>2. CASE ~(n = active.node /\ y = active.stamp)
      <4>1. y \in ToSet(stored[n])
        BY <2>2, <2>3, <2>5, <3>2 DEF TypeOK
      <4>2. QED BY <4>1 DEF SavedWasPublished
    <3>3. QED BY <3>1, <3>2
  <2>6. SavedWasPublished'
    BY <2>4, <2>5 DEF SavedWasPublished
  <2>7. \A n \in Nodes : Cardinality(Upstreams[n]) > 1 => n # active.node
    BY <2>1 DEF IterationOK
  <2>8. OnlyChainsRun'
    BY <2>3, <2>4, <2>7 DEF OnlyChainsRun, TypeOK
  <2>9. QED
    BY <1>0, <2>4, <2>6, <2>8 DEF IterationOK
<1>8. ASSUME \E n \in Nodes : TaskEnds(n) PROVE PublishedInv'
  BY <1>1, <1>8 DEF TaskEnds, kafka
<1>9. ASSUME \E l \in Links : AutoCommit(l) \/ Assign(l) PROVE PublishedInv'
  BY <1>1, <1>9 DEF AutoCommit, Assign, kafka
<1>10. ASSUME Prepare \/ StartTasks \/ Stop \/ TasksDone \/ Collect \/ Crash PROVE PublishedInv'
  BY <1>1, <1>10 DEF Prepare, StartTasks, Stop, TasksDone, Collect, Crash, kafka
<1>11. ASSUME IterationFails \/ SaveFails PROVE PublishedInv'
  BY <1>1, <1>11 DEF IterationFails, SaveFails, kafka
<1>12. CASE UNCHANGED vars
  BY <1>1, <1>12 DEF vars, kafka
<1>13. QED
  BY <1>3, <1>4, <1>5, <1>6, <1>7, <1>8, <1>9, <1>10, <1>11, <1>12 DEF Next, Iterate

LEMMA Published == Spec => []PublishedInv
BY PublishedInit, PublishedStep, PTL DEF Spec

\* SavedWasPublished of StreamEngine: a history holds only results that were
\* sent downstream, but for those flush gave up on, whatever fails between.
THEOREM SavedWasPublishedHolds == Spec => []SavedWasPublished
BY Published, PTL DEF PublishedInv

\* OnlyChainsRun of StreamEngine: in any graph a node that joins two upstreams
\* neither publishes nor saves anything.
THEOREM OnlyChainsRunHolds == Spec => []OnlyChainsRun
BY Published, PTL DEF PublishedInv
-----------------------------------------------------------------------------
(* OrderedWithinRun                                                        *)

\* n has worked through its input up to k.
WorkedTo(n, k) ==
    \/ Upstreams[n] = {} /\ k = stamp
    \/ \E u \in Upstreams[n] : Upstreams[n] = {u} /\ k = position[<<n, u>>]

\* No message is of a run to come, or of one that only prepares.
RunsPassed ==
    \A n \in Nodes : \A i \in DOMAIN topic[n] :
        topic[n][i].run <= run /\ (phase = "prepared" => topic[n][i].run # run)

OnlyRunningWorks == phase # "running" => tasks = {} /\ active = None

\* What a node has published in this run lies behind its consumer.
PublishedBehind ==
    phase = "running" =>
        \A n \in Nodes : \A i \in DOMAIN topic[n] :
            topic[n][i].run = run => \E k \in Nat : WorkedTo(n, k) /\ topic[n][i].from <= k

\* What it is about to publish comes after that.
NextIsNew ==
    AtStage("publish") =>
        /\ WorkedTo(active.node, active.from)
        /\ \A i \in DOMAIN topic[active.node] :
               topic[active.node][i].run = run => topic[active.node][i].from < active.from

OrderInv ==
    /\ TypeOK
    /\ RunsPassed
    /\ OnlyRunningWorks
    /\ PublishedBehind
    /\ NextIsNew
    /\ OrderedWithinRun

LEMMA OrderInit == Init => OrderInv
<1> SUFFICES ASSUME Init PROVE OrderInv
  OBVIOUS
<1>1. \A n \in Nodes : DOMAIN topic[n] = {}
  BY DEF Init
<1>2. RunsPassed /\ PublishedBehind /\ OrderedWithinRun
  BY <1>1 DEF RunsPassed, PublishedBehind, OrderedWithinRun
<1>3. OnlyRunningWorks /\ NextIsNew
  BY DEF Init, OnlyRunningWorks, NextIsNew, AtStage
<1>4. QED
  BY <1>2, <1>3, TypeInit DEF OrderInv

LEMMA MessageTypes ==
    ASSUME TypeOK, NEW n \in Nodes, NEW i \in DOMAIN topic[n]
    PROVE  topic[n][i].run \in Nat /\ topic[n][i].from \in Nat /\ run \in Nat
<1>1. topic[n] \in Seq(Messages) /\ i \in 1 .. Len(topic[n])
  BY DEF TypeOK
<1>2. topic[n][i] \in Messages
  BY <1>1
<1>3. QED
  BY <1>2 DEF Messages, TypeOK

LEMMA OrderStep == OrderInv /\ [Next]_vars => OrderInv'
<1> SUFFICES ASSUME OrderInv, [Next]_vars PROVE OrderInv'
  OBVIOUS
<1> USE DEF OrderInv
<1>0. TypeOK'
  BY TypeStep
<1>1. ASSUME UNCHANGED <<topic, run, phase, position, stamp>>, tasks' \subseteq tasks,
             \/ active' = active
             \/ active' = None
             \/ AtStage("publish") /\ active'.at = "save"
      PROVE  OrderInv'
  <2>1. RunsPassed' /\ OrderedWithinRun'
    BY <1>1 DEF RunsPassed, OrderedWithinRun
  <2>2. PublishedBehind'
    BY <1>1 DEF PublishedBehind, WorkedTo
  <2>3. OnlyRunningWorks'
    BY <1>1 DEF OnlyRunningWorks, AtStage
  <2>4. NextIsNew'
    BY <1>1 DEF NextIsNew, WorkedTo, AtStage
  <2>5. QED
    BY <1>0, <2>1, <2>2, <2>3, <2>4
<1>2. ASSUME UNCHANGED <<topic, run>>, phase' \notin {"prepared", "running"}, tasks' = {}, active' = None
      PROVE  OrderInv'
  BY <1>0, <1>2 DEF RunsPassed, OrderedWithinRun, PublishedBehind, OnlyRunningWorks, NextIsNew, AtStage
<1>3. ASSUME Prepare PROVE OrderInv'
  <2>1. RunsPassed'
    BY <1>3, MessageTypes DEF Prepare, kafka, RunsPassed
  <2>2. OnlyRunningWorks' /\ PublishedBehind' /\ NextIsNew'
    BY <1>3 DEF Prepare, OnlyRunningWorks, PublishedBehind, NextIsNew, AtStage
  <2>3. OrderedWithinRun'
    BY <1>3 DEF Prepare, kafka, OrderedWithinRun
  <2>4. QED
    BY <1>0, <2>1, <2>2, <2>3
<1>4. ASSUME StartTasks PROVE OrderInv'
  <2>1. UNCHANGED <<topic, run, active>> /\ phase = "prepared" /\ phase' = "running"
    BY <1>4 DEF StartTasks, kafka, bounds
  <2>2. RunsPassed' /\ PublishedBehind' /\ OrderedWithinRun'
    BY <2>1 DEF RunsPassed, PublishedBehind, OrderedWithinRun
  <2>3. OnlyRunningWorks' /\ NextIsNew'
    BY <2>1 DEF OnlyRunningWorks, NextIsNew, AtStage
  <2>4. QED
    BY <1>0, <2>2, <2>3
<1>5. ASSUME NEW n \in Nodes, Execute(n) PROVE OrderInv'
  <2>1. /\ UNCHANGED <<topic, position, phase, run>> /\ phase = "running"
        /\ stamp' = stamp + 1 /\ stamp \in Nat
        /\ active'.node = n /\ active'.from = stamp' /\ Upstreams[n] = {}
    BY <1>5 DEF Execute, InLoop, OnlyRunningWorks, Sources, TypeOK, kafka
  <2>2. ASSUME NEW m \in Nodes, NEW i \in DOMAIN topic[m], topic[m][i].run = run
        PROVE  /\ \E k \in Nat : WorkedTo(m, k)' /\ topic[m][i].from <= k
               /\ m = n => topic[m][i].from < stamp'
    <3>1. PICK k \in Nat : WorkedTo(m, k) /\ topic[m][i].from <= k
      BY <2>1, <2>2 DEF PublishedBehind
    <3>2. topic[m][i].from \in Nat
      BY MessageTypes
    <3>3. CASE Upstreams[m] = {}
      BY <2>1, <3>1, <3>2, <3>3 DEF WorkedTo
    <3>4. CASE Upstreams[m] # {}
      BY <2>1, <3>1, <3>4 DEF WorkedTo
    <3>5. QED BY <3>3, <3>4
  <2>3. RunsPassed' /\ OrderedWithinRun' /\ OnlyRunningWorks'
    BY <2>1 DEF RunsPassed, OrderedWithinRun, OnlyRunningWorks
  <2>4. PublishedBehind'
    BY <2>1, <2>2 DEF PublishedBehind
  <2>5. NextIsNew'
    BY <2>1, <2>2 DEF NextIsNew, WorkedTo
  <2>6. QED
    BY <1>0, <2>3, <2>4, <2>5
<1>6. ASSUME NEW l \in Links, Assign(l) PROVE OrderInv'
  <2>1. /\ UNCHANGED <<topic, phase, run, stamp, tasks, active>> /\ position[l] = None /\ active = None
        /\ \A k \in Links : k # l => position'[k] = position[k]
    BY <1>6 DEF Assign, InLoop, TypeOK, kafka, bounds
  <2>2. ASSUME NEW n \in Nodes, NEW k \in Nat, WorkedTo(n, k) PROVE WorkedTo(n, k)'
    <3>1. CASE Upstreams[n] = {}
      BY <2>1, <2>2, <3>1 DEF WorkedTo
    <3>2. ASSUME NEW u \in Upstreams[n], Upstreams[n] = {u}, k = position[<<n, u>>]
          PROVE  WorkedTo(n, k)'
      <4>1. <<n, u>> \in Links
        BY StreamAssumption DEF StreamAssumption, Links
      <4>2. <<n, u>> # l
        BY <2>1, <3>2, StreamAssumption DEF StreamAssumption
      <4>3. QED
        BY <2>1, <3>2, <4>1, <4>2 DEF WorkedTo
    <3>3. QED
      BY <2>2, <3>1, <3>2 DEF WorkedTo
  <2>3. RunsPassed' /\ OrderedWithinRun' /\ OnlyRunningWorks' /\ NextIsNew'
    BY <2>1 DEF RunsPassed, OrderedWithinRun, OnlyRunningWorks, NextIsNew, AtStage
  <2>4. PublishedBehind'
    BY <2>1, <2>2 DEF PublishedBehind
  <2>5. QED
    BY <1>0, <2>3, <2>4
<1>7. ASSUME NEW l \in Links, Consume(l) PROVE OrderInv'
  <2>1. /\ UNCHANGED <<topic, phase, run, stamp, tasks>> /\ Consumable(l) /\ phase = "running"
        /\ position' = [position EXCEPT ![l] = @ + 1]
    BY <1>7 DEF Consume, Consumable, InLoop, OnlyRunningWorks, kafka, bounds
  <2>2. position[l] \in Nat /\ l[1] \in Nodes /\ l[2] \in Upstreams[l[1]] /\ l = <<l[1], l[2]>>
    BY <2>1, NextMessageType DEF Links
  <2>3. position'[l] = position[l] + 1 /\ \A k \in Links : k # l => position'[k] = position[k]
    BY <2>1 DEF TypeOK
  <2>4. ASSUME NEW n \in Nodes, NEW k \in Nat, WorkedTo(n, k)
        PROVE  WorkedTo(n, k)' \/ WorkedTo(n, k + 1)'
    <3>1. CASE Upstreams[n] = {}
      BY <2>1, <2>4, <3>1 DEF WorkedTo
    <3>2. ASSUME NEW u \in Upstreams[n], Upstreams[n] = {u}, k = position[<<n, u>>]
          PROVE  WorkedTo(n, k)' \/ WorkedTo(n, k + 1)'
      <4>1. <<n, u>> \in Links
        BY StreamAssumption DEF StreamAssumption, Links
      <4>2. position'[<<n, u>>] = k \/ position'[<<n, u>>] = k + 1
        BY <2>3, <3>2, <4>1
      <4>3. QED
        BY <3>2, <4>2 DEF WorkedTo
    <3>3. QED
      BY <2>4, <3>1, <3>2 DEF WorkedTo
  <2>5. PublishedBehind'
    <3>1. ASSUME NEW n \in Nodes, NEW i \in DOMAIN topic[n], topic[n][i].run = run
          PROVE  \E k \in Nat : WorkedTo(n, k)' /\ topic[n][i].from <= k
      <4>1. PICK k \in Nat : WorkedTo(n, k) /\ topic[n][i].from <= k
        BY <2>1, <3>1 DEF PublishedBehind
      <4>2. topic[n][i].from \in Nat
        BY MessageTypes
      <4>3. k + 1 \in Nat /\ topic[n][i].from <= k + 1
        BY <4>1, <4>2
      <4>4. QED BY <2>4, <4>1, <4>3
    <3>2. QED BY <2>1, <3>1 DEF PublishedBehind
  <2>6. NextIsNew'
    <3>1. CASE Upstreams[l[1]] = {l[2]}
      <4>1. active'.node = l[1] /\ active'.from = position[l] + 1
        BY <1>7, <3>1 DEF Consume, NextMessage
      <4>2. PICK k \in Nat : k = position[l] + 1
        BY <2>2
      <4>3. WorkedTo(l[1], k)'
        BY <2>2, <2>3, <3>1, <4>2 DEF WorkedTo
      <4>4. ASSUME NEW i \in DOMAIN topic[l[1]], topic[l[1]][i].run = run
            PROVE  topic[l[1]][i].from < k
        <5>1. PICK j \in Nat : WorkedTo(l[1], j) /\ topic[l[1]][i].from <= j
          BY <2>1, <2>2, <4>4 DEF PublishedBehind
        <5>2. j = position[l]
          BY <2>2, <3>1, <5>1 DEF WorkedTo
        <5>3. topic[l[1]][i].from \in Nat
          BY <2>2, MessageTypes
        <5>4. QED BY <2>2, <4>2, <5>1, <5>2, <5>3
      <4>5. QED
        BY <2>1, <4>1, <4>2, <4>3, <4>4 DEF NextIsNew
    <3>2. CASE Upstreams[l[1]] # {l[2]}
      BY <1>7, <3>2 DEF Consume, NextIsNew, AtStage
    <3>3. QED BY <3>1, <3>2
  <2>7. RunsPassed' /\ OrderedWithinRun' /\ OnlyRunningWorks'
    BY <2>1 DEF RunsPassed, OrderedWithinRun, OnlyRunningWorks
  <2>8. QED
    BY <1>0, <2>5, <2>6, <2>7
<1>8. ASSUME Publish PROVE OrderInv'
  <2>1. active \in Iterations /\ active # None /\ AtStage("publish") /\ phase = "running"
    BY <1>8 DEF Publish, AtStage, TypeOK, OnlyRunningWorks
  <2> DEFINE n == active.node
             m == [stamp |-> active.stamp, from |-> active.from, run |-> run]
  <2>2. /\ n \in Nodes /\ m \in Messages /\ m.run = run /\ m.from = active.from /\ active.from \in Nat
        /\ topic' = [topic EXCEPT ![n] = Append(@, m)]
    BY <1>8, <2>1 DEF Publish, TypeOK, Iterations, Messages
  <2>3. /\ UNCHANGED <<position, stamp, run, phase, tasks>>
        /\ active'.at = "save"
    BY <1>8, <2>1 DEF Publish, Goto, Iterations, bounds
  <2>4. WorkedTo(n, m.from) /\ \A i \in DOMAIN topic[n] : topic[n][i].run = run => topic[n][i].from < m.from
    BY <2>1, <2>2 DEF NextIsNew
  <2> HIDE DEF n, m
  <2>5. /\ topic[n] \in Seq(Messages) /\ topic'[n] = Append(topic[n], m)
        /\ \A k \in Nodes : k # n => topic'[k] = topic[k]
    BY <2>2 DEF TypeOK
  <2>6. /\ DOMAIN topic'[n] = 1 .. Len(topic[n]) + 1 /\ DOMAIN topic[n] = 1 .. Len(topic[n])
        /\ Len(topic[n]) \in Nat
        /\ \A i \in DOMAIN topic[n] : topic'[n][i] = topic[n][i]
        /\ topic'[n][Len(topic[n]) + 1] = m
    BY <2>2, <2>5
  <2>7. \A k \in Nodes : \A i \in DOMAIN topic'[k] :
            \/ i \in DOMAIN topic[k] /\ topic'[k][i] = topic[k][i]
            \/ k = n /\ topic'[k][i] = m /\ \A j \in DOMAIN topic[n] : j < i
    BY <2>5, <2>6
  <2>8. RunsPassed'
    BY <2>1, <2>2, <2>3, <2>7 DEF RunsPassed, TypeOK
  <2>9. PublishedBehind'
    <3>1. \A k \in Nodes : \A j \in Nat : WorkedTo(k, j) => WorkedTo(k, j)'
      BY <2>3 DEF WorkedTo
    <3>2. PICK from \in Nat : from = m.from
      BY <2>2
    <3>3. ASSUME NEW k \in Nodes, NEW i \in DOMAIN topic'[k], topic'[k][i].run = run
          PROVE  \E j \in Nat : WorkedTo(k, j)' /\ topic'[k][i].from <= j
      <4>1. CASE i \in DOMAIN topic[k] /\ topic'[k][i] = topic[k][i]
        BY <2>1, <3>1, <3>3, <4>1 DEF PublishedBehind
      <4>2. CASE k = n /\ topic'[k][i] = m
        <5>1. WorkedTo(k, from)
          BY <2>4, <3>2, <4>2
        <5>2. QED
          BY <3>1, <3>2, <4>2, <5>1
      <4>3. QED BY <2>7, <4>1, <4>2
    <3>4. QED
      BY <2>3, <3>3 DEF PublishedBehind
  <2>10. OnlyRunningWorks' /\ NextIsNew'
    BY <2>1, <2>3 DEF OnlyRunningWorks, NextIsNew, AtStage
  <2>11. OrderedWithinRun'
    <3>1. ASSUME NEW k \in Nodes, NEW i \in DOMAIN topic'[k], NEW j \in DOMAIN topic'[k], i < j,
                 topic'[k][i].run = topic'[k][j].run
          PROVE  topic'[k][i].from < topic'[k][j].from
      <4>1. CASE j \in DOMAIN topic[k] /\ topic'[k][j] = topic[k][j]
        <5>1. i \in DOMAIN topic[k] /\ topic'[k][i] = topic[k][i]
          BY <2>5, <2>6, <3>1, <4>1
        <5>2. QED
          BY <3>1, <4>1, <5>1 DEF OrderedWithinRun
      <4>2. CASE ~(j \in DOMAIN topic[k] /\ topic'[k][j] = topic[k][j])
        <5>1. k = n /\ topic'[k][j] = m /\ j = Len(topic[n]) + 1
          BY <2>5, <2>6, <4>2
        <5>2. i \in DOMAIN topic[n] /\ topic'[k][i] = topic[n][i]
          BY <2>6, <3>1, <5>1
        <5>3. QED
          BY <2>2, <2>4, <3>1, <5>1, <5>2
      <4>3. QED BY <4>1, <4>2
    <3>2. QED BY <3>1 DEF OrderedWithinRun
  <2>12. QED
    BY <1>0, <2>8, <2>9, <2>10, <2>11
<1>9. ASSUME PublishLost PROVE OrderInv'
  <2>1. active \in Iterations
    BY <1>9 DEF PublishLost, AtStage, TypeOK
  <2>2. AtStage("publish") /\ active'.at = "save"
    BY <1>9, <2>1 DEF PublishLost, Goto, Iterations
  <2>3. QED
    BY <1>1, <1>9, <2>2 DEF PublishLost
<1>10. ASSUME Stop \/ SaveHistory \/ IterationFails \/ SaveFails PROVE OrderInv'
  BY <1>1, <1>10 DEF Stop, SaveHistory, IterationFails, SaveFails, kafka, bounds
<1>11. ASSUME NEW n \in Nodes, TaskEnds(n) PROVE OrderInv'
  BY <1>1, <1>11 DEF TaskEnds, kafka, bounds
<1>12. ASSUME NEW l \in Links, AutoCommit(l) PROVE OrderInv'
  BY <1>1, <1>12 DEF AutoCommit, bounds
<1>13. ASSUME TasksDone \/ Collect \/ Crash PROVE OrderInv'
  BY <1>2, <1>13 DEF TasksDone, Collect, Crash, OnlyRunningWorks, kafka, bounds
<1>14. CASE UNCHANGED vars
  BY <1>1, <1>14 DEF vars, kafka, bounds
<1>15. QED
  BY <1>3, <1>4, <1>5, <1>6, <1>7, <1>8, <1>9, <1>10, <1>11, <1>12, <1>13, <1>14 DEF Next, Iterate

\* OrderedWithinRun of StreamEngine: within a run every node of any graph works
\* through its input in order and publishes each result once.
THEOREM OrderedWithinRunHolds == Spec => []OrderedWithinRun
BY OrderInit, OrderStep, PTL DEF OrderInv, Spec
=============================================================================
