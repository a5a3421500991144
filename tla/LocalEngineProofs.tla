-------------------------- MODULE LocalEngineProofs --------------------------
(***************************************************************************)
(* Proofs about LocalEngine for any pipelines, any finite set of names,    *)
(* any queries and any number of runs.                                     *)
(***************************************************************************)
EXTENDS LocalEngine, SequenceTheorems, FiniteSetTheorems, FunctionTheorems, TLAPS

Elements(s) == {s[i] : i \in 1 .. Len(s)}
Distinct(s) == \A i, j \in 1 .. Len(s) : s[i] = s[j] => i = j

\* Every list of a finite set that repeats nothing and is as long as the set has
\* all of it.
LEMMA OrdersComplete ==
    ASSUME NEW N \in SUBSET Names, NEW s \in Orders(N)
    PROVE  s \in Seq(Names) /\ Elements(s) = N /\ Distinct(s)
<1> DEFINE D == 1 .. Cardinality(N)
<1>1. IsFiniteSet(N) /\ Cardinality(N) \in Nat
  BY EngineAssumption, FS_Subset, FS_CardinalityType DEF EngineAssumption
<1>2. s \in [D -> N] /\ \A i, j \in D : i # j => s[i] # s[j]
  BY DEF Orders, SetToSeqs
<1>3. s \in Injection(D, N)
  BY <1>2, Fun_IsInj
<1>4. IsFiniteSet(D) /\ Cardinality(D) = Cardinality(N)
  BY <1>1, FS_Interval
<1> HIDE DEF D
<1>5. s \in Surjection(D, N)
  BY <1>1, <1>3, <1>4, FS_Injection
<1>6. \A n \in N : \E i \in D : s[i] = n
  BY <1>5, Fun_SurjectionProperties
<1>7. s \in Seq(N) /\ Len(s) = Cardinality(N)
  BY <1>1, <1>2 DEF D
<1>8. QED
  BY <1>2, <1>6, <1>7 DEF Elements, Distinct, D

-----------------------------------------------------------------------------
\* A kept order has every node of its pipeline once.
OrdersKept ==
    /\ nodes \in [Pipelines -> SUBSET Names]
    /\ order \in [Pipelines -> Seq(Names)]
    /\ \A p \in Pipelines : order[p] = <<>> \/ Elements(order[p]) = nodes[p]
    /\ \A p \in Pipelines : Distinct(order[p])

LEMMA OrderedType ==
    ASSUME OrdersKept, NEW p \in Pipelines, Ordered(p)
    PROVE  /\ order' \in [Pipelines -> Seq(Names)]
           /\ order'[p] \in Seq(Names)
           /\ Elements(order'[p]) = nodes[p]
           /\ \A q \in Pipelines : Distinct(order'[q])
           /\ \A q \in Pipelines : order'[q] = <<>> \/ Elements(order'[q]) = nodes[q]
<1>1. CASE order[p] = <<>>
  <2>1. PICK s \in Orders(nodes[p]) : order' = [order EXCEPT ![p] = s]
    BY <1>1 DEF Ordered
  <2>2. s \in Seq(Names) /\ Elements(s) = nodes[p] /\ Distinct(s)
    BY <2>1, OrdersComplete DEF OrdersKept
  <2>3. QED BY <2>1, <2>2 DEF OrdersKept
<1>2. CASE order[p] # <<>>
  BY <1>2 DEF Ordered, OrdersKept
<1>3. QED BY <1>1, <1>2

LEMMA OrdersStep == OrdersKept /\ [Next]_vars => OrdersKept'
<1> SUFFICES ASSUME OrdersKept, [Next]_vars PROVE OrdersKept'
  OBVIOUS
<1>1. ASSUME NEW p \in Pipelines, NEW n \in Names, AddNode(p, n) PROVE OrdersKept'
  BY <1>1 DEF AddNode, OrdersKept, Distinct
<1>2. ASSUME NEW p \in Pipelines, NEW q \in QueryNames, AddQueryNode(p, q) PROVE OrdersKept'
  BY <1>2 DEF AddQueryNode, OrdersKept, Distinct
<1>3. ASSUME NEW p \in Pipelines, Ordered(p), nodes' = nodes PROVE OrdersKept'
  BY <1>3, OrderedType DEF OrdersKept
<1>4. ASSUME UNCHANGED <<nodes, order>> PROVE OrdersKept'
  BY <1>4 DEF OrdersKept
<1>5. QED
  BY <1>1, <1>2, <1>3, <1>4
     DEF Next, Execute, QueryRaises, PassSource, StartNode, StopsBefore, NodeRaises, NodeReturns, Finish,
         SaveIntervalData, Expire, CleanupExpiredData, ClearCache, Idle, pipes, vars
-----------------------------------------------------------------------------
\* A run is a record, and the node it executes is the next of its list, in which
\* no node comes twice.
RunShape ==
    run # None =>
        /\ run \in Runs /\ Distinct(run.todo)
        /\ run.node # None => run.todo # <<>> /\ run.node = Head(run.todo)

\* A node of the pipeline that is executed has its result or is still to come.
ResultsToCome ==
    run # None => nodes[run.pipe] \ Sources \subseteq results \cup Elements(run.todo)

\* Only the node that is executed may have the wrapper as its fn.
WrappedNow == wrapped \subseteq {n \in Names : run # None /\ n = run.node}

RunInv == RunShape /\ ResultsToCome /\ WrappedNow

LEMMA RunInit == Init => RunInv
BY DEF Init, RunInv, RunShape, ResultsToCome, WrappedNow

LEMMA NextNodeTaken ==
    ASSUME RunShape, run # None, run.todo # <<>>
    PROVE  /\ NextNode \in Names /\ NextNode # None
           /\ Tail(run.todo) \in Seq(Names)
           /\ Elements(run.todo) = {NextNode} \cup Elements(Tail(run.todo))
           /\ Distinct(Tail(run.todo)) /\ NextNode \notin Elements(Tail(run.todo))
<1>1. run.todo \in Seq(Names) /\ Distinct(run.todo)
  BY DEF RunShape, Runs
<1>2. /\ Head(run.todo) \in Names
      /\ Tail(run.todo) \in Seq(Names)
      /\ Elements(run.todo) = {Head(run.todo)} \cup Elements(Tail(run.todo))
      /\ Distinct(Tail(run.todo)) /\ Head(run.todo) \notin Elements(Tail(run.todo))
  <2> DEFINE s == run.todo
  <2>1. /\ Len(s) \in Nat \ {0} /\ Head(s) \in Names /\ Head(s) = s[1]
        /\ Tail(s) \in Seq(Names) /\ Len(Tail(s)) = Len(s) - 1
        /\ \A i \in 1 .. Len(Tail(s)) : Tail(s)[i] = s[i + 1]
    BY <1>1, HeadTailProperties
  <2> HIDE DEF s
  <2>2. \A i \in 2 .. Len(s) : i - 1 \in 1 .. Len(Tail(s)) /\ Tail(s)[i - 1] = s[i]
    BY <2>1
  <2>3. \A i \in 1 .. Len(Tail(s)) : i + 1 \in 1 .. Len(s)
    BY <2>1
  <2>4. 1 \in 1 .. Len(s) /\ \A i \in 1 .. Len(s) : i = 1 \/ i \in 2 .. Len(s)
    BY <2>1
  <2>5. Elements(s) = {Head(s)} \cup Elements(Tail(s))
    BY <2>1, <2>2, <2>3, <2>4 DEF Elements
  <2>6. Distinct(s)
    BY <1>1 DEF s
  <2>7. ASSUME NEW i \in 1 .. Len(Tail(s)), NEW j \in 1 .. Len(Tail(s)), Tail(s)[i] = Tail(s)[j] PROVE i = j
    <3>1. s[i + 1] = s[j + 1]
      BY <2>1, <2>7
    <3>2. i + 1 = j + 1
      BY <2>3, <2>6, <3>1 DEF Distinct
    <3>3. QED BY <3>2
  <2>8. \A i \in 1 .. Len(Tail(s)) : i + 1 # 1 /\ s[i + 1] # s[1]
    BY <2>1, <2>3, <2>4, <2>6 DEF Distinct
  <2>9. Distinct(Tail(s)) /\ Head(s) \notin Elements(Tail(s))
    BY <2>1, <2>7, <2>8 DEF Distinct, Elements
  <2>10. QED BY <2>1, <2>5, <2>9 DEF s
<1>3. QED
  BY <1>2, EngineAssumption DEF EngineAssumption, NextNode

LEMMA RunStep == OrdersKept /\ RunInv /\ [Next]_vars => RunInv'
<1> SUFFICES ASSUME OrdersKept, RunInv, [Next]_vars PROVE RunInv'
  OBVIOUS
<1>1. ASSUME NEW p \in Pipelines, NEW inputs \in Inputs, NEW timed \in BOOLEAN,
             NEW override \in Overrides \cup {None}, Execute(p, inputs, timed, override)
      PROVE  RunInv'
  <2>1. PICK query \in [QueryNames -> Answers] :
            run' = [pipe |-> p, todo |-> order'[p], inputs |-> inputs, timed |-> timed,
                    node |-> None, query |-> query]
    BY <1>1 DEF Execute
  <2>2. run = None /\ Ordered(p) /\ nodes' = nodes /\ wrapped' = wrapped
    BY <1>1 DEF Execute
  <2>3. order'[p] \in Seq(Names) /\ Elements(order'[p]) = nodes[p] /\ Distinct(order'[p])
    BY <2>2, OrderedType
  <2>4. wrapped = {}
    BY <2>2 DEF RunInv, WrappedNow
  <2>5. run' \in Runs
    BY <2>1, <2>3, EngineAssumption DEF EngineAssumption, Runs
  <2>6. QED
    BY <2>1, <2>2, <2>3, <2>4, <2>5, RunAssumption
       DEF RunAssumption, RunInv, RunShape, ResultsToCome, WrappedNow
<1>2. ASSUME PassSource PROVE RunInv'
  <2>1. /\ run # None /\ run.node = None /\ run.todo # <<>> /\ NextNode \in Sources
        /\ run' = [run EXCEPT !.todo = Tail(@)]
        /\ UNCHANGED <<nodes, results, wrapped>>
    BY <1>2 DEF PassSource, AtNode, Given, pipes
  <2>2. /\ Tail(run.todo) \in Seq(Names)
        /\ Elements(run.todo) = {NextNode} \cup Elements(Tail(run.todo))
        /\ Distinct(Tail(run.todo))
    BY <2>1, NextNodeTaken DEF RunInv
  <2>3. run' \in Runs /\ run'.pipe = run.pipe /\ run'.todo = Tail(run.todo) /\ run'.node = None
    BY <2>1, <2>2 DEF RunInv, RunShape, Runs
  <2>4. QED
    BY <2>1, <2>2, <2>3, RunAssumption
       DEF RunAssumption, RunInv, RunShape, ResultsToCome, WrappedNow
<1>3. ASSUME StartNode PROVE RunInv'
  <2>1. /\ run # None /\ run.node = None /\ run.todo # <<>>
        /\ run' = [run EXCEPT !.node = NextNode]
        /\ wrapped' = IF run.timed THEN wrapped \cup {NextNode} ELSE wrapped
        /\ UNCHANGED <<nodes, results>>
    BY <1>3 DEF StartNode, AtNode, pipes
  <2>2. NextNode \in Names /\ NextNode # None
    BY <2>1, NextNodeTaken DEF RunInv
  <2>3. run' \in Runs /\ run'.pipe = run.pipe /\ run'.todo = run.todo /\ run'.node = NextNode
    BY <2>1, <2>2 DEF RunInv, RunShape, Runs
  <2>4. wrapped = {}
    BY <2>1, EngineAssumption DEF EngineAssumption, RunInv, WrappedNow
  <2>5. QED
    BY <2>1, <2>2, <2>3, <2>4, RunAssumption
       DEF RunAssumption, RunInv, RunShape, ResultsToCome, WrappedNow, NextNode
<1>4. ASSUME StopsBefore PROVE RunInv'
  BY <1>4, EngineAssumption DEF EngineAssumption, StopsBefore, AtNode, Abort, RunInv, RunShape, ResultsToCome, WrappedNow
<1>5. ASSUME NodeRaises PROVE RunInv'
  BY <1>5 DEF NodeRaises, Abort, RunInv, RunShape, ResultsToCome, WrappedNow
<1>6. ASSUME NodeReturns PROVE RunInv'
  <2>1. /\ run # None /\ run.node # None
        /\ run' = [run EXCEPT !.todo = Tail(@), !.node = None]
        /\ wrapped' = wrapped \ {run.node}
        /\ results' = results \cup {run.node}
        /\ nodes' = nodes
    BY <1>6 DEF NodeReturns, pipes
  <2>2. run.todo # <<>> /\ run.node = NextNode
    BY <2>1 DEF RunInv, RunShape, NextNode
  <2>3. /\ Tail(run.todo) \in Seq(Names)
        /\ Elements(run.todo) = {NextNode} \cup Elements(Tail(run.todo))
        /\ Distinct(Tail(run.todo))
    BY <2>1, <2>2, NextNodeTaken DEF RunInv
  <2>4. run' \in Runs /\ run'.pipe = run.pipe /\ run'.todo = Tail(run.todo) /\ run'.node = None
    BY <2>1, <2>2, <2>3 DEF RunInv, RunShape, Runs
  <2>5. QED
    BY <2>1, <2>2, <2>3, <2>4, RunAssumption
       DEF RunAssumption, RunInv, RunShape, ResultsToCome, WrappedNow
<1>7. ASSUME Finish PROVE RunInv'
  <2>1. run.node = None
    BY <1>7 DEF Finish, RunInv, RunShape
  <2>2. QED
    BY <1>7, <2>1, EngineAssumption DEF EngineAssumption, Finish, Abort, RunInv, RunShape, ResultsToCome, WrappedNow
<1>8. ASSUME run = None, UNCHANGED <<run, wrapped>> PROVE RunInv'
  BY <1>8 DEF RunInv, RunShape, ResultsToCome, WrappedNow
<1>9. CASE UNCHANGED vars
  BY <1>9 DEF vars, pipes, RunInv, RunShape, ResultsToCome, WrappedNow
<1>10. QED
  BY <1>1, <1>2, <1>3, <1>4, <1>5, <1>6, <1>7, <1>8, <1>9
     DEF Next, AddNode, AddQueryNode, QueryRaises, SaveIntervalData, Expire, CleanupExpiredData,
         ClearCache, Idle

LEMMA RunHolds == Spec => [](OrdersKept /\ RunInv)
<1>1. Init => OrdersKept
  BY DEF Init, OrdersKept, Distinct
<1>2. QED
  BY <1>1, RunInit, OrdersStep, RunStep, PTL DEF Spec

\* No time-checking wrapper outlives the execution it was made for, however that
\* ended, in any number of runs of any pipelines.
THEOREM FnRestoredHolds == Spec => []FnRestored
<1>1. RunInv => FnRestored
  BY DEF RunInv, WrappedNow, FnRestored
<1>2. QED BY <1>1, RunHolds, PTL
-----------------------------------------------------------------------------
CachesTyped == DOMAIN resultsCache = Pipelines

LEMMA CachesStep == CachesTyped /\ [Next]_vars => CachesTyped'
BY DEF CachesTyped, Next, vars, pipes, Idle, AddNode, AddQueryNode, Execute, QueryRaises, PassSource,
       StartNode, StopsBefore, NodeRaises, NodeReturns, Finish, SaveIntervalData, Expire,
       CleanupExpiredData, ClearCache

\* A run that succeeds has a result for every node with upstreams, whatever was
\* added to the pipeline since its order was last computed.
THEOREM CompleteResultsHolds == Spec => CompleteResults
<1> DEFINE Complete == \A p \in Pipelines : resultsCache'[p] # resultsCache[p] =>
                           nodes[p] \ Sources \subseteq DOMAIN resultsCache'[p]
<1>1. ASSUME CachesTyped, RunInv, [Next]_vars PROVE Complete
  <2>1. ASSUME Finish PROVE Complete
    <3>1. /\ run # None /\ run.todo = <<>>
          /\ resultsCache' = [resultsCache EXCEPT ![run.pipe] = [n \in results |-> stamp]]
      BY <2>1 DEF Finish
    <3>2. run.pipe \in Pipelines /\ nodes[run.pipe] \ Sources \subseteq results
      BY <1>1, <3>1 DEF RunInv, RunShape, Runs, ResultsToCome, Elements
    <3>3. DOMAIN resultsCache'[run.pipe] = results
      BY <1>1, <3>1, <3>2 DEF CachesTyped
    <3>4. \A p \in Pipelines \ {run.pipe} : resultsCache'[p] = resultsCache[p]
      BY <1>1, <3>1 DEF CachesTyped
    <3>5. QED BY <3>2, <3>3, <3>4
  <2>2. ASSUME UNCHANGED resultsCache PROVE Complete
    BY <2>2
  <2>3. QED
    BY <1>1, <2>1, <2>2
       DEF Next, vars, Idle, AddNode, AddQueryNode, Execute, QueryRaises, PassSource, StartNode,
           StopsBefore, NodeRaises, NodeReturns, SaveIntervalData, Expire, CleanupExpiredData, ClearCache
<1>2. Init => CachesTyped
  BY DEF Init, CachesTyped
<1>3. QED
  BY <1>1, <1>2, CachesStep, RunHolds, PTL DEF Spec, CompleteResults
-----------------------------------------------------------------------------
LEMMA StoresStep == StoresAgree /\ [Next]_vars => StoresAgree'
BY DEF StoresAgree, Next, vars, pipes, stores, Idle, AddNode, AddQueryNode, Execute, QueryRaises,
       PassSource, StartNode, StopsBefore, NodeRaises, NodeReturns, Finish, Save, Saved, Truncated,
       SaveIntervalData, Expire, CleanupExpiredData, ClearCache

\* History and cache hold the same items after any runs, failures, expiries and
\* clearings: get_interval_data answers alike from either.
THEOREM StoresAgreeHolds == Spec => []StoresAgree
<1>1. Init => StoresAgree
  BY DEF Init, StoresAgree
<1>2. QED BY <1>1, StoresStep, PTL DEF Spec
-----------------------------------------------------------------------------
(* Lists of items.                                                         *)

Descending(s) == \A i, j \in 1 .. Len(s) : i < j => s[i].stamp > s[j].stamp

\* t has the stamps of s at some of its places, in their order.
Thinned(t, s) ==
    \E f \in [1 .. Len(t) -> 1 .. Len(s)] :
        /\ \A k \in 1 .. Len(t) : t[k].stamp = s[f[k]].stamp
        /\ \A j, k \in 1 .. Len(t) : j < k => f[j] < f[k]

\* The filter leaves items of the list, in their order.
LEMMA LiveThins ==
    ASSUME NEW S, NEW s \in Seq(S)
    PROVE  Live(s) \in Seq(S) /\ Len(Live(s)) <= Len(s) /\ Thinned(Live(s), s)
<1> DEFINE U == Unexpired(s)
           c == Cardinality(U)
           UpTo(i) == {j \in U : j <= i}
           rank == [i \in U |-> Cardinality(UpTo(i))]
           place == [k \in 1 .. c |-> CHOOSE i \in U : Cardinality(UpTo(i)) = k]
<1>1. Len(s) \in Nat /\ U \subseteq 1 .. Len(s)
  BY DEF Unexpired
<1>a. (\A i \in 1 .. Len(s) : s[i] \in S) /\ \A i \in U : i \in Nat
  BY <1>1
<1>2. IsFiniteSet(U) /\ c \in Nat /\ c <= Len(s)
  <2>1. 1 \in Int /\ Len(s) \in Int
    BY <1>1
  <2>2. /\ IsFiniteSet(1 .. Len(s))
        /\ Cardinality(1 .. Len(s)) = IF 1 > Len(s) THEN 0 ELSE Len(s) - 1 + 1
    BY <2>1, FS_Interval
  <2>3. Cardinality(1 .. Len(s)) = Len(s)
    BY <1>1, <2>2
  <2>4. IsFiniteSet(U) /\ c <= Cardinality(1 .. Len(s))
    BY <1>1, <2>2, FS_Subset
  <2>5. c \in Nat
    BY <2>4, FS_CardinalityType
  <2>6. QED BY <2>3, <2>4, <2>5
<1>3. ASSUME NEW i \in U
      PROVE  /\ IsFiniteSet(UpTo(i)) /\ Cardinality(UpTo(i)) \in 1 .. c
  <2>1. UpTo(i) \in SUBSET U /\ UpTo(i) # {}
    BY <1>1
  <2>2. IsFiniteSet(UpTo(i)) /\ Cardinality(UpTo(i)) <= c /\ Cardinality(UpTo(i)) # 0
    BY <1>2, <2>1, FS_Subset, FS_EmptySet
  <2>3. Cardinality(UpTo(i)) \in Nat
    BY <2>2, FS_CardinalityType
  <2> HIDE DEF UpTo, c
  <2>4. QED BY <2>2, <2>3, <1>2
<1>4. ASSUME NEW i \in U, NEW j \in U, i < j
      PROVE  Cardinality(UpTo(i)) < Cardinality(UpTo(j))
  <2>1. UpTo(i) \in SUBSET UpTo(j) /\ j \in UpTo(j) /\ j \notin UpTo(i)
    BY <1>1, <1>4
  <2>2. Cardinality(UpTo(i)) <= Cardinality(UpTo(j)) /\ Cardinality(UpTo(i)) # Cardinality(UpTo(j))
    BY <1>3, <2>1, FS_Subset
  <2>3. Cardinality(UpTo(i)) \in 1 .. c /\ Cardinality(UpTo(j)) \in 1 .. c
    BY <1>3
  <2> HIDE DEF UpTo, c
  <2>4. QED BY <2>2, <2>3, <1>2
<1>5. \A k \in 1 .. c : \E i \in U : Cardinality(UpTo(i)) = k
  <2>1. rank \in [U -> 1 .. c] /\ \A i, j \in U : i # j => rank[i] # rank[j]
    <3>1. \A i \in U : rank[i] = Cardinality(UpTo(i))
      OBVIOUS
    <3>2. \A i, j \in U : i # j => i < j \/ j < i
      BY <1>1
    <3>3. \A i \in U : rank[i] \in 1 .. c
      BY <1>3
    <3>4. \A i, j \in U : i < j => rank[i] < rank[j]
      BY <1>4
    <3>5. rank \in [U -> 1 .. c]
      <4> HIDE DEF UpTo, U, c
      <4>1. QED BY <1>3
    <3> HIDE DEF rank, U, c
    <3>6. QED BY <1>2, <3>2, <3>3, <3>4, <3>5
  <2>2. rank \in Injection(U, 1 .. c)
    <3> HIDE DEF rank
    <3>1. QED BY <2>1, Fun_IsInj
  <2>3. IsFiniteSet(1 .. c) /\ Cardinality(1 .. c) = c
    <3> HIDE DEF c
    <3>1. 1 \in Int /\ c \in Int
      BY <1>2
    <3>2. IsFiniteSet(1 .. c) /\ Cardinality(1 .. c) = IF 1 > c THEN 0 ELSE c - 1 + 1
      BY <3>1, FS_Interval
    <3>3. QED BY <1>2, <3>2
  <2>4. rank \in Surjection(U, 1 .. c)
    BY <2>2, <2>3, FS_Injection
  <2>5. \A k \in 1 .. c : \E i \in U : rank[i] = k
    <3> HIDE DEF rank, c, U
    <3>1. QED BY <2>4, Fun_SurjectionProperties
  <2>6. QED BY <2>5
<1>6. \A k \in 1 .. c : place[k] \in U /\ Cardinality(UpTo(place[k])) = k
  BY <1>5
<1>7. Live(s) = [k \in 1 .. c |-> s[place[k]]]
  BY DEF Live
<1>8. place \in [1 .. c -> U]
  BY <1>6
<1> HIDE DEF place, UpTo, U, c
<1>9. ASSUME NEW j \in 1 .. c, NEW k \in 1 .. c, j < k PROVE place[j] < place[k]
  <2>1. place[j] \in U /\ place[k] \in U /\ place[j] \in Nat /\ place[k] \in Nat
    BY <1>a, <1>6, <1>9
  <2>2. j \in Nat /\ k \in Nat /\ j # k
    BY <1>2, <1>9
  <2>3. place[j] # place[k]
    BY <1>6, <2>2
  <2>4. CASE place[k] < place[j]
    <3>1. Cardinality(UpTo(place[k])) < Cardinality(UpTo(place[j]))
      BY <1>4, <2>1, <2>4
    <3>2. k < j
      BY <1>6, <3>1
    <3>3. QED BY <1>9, <2>2, <3>2
  <2>5. QED BY <2>1, <2>3, <2>4
<1>10. ASSUME NEW k \in 1 .. c PROVE place[k] \in 1 .. Len(s) /\ s[place[k]] \in S
  <2>1. place[k] \in 1 .. Len(s)
    BY <1>1, <1>6
  <2>2. QED BY <1>a, <2>1
<1>11. Live(s) \in Seq(S) /\ Len(Live(s)) = c
  BY <1>2, <1>7, <1>10
<1>12. place \in [1 .. c -> 1 .. Len(s)]
  BY <1>1, <1>8
<1>13. Thinned(Live(s), s)
  BY <1>7, <1>9, <1>11, <1>12 DEF Thinned
<1>14. QED BY <1>2, <1>11, <1>13

LEMMA FirstThins ==
    ASSUME NEW S, NEW s \in Seq(S), NEW k \in Nat
    PROVE  /\ First(s, k) \in Seq(S) /\ Len(First(s, k)) <= Len(s)
           /\ \A i \in 1 .. Len(First(s, k)) : i \in 1 .. Len(s) /\ First(s, k)[i] = s[i]
           /\ Thinned(First(s, k), s)
<1> DEFINE n == IF Len(s) < k THEN Len(s) ELSE k
<1>1. Len(s) \in Nat /\ n \in Nat /\ n <= Len(s) /\ First(s, k) = SubSeq(s, 1, n)
  BY DEF First
<1> HIDE DEF n
<1>2. \A i \in 1 .. n : s[i] \in S
  BY <1>1
<1>3. /\ SubSeq(s, 1, n) \in Seq(S)
      /\ Len(SubSeq(s, 1, n)) = IF 1 <= n THEN n - 1 + 1 ELSE 0
      /\ \A i \in 1 .. n - 1 + 1 : SubSeq(s, 1, n)[i] = s[1 + i - 1]
  <2>1. 1 \in Int /\ n \in Int
    BY <1>1
  <2>2. QED BY <1>2, <2>1, SubSeqProperties
<1>4. Len(First(s, k)) = n /\ \A i \in 1 .. n : First(s, k)[i] = s[i]
  BY <1>1, <1>3
<1>5. \A i \in 1 .. n : i \in 1 .. Len(s)
  BY <1>1
<1>6. [i \in 1 .. n |-> i] \in [1 .. n -> 1 .. Len(s)]
  BY <1>5
<1>7. Thinned(First(s, k), s)
  BY <1>4, <1>6 DEF Thinned
<1>8. QED BY <1>1, <1>3, <1>4, <1>5, <1>7

LEMMA ThinnedDescends ==
    ASSUME NEW s, NEW t, Descending(s), Thinned(t, s)
    PROVE  Descending(t)
<1>1. PICK f \in [1 .. Len(t) -> 1 .. Len(s)] :
          /\ \A k \in 1 .. Len(t) : t[k].stamp = s[f[k]].stamp
          /\ \A j, k \in 1 .. Len(t) : j < k => f[j] < f[k]
  BY DEF Thinned
<1>2. QED BY <1>1 DEF Descending

LEMMA ThinnedBelow ==
    ASSUME NEW s, NEW t, Thinned(t, s), NEW i \in 1 .. Len(t)
    PROVE  \E j \in 1 .. Len(s) : t[i].stamp = s[j].stamp
BY DEF Thinned

LEMMA SavedDescends ==
    ASSUME NEW s \in Seq(Items), Descending(s), NEW item \in Items, NEW k \in Nat,
           \A i \in 1 .. Len(s) : s[i].stamp < item.stamp
    PROVE  /\ First(<<item>> \o s, k) \in Seq(Items) /\ Descending(First(<<item>> \o s, k))
           /\ \A i \in 1 .. Len(First(<<item>> \o s, k)) : First(<<item>> \o s, k)[i].stamp <= item.stamp
<1> DEFINE t == <<item>> \o s
<1>1. \A x \in Items : x.stamp \in Nat
  BY DEF Items, Stamps
<1>2. <<item>> \in Seq(Items) /\ Len(<<item>>) = 1 /\ <<item>>[1] = item /\ Len(s) \in Nat
  OBVIOUS
<1>3. /\ t \in Seq(Items) /\ Len(t) = 1 + Len(s)
      /\ \A i \in 1 .. 1 + Len(s) : t[i] = IF i <= 1 THEN <<item>>[i] ELSE s[i - 1]
  BY <1>2, ConcatProperties
<1> HIDE DEF t
<1>4. t[1] = item /\ \A i \in 2 .. Len(t) : i - 1 \in 1 .. Len(s) /\ t[i] = s[i - 1]
  BY <1>2, <1>3
<1>5. \A i \in 1 .. Len(t) : i = 1 \/ i \in 2 .. Len(t)
  BY <1>2, <1>3
<1>6. \A i \in 1 .. Len(t) : t[i].stamp <= item.stamp
  <2>1. \A i \in 1 .. Len(s) : s[i].stamp \in Nat /\ item.stamp \in Nat
    BY <1>1
  <2>2. \A i \in 1 .. Len(t) : t[i] = item \/ t[i].stamp < item.stamp
    BY <1>4, <1>5
  <2>3. item.stamp \in Nat /\ \A i \in 1 .. Len(t) : t[i].stamp \in Nat
    BY <1>1, <1>3
  <2>4. QED BY <2>2, <2>3
<1>7. Descending(t)
  <2> SUFFICES ASSUME NEW i \in 1 .. Len(t), NEW j \in 1 .. Len(t), i < j
               PROVE  t[i].stamp > t[j].stamp
    BY DEF Descending
  <2>1. j \in 2 .. Len(t)
    BY <1>5
  <2>2. CASE i = 1
    BY <1>1, <1>4, <2>1, <2>2
  <2>3. CASE i \in 2 .. Len(t)
    <3>1. i - 1 < j - 1
      BY <2>1, <2>3
    <3>2. QED BY <1>4, <2>1, <2>3, <3>1 DEF Descending
  <2>4. QED BY <1>5, <2>2, <2>3
<1>8. /\ First(t, k) \in Seq(Items) /\ Thinned(First(t, k), t)
      /\ \A i \in 1 .. Len(First(t, k)) : i \in 1 .. Len(t) /\ First(t, k)[i] = t[i]
  BY <1>3, FirstThins
<1>9. Descending(First(t, k))
  BY <1>7, <1>8, ThinnedDescends
<1>10. QED BY <1>6, <1>8, <1>9 DEF t
-----------------------------------------------------------------------------
\* A run has a stamp.
StampInv == stamp \in 0 .. MaxStamp /\ (run # None => stamp \in Stamps)

LEMMA StampStep == StampInv /\ [Next]_vars => StampInv'
<1> SUFFICES ASSUME StampInv, [Next]_vars PROVE StampInv'
  OBVIOUS
<1>1. MaxStamp \in Nat
  BY EngineAssumption DEF EngineAssumption
<1>2. CASE stamp < MaxStamp /\ stamp' = stamp + 1
  BY <1>1, <1>2 DEF StampInv, Stamps
<1>3. CASE stamp' = stamp /\ (run' # None => run # None)
  BY <1>3 DEF StampInv, Stamps
<1>4. QED
  BY <1>2, <1>3
     DEF Next, vars, Idle, AddNode, AddQueryNode, Execute, QueryRaises, PassSource, StartNode, Abort,
         AtNode, StopsBefore, NodeRaises, NodeReturns, Finish, SaveIntervalData, Expire,
         CleanupExpiredData, ClearCache

\* An item of a node that the run has still to execute is older than the run.
Waiting(n) == run # None /\ n \in Elements(run.todo)

ItemsSorted ==
    \A k \in Keys :
        /\ Descending(history[k])
        /\ \A i \in 1 .. Len(history[k]) :
              /\ history[k][i].stamp <= stamp
              /\ Waiting(k[1]) => history[k][i].stamp < stamp

StoreInv == history \in [Keys -> Seq(Items)] /\ ItemsSorted

LEMMA ItemStamps ==
    ASSUME history \in [Keys -> Seq(Items)], NEW k \in Keys, NEW i \in 1 .. Len(history[k])
    PROVE  history[k][i].stamp \in Nat
<1>1. history[k][i] \in Items
  OBVIOUS
<1>2. QED BY <1>1 DEF Items, Stamps

\* A step that leaves the items alone.
LEMMA StoreSame ==
    ASSUME StampInv, StoreInv, history' = history,
           \/ stamp' = stamp /\ \A n \in Names : Waiting(n)' => Waiting(n)
           \/ stamp' = stamp + 1
    PROVE  StoreInv'
<1>1. ASSUME NEW k \in Keys, NEW i \in 1 .. Len(history[k])
      PROVE  /\ history[k][i].stamp <= stamp'
             /\ Waiting(k[1])' => history[k][i].stamp < stamp'
  <2>1. /\ history[k][i].stamp \in Nat /\ history[k][i].stamp <= stamp
        /\ Waiting(k[1]) => history[k][i].stamp < stamp
    BY ItemStamps DEF StoreInv, ItemsSorted
  <2>2. stamp \in Nat /\ k[1] \in Names
    BY DEF StampInv, Keys
  <2>3. CASE stamp' = stamp /\ \A n \in Names : Waiting(n)' => Waiting(n)
    BY <2>1, <2>2, <2>3
  <2>4. CASE stamp' = stamp + 1
    BY <2>1, <2>2, <2>4
  <2>5. QED BY <2>3, <2>4
<1>2. QED BY <1>1 DEF StoreInv, ItemsSorted, Descending

\* A step that drops items or makes them expire.
LEMMA StoreThinned ==
    ASSUME StampInv, StoreInv, stamp' = stamp, run' = None,
           history' \in [Keys -> Seq(Items)],
           \A k \in Keys : history'[k] = history[k] \/ Thinned(history'[k], history[k])
    PROVE  StoreInv'
<1>1. ASSUME NEW k \in Keys
      PROVE  /\ Descending(history'[k])
             /\ \A i \in 1 .. Len(history'[k]) : history'[k][i].stamp <= stamp
  <2>1. Descending(history[k]) /\ \A i \in 1 .. Len(history[k]) : history[k][i].stamp <= stamp
    BY DEF StoreInv, ItemsSorted
  <2>2. CASE history'[k] = history[k]
    BY <2>1, <2>2
  <2>3. CASE Thinned(history'[k], history[k])
    <3>1. PICK t : t = history'[k]
      OBVIOUS
    <3>2. Descending(t)
      BY <2>1, <2>3, <3>1, ThinnedDescends
    <3>3. \A i \in 1 .. Len(t) : \E j \in 1 .. Len(history[k]) : t[i].stamp = history[k][j].stamp
      BY <2>3, <3>1, ThinnedBelow
    <3>4. QED BY <2>1, <3>1, <3>2, <3>3
  <2>4. QED BY <2>2, <2>3
<1>2. QED BY <1>1 DEF StoreInv, ItemsSorted, Waiting, Descending

\* What a save does to the list of one key.
LEMMA StoreSaved ==
    ASSUME StampInv, StoreInv, NEW K, NEW limit \in Nat, NEW item \in Items,
           history' = Saved(history, K, item, limit), item.stamp = stamp',
           stamp' = stamp \/ stamp' = stamp + 1,
           \A k \in Keys : k \in K =>
              \A i \in 1 .. Len(history[k]) : history[k][i].stamp < item.stamp,
           \A k \in Keys : Waiting(k[1])' => k \notin K /\ Waiting(k[1])
    PROVE  StoreInv'
<1>1. ASSUME NEW k \in Keys
      PROVE  /\ history'[k] \in Seq(Items) /\ Descending(history'[k])
             /\ \A i \in 1 .. Len(history'[k]) :
                   /\ history'[k][i].stamp <= stamp'
                   /\ Waiting(k[1])' => history'[k][i].stamp < stamp'
  <2>1. history[k] \in Seq(Items) /\ Descending(history[k])
    BY DEF StoreInv, ItemsSorted
  <2>2. CASE k \in K
    <3>1. history'[k] = First(<<item>> \o history[k], limit)
      BY <2>2 DEF Saved
    <3>2. /\ First(<<item>> \o history[k], limit) \in Seq(Items)
          /\ Descending(First(<<item>> \o history[k], limit))
          /\ \A i \in 1 .. Len(First(<<item>> \o history[k], limit)) :
                First(<<item>> \o history[k], limit)[i].stamp <= item.stamp
      BY <2>1, <2>2, SavedDescends
    <3>3. QED BY <2>2, <3>1, <3>2
  <2>3. CASE k \notin K
    <3>1. history'[k] = history[k]
      BY <2>3 DEF Saved
    <3>2. stamp \in Nat
      BY DEF StampInv
    <3>3. ASSUME NEW i \in 1 .. Len(history[k])
          PROVE  /\ history[k][i].stamp <= stamp'
                 /\ Waiting(k[1])' => history[k][i].stamp < stamp'
      <4>1. /\ history[k][i].stamp \in Nat /\ history[k][i].stamp <= stamp
            /\ Waiting(k[1]) => history[k][i].stamp < stamp
        BY ItemStamps DEF StoreInv, ItemsSorted
      <4>2. QED BY <3>2, <4>1
    <3>4. QED BY <2>1, <3>1, <3>3
  <2>4. QED BY <2>2, <2>3
<1>2. history' \in [Keys -> Seq(Items)]
  <2>1. history' = [k \in Keys |-> IF k \in K THEN First(<<item>> \o history[k], limit) ELSE history[k]]
    BY DEF Saved
  <2>2. \A k \in Keys : history'[k] \in Seq(Items)
    BY <1>1
  <2>3. QED BY <2>1, <2>2
<1>3. QED BY <1>1, <1>2 DEF StoreInv, ItemsSorted, Descending

LEMMA AppliedType ==
    ASSUME NEW p \in Pipelines, NEW n \in Names, NEW i \in DOMAIN Applied(p, n)
    PROVE  Applied(p, n)[i].max \in Nat
<1> DEFINE Setting == [period : Nat, max : Nat \ {0}]
<1>1. \A j \in DOMAIN Own[n] : Own[n][j] \in Setting
  BY EngineAssumption DEF EngineAssumption
<1>2. \A j \in DOMAIN Defaults[p] : Defaults[p][j] \in Setting
  BY EngineAssumption DEF EngineAssumption
<1>3. i \in DOMAIN Own[n] \cup DOMAIN Defaults[p]
  BY DEF Applied
<1>4. Applied(p, n)[i] = IF i \notin DOMAIN Own[n] THEN Defaults[p][i]
                         ELSE IF i \in DOMAIN Defaults[p] /\ Own[n][i].period = 1
                              THEN [Own[n][i] EXCEPT !.period = Defaults[p][i].period]
                              ELSE Own[n][i]
  BY <1>3 DEF Applied
<1>5. QED BY <1>1, <1>2, <1>3, <1>4

LEMMA StoreStep ==
    OrdersKept /\ RunInv /\ StampInv /\ StoreInv /\ [Next]_vars => StoreInv'
<1> SUFFICES ASSUME OrdersKept, RunInv, StampInv, StoreInv, [Next]_vars PROVE StoreInv'
  OBVIOUS
<1>1. CASE history' = history /\ stamp' = stamp /\ (run' = run \/ run' = None)
  BY <1>1, StoreSame DEF Waiting
<1>2. CASE history' = history /\ stamp' = stamp + 1
  BY <1>2, StoreSame
<1>3. CASE PassSource
  <2>1. /\ run # None /\ run.todo # <<>> /\ run' = [run EXCEPT !.todo = Tail(@)]
        /\ history' = history /\ stamp' = stamp
    BY <1>3 DEF PassSource, AtNode, stores
  <2>2. Elements(Tail(run.todo)) \subseteq Elements(run.todo) /\ run'.todo = Tail(run.todo)
    BY <2>1, NextNodeTaken DEF RunInv, RunShape, Runs
  <2>3. QED BY <2>1, <2>2, StoreSame DEF Waiting
<1>4. CASE StartNode
  <2>1. run # None /\ run' = [run EXCEPT !.node = NextNode] /\ history' = history /\ stamp' = stamp
    BY <1>4 DEF StartNode, AtNode, stores
  <2>2. run'.todo = run.todo
    BY <2>1 DEF RunInv, RunShape, Runs
  <2>3. QED BY <2>1, <2>2, StoreSame DEF Waiting
<1>5. CASE NodeReturns
  <2> DEFINE K == {run.node} \X DOMAIN Applied(run.pipe, run.node)
             item == [stamp |-> stamp, expires |-> "never"]
  <2>1. /\ run # None /\ run.node # None /\ run' = [run EXCEPT !.todo = Tail(@), !.node = None]
        /\ stamp' = stamp /\ Item("never") = item
        /\ history' = Saved(history, K, Item("never"), SaveLimit)
    BY <1>5 DEF NodeReturns, Save, Item
  <2>2. run.todo # <<>> /\ run.node = NextNode
    BY <2>1 DEF RunInv, RunShape, NextNode
  <2>3. /\ run'.todo = Tail(run.todo) /\ NextNode \notin Elements(Tail(run.todo))
        /\ Elements(run.todo) = {NextNode} \cup Elements(Tail(run.todo))
    BY <2>1, <2>2, NextNodeTaken DEF RunInv, RunShape, Runs
  <2>4. item \in Items /\ item.stamp = stamp'
    BY <2>1 DEF Items, StampInv
  <2>5. \A k \in Keys : k \in K => k[1] = run.node
    OBVIOUS
  <2>6. \A k \in Keys : k \in K => \A i \in 1 .. Len(history[k]) : history[k][i].stamp < item.stamp
    BY <2>1, <2>2, <2>3, <2>5 DEF StoreInv, ItemsSorted, Waiting
  <2>7. \A k \in Keys : Waiting(k[1])' => k \notin K /\ Waiting(k[1])
    BY <2>1, <2>2, <2>3, <2>5 DEF Waiting
  <2>8. SaveLimit \in Nat
    BY EngineAssumption DEF EngineAssumption
  <2> HIDE DEF K, item
  <2>9. QED BY <2>1, <2>4, <2>6, <2>7, <2>8, StoreSaved
<1>6. CASE Finish
  <2>1. /\ run # None /\ history' = Truncated(history) /\ stamp' = stamp /\ run' = None
    BY <1>6 DEF Finish, Abort
  <2>2. ASSUME NEW k \in Keys
        PROVE  /\ history'[k] \in Seq(Items)
               /\ history'[k] = history[k] \/ Thinned(history'[k], history[k])
    <3>1. history[k] \in Seq(Items) /\ k[1] \in Names /\ run.pipe \in Pipelines
      BY <2>1 DEF StoreInv, Keys, RunInv, RunShape, Runs
    <3>2. CASE k[2] \in DOMAIN Applied(run.pipe, k[1]) /\ k[1] \in nodes[run.pipe]
      <4> DEFINE max == Applied(run.pipe, k[1])[k[2]].max
      <4>1. max \in Nat
        BY <3>1, <3>2, AppliedType
      <4>2. history'[k] = First(history[k], max)
        BY <2>1, <3>2 DEF Truncated
      <4> HIDE DEF max
      <4>3. QED BY <3>1, <4>1, <4>2, FirstThins
    <3>3. CASE ~(k[2] \in DOMAIN Applied(run.pipe, k[1]) /\ k[1] \in nodes[run.pipe])
      BY <2>1, <3>1, <3>3 DEF Truncated
    <3>4. QED BY <3>2, <3>3
  <2>3. DOMAIN history' = Keys /\ history' = [k \in Keys |-> history'[k]]
    BY <2>1 DEF Truncated
  <2>4. history' \in [Keys -> Seq(Items)]
    BY <2>2, <2>3
  <2>5. QED BY <2>1, <2>2, <2>4, StoreThinned
<1>7. ASSUME NEW k \in Keys, SaveIntervalData(k) PROVE StoreInv'
  <2> DEFINE item == [stamp |-> stamp', expires |-> "later"]
  <2>1. PICK limit \in 1 .. SaveLimit : history' = Saved(history, {k}, Item("later"), limit)
    BY <1>7 DEF SaveIntervalData, Save
  <2>2. /\ run = None /\ run' = None /\ stamp < MaxStamp /\ stamp' = stamp + 1
        /\ Item("later") = item /\ limit \in Nat /\ stamp \in Nat /\ MaxStamp \in Nat
    BY <1>7, EngineAssumption DEF EngineAssumption, SaveIntervalData, Idle, Item, StampInv
  <2>3. item \in Items /\ item.stamp = stamp'
    BY <2>2 DEF Items, Stamps
  <2>4. \A i \in 1 .. Len(history[k]) : history[k][i].stamp < item.stamp
    <3>1. \A i \in 1 .. Len(history[k]) : history[k][i].stamp \in Nat /\ history[k][i].stamp <= stamp
      BY ItemStamps DEF StoreInv, ItemsSorted
    <3>2. QED BY <2>2, <2>3, <3>1
  <2>5. \A l \in Keys : ~Waiting(l[1])'
    BY <2>2 DEF Waiting
  <2> HIDE DEF item
  <2>6. QED BY <2>1, <2>2, <2>3, <2>4, <2>5, StoreSaved
<1>8. CASE Expire
  <2> DEFINE Older(h) == [i \in DOMAIN h |->
                            [h[i] EXCEPT !.expires = IF @ = "later" THEN "past" ELSE @]]
  <2>1. /\ run = None /\ run' = None /\ stamp' = stamp
        /\ history' = [k \in Keys |-> Older(history[k])]
    BY <1>8 DEF Expire, Idle
  <2>2. ASSUME NEW k \in Keys
        PROVE  Older(history[k]) \in Seq(Items) /\ Thinned(Older(history[k]), history[k])
    <3>1. history[k] \in Seq(Items)
      BY DEF StoreInv
    <3> DEFINE h == history[k]
    <3>2. ASSUME NEW i \in 1 .. Len(h)
          PROVE  Older(h)[i] \in Items /\ Older(h)[i].stamp = h[i].stamp
      <4>1. h[i] \in Items
        BY <3>1
      <4>2. Older(h)[i] = [h[i] EXCEPT !.expires = IF @ = "later" THEN "past" ELSE @]
        BY <3>1
      <4> HIDE DEF h, Older
      <4>3. QED BY <4>1, <4>2 DEF Items
    <3>3. DOMAIN h = 1 .. Len(h) /\ Len(h) \in Nat /\ DOMAIN Older(h) = 1 .. Len(h)
      BY <3>1
    <3>4. Older(h) = [i \in 1 .. Len(h) |-> Older(h)[i]]
      BY <3>3
    <3> HIDE DEF h, Older
    <3>5. Older(h) \in Seq(Items) /\ Len(Older(h)) = Len(h)
      BY <3>2, <3>3, <3>4
    <3> DEFINE same == [i \in 1 .. Len(h) |-> i]
    <3>6. /\ same \in [1 .. Len(Older(h)) -> 1 .. Len(h)]
          /\ \A i \in 1 .. Len(Older(h)) : Older(h)[i].stamp = h[same[i]].stamp
          /\ \A i, j \in 1 .. Len(Older(h)) : i < j => same[i] < same[j]
      BY <3>2, <3>5
    <3> HIDE DEF same
    <3>7. Thinned(Older(h), h)
      BY <3>6 DEF Thinned
    <3>8. QED BY <3>5, <3>7 DEF h
  <2> HIDE DEF Older
  <2>3. history' \in [Keys -> Seq(Items)]
    BY <2>1, <2>2
  <2>4. QED BY <2>1, <2>2, <2>3, StoreThinned
<1>9. CASE CleanupExpiredData
  <2>1. /\ run = None /\ run' = None /\ stamp' = stamp
        /\ history' = [k \in Keys |-> Live(history[k])]
    BY <1>9 DEF CleanupExpiredData, Idle
  <2>2. \A k \in Keys : Live(history[k]) \in Seq(Items) /\ Thinned(Live(history[k]), history[k])
    BY LiveThins DEF StoreInv
  <2>3. history' \in [Keys -> Seq(Items)]
    BY <2>1, <2>2
  <2>4. QED BY <2>1, <2>2, <2>3, StoreThinned
<1>10. ASSUME NEW N, NEW I, ClearCache(N, I) PROVE StoreInv'
  <2>1. /\ run = None /\ run' = None /\ stamp' = stamp
        /\ history' = [k \in Keys |-> IF k \in N \X I THEN <<>> ELSE history[k]]
    BY <1>10 DEF ClearCache, Idle
  <2>2. ASSUME NEW h \in Seq(Items) PROVE Thinned(<<>>, h)
    <3>1. 1 .. Len(<<>>) = {}
      OBVIOUS
    <3>2. [i \in {} |-> i] \in [{} -> 1 .. Len(h)]
      OBVIOUS
    <3>3. QED BY <3>1, <3>2 DEF Thinned
  <2>3. \A k \in Keys : history[k] \in Seq(Items)
    BY DEF StoreInv
  <2>4. history' \in [Keys -> Seq(Items)]
    BY <2>1, <2>3
  <2>5. QED BY <2>1, <2>2, <2>3, <2>4, StoreThinned
<1>11. QED
  BY <1>1, <1>2, <1>3, <1>4, <1>5, <1>6, <1>7, <1>8, <1>9, <1>10
     DEF Next, vars, stores, AddNode, AddQueryNode, Execute, QueryRaises, StopsBefore, NodeRaises, Abort
-----------------------------------------------------------------------------
\* All results that a pipeline keeps are of one run.
CachesOfOneRun ==
    \A p \in Pipelines : \E N \in SUBSET Names : \/ N = {} /\ resultsCache[p] = <<>>
                                                 \/ \E t \in Stamps : resultsCache[p] = [n \in N |-> t]

\* The results that a run starts with are those of the inputs.
OthersTyped ==
    /\ queryNodes \in [Pipelines -> SUBSET QueryNames]
    /\ results \in SUBSET Names

LEMMA OthersStep == RunInv /\ OthersTyped /\ [Next]_vars => OthersTyped'
<1> SUFFICES ASSUME RunInv, OthersTyped, [Next]_vars PROVE OthersTyped'
  OBVIOUS
<1>1. CASE UNCHANGED <<queryNodes, results>> \/ (UNCHANGED queryNodes /\ results' = {})
  BY <1>1 DEF OthersTyped
<1>2. ASSUME NEW p \in Pipelines, NEW q \in QueryNames, AddQueryNode(p, q) PROVE OthersTyped'
  BY <1>2 DEF AddQueryNode, OthersTyped
<1>3. ASSUME NEW p \in Pipelines, NEW inputs \in Inputs, NEW timed \in BOOLEAN,
             NEW override \in Overrides \cup {None}, Execute(p, inputs, timed, override)
      PROVE  OthersTyped'
  BY <1>3, EngineAssumption DEF EngineAssumption, Execute, OthersTyped
<1>4. CASE NodeReturns
  <2>1. run.node \in Names
    BY <1>4 DEF NodeReturns, RunInv, RunShape, Runs
  <2>2. QED BY <1>4, <2>1 DEF NodeReturns, OthersTyped, pipes
<1>5. QED
  BY <1>1, <1>2, <1>3, <1>4
     DEF Next, vars, pipes, Idle, Abort, AddNode, QueryRaises, PassSource, StartNode, StopsBefore,
         NodeRaises, Finish, SaveIntervalData, Expire, CleanupExpiredData, ClearCache

LEMMA OneRunStep ==
    RunInv /\ StampInv /\ OthersTyped /\ CachesTyped /\ CachesOfOneRun /\ [Next]_vars => CachesOfOneRun'
<1> SUFFICES ASSUME RunInv, StampInv, OthersTyped, CachesTyped, CachesOfOneRun, [Next]_vars
             PROVE  CachesOfOneRun'
  OBVIOUS
<1>1. CASE resultsCache' = resultsCache
  BY <1>1 DEF CachesOfOneRun
<1>2. CASE Finish
  <2>1. /\ run # None /\ stamp \in Stamps /\ results \in SUBSET Names
        /\ resultsCache' = [resultsCache EXCEPT ![run.pipe] = [n \in results |-> stamp]]
    BY <1>2 DEF Finish, StampInv, OthersTyped
  <2>2. \A p \in Pipelines : resultsCache'[p] = IF p = run.pipe THEN [n \in results |-> stamp]
                                                ELSE resultsCache[p]
    BY <2>1 DEF CachesTyped
  <2> DEFINE OneRun(c) == \E N \in SUBSET Names : \/ N = {} /\ c = <<>>
                                                  \/ \E t \in Stamps : c = [n \in N |-> t]
  <2>3. OneRun([n \in results |-> stamp])
    BY <2>1
  <2>4. \A p \in Pipelines : OneRun(resultsCache[p])
    BY DEF CachesOfOneRun
  <2>5. \A p \in Pipelines : OneRun(resultsCache'[p])
    <3> HIDE DEF OneRun
    <3>1. QED BY <2>2, <2>3, <2>4
  <2>6. QED BY <2>5 DEF CachesOfOneRun
<1>3. QED
  BY <1>1, <1>2
     DEF Next, vars, Idle, AddNode, AddQueryNode, Execute, QueryRaises, PassSource, StartNode,
         StopsBefore, NodeRaises, NodeReturns, SaveIntervalData, Expire, CleanupExpiredData, ClearCache

\* What a run has found for its query nodes is what the pipeline still keeps.
QueriesCurrent ==
    run # None =>
        \A q \in QueryNames : \A n \in DOMAIN run.query[q] :
            \/ run.query[q][n] \in {stamp, None}
            \/ n \in DOMAIN resultsCache[run.pipe] /\ run.query[q][n] = resultsCache[run.pipe][n]

LEMMA QueriesStep == RunInv /\ QueriesCurrent /\ [Next]_vars => QueriesCurrent'
<1> SUFFICES ASSUME RunInv, QueriesCurrent, [Next]_vars PROVE QueriesCurrent'
  OBVIOUS
<1>1. CASE run' = None
  BY <1>1 DEF QueriesCurrent
<1>2. CASE UNCHANGED <<resultsCache, stamp>> /\ run # None /\ run'.query = run.query /\ run'.pipe = run.pipe
  BY <1>2 DEF QueriesCurrent
<1>3. ASSUME NEW p \in Pipelines, NEW inputs \in Inputs, NEW timed \in BOOLEAN,
             NEW override \in Overrides \cup {None}, Execute(p, inputs, timed, override)
      PROVE  QueriesCurrent'
  <2>1. PICK query \in [QueryNames -> Answers] :
            /\ \A q \in QueryNames : \A n \in DOMAIN query[q] : query[q][n] \in QueryResult(p, n)
            /\ run' = [pipe |-> p, todo |-> order'[p], inputs |-> inputs, timed |-> timed,
                       node |-> None, query |-> query]
    BY <1>3 DEF Execute
  <2>2. run'.query = query /\ run'.pipe = p /\ resultsCache' = resultsCache
    BY <1>3, <2>1 DEF Execute
  <2>3. \A q \in QueryNames : \A n \in DOMAIN query[q] :
            \/ query[q][n] \in {stamp', None}
            \/ n \in DOMAIN resultsCache[p] /\ query[q][n] = resultsCache[p][n]
    BY <2>1 DEF QueryResult
  <2>4. QED BY <2>2, <2>3 DEF QueriesCurrent
<1>4. CASE PassSource \/ StartNode \/ NodeReturns
  <2>1. run # None /\ run \in Runs /\ UNCHANGED <<resultsCache, stamp>>
    BY <1>4 DEF PassSource, StartNode, NodeReturns, AtNode, RunInv, RunShape
  <2>2. run'.query = run.query /\ run'.pipe = run.pipe
    BY <1>4, <2>1 DEF PassSource, StartNode, NodeReturns, Runs
  <2>3. QED BY <1>2, <2>1, <2>2
<1>5. CASE UNCHANGED vars
  BY <1>5 DEF vars, QueriesCurrent
<1>6. QED
  BY <1>1, <1>3, <1>4, <1>5
     DEF Next, Idle, Abort, AddNode, AddQueryNode, QueryRaises, StopsBefore, NodeRaises, Finish,
         SaveIntervalData, Expire, CleanupExpiredData, ClearCache
-----------------------------------------------------------------------------
EngineInv ==
    /\ OrdersKept /\ RunInv /\ StampInv /\ StoreInv /\ StoresAgree
    /\ OthersTyped /\ CachesTyped /\ CachesOfOneRun /\ QueriesCurrent

LEMMA EngineInit == Init => EngineInv
<1> SUFFICES ASSUME Init PROVE EngineInv
  OBVIOUS
<1>1. OrdersKept
  BY DEF Init, OrdersKept, Distinct
<1>2. StampInv
  BY EngineAssumption DEF EngineAssumption, Init, StampInv
<1>3. StoreInv
  BY DEF Init, StoreInv, ItemsSorted, Descending
<1>4. StoresAgree /\ CachesTyped /\ QueriesCurrent
  BY DEF Init, StoresAgree, CachesTyped, QueriesCurrent
<1>5. OthersTyped /\ CachesOfOneRun
  BY DEF Init, OthersTyped, CachesOfOneRun
<1>6. QED BY <1>1, <1>2, <1>3, <1>4, <1>5, RunInit DEF EngineInv

LEMMA EngineStep == EngineInv /\ [Next]_vars => EngineInv'
BY OrdersStep, RunStep, StampStep, StoreStep, StoresStep, OthersStep, CachesStep, OneRunStep, QueriesStep
   DEF EngineInv

LEMMA EngineHolds == Spec => []EngineInv
BY EngineInit, EngineStep, PTL DEF Spec

\* Every variable of the engine keeps its type, for any pipelines: a kept order is one
\* of the nodes there are, the results of a pipeline have the stamps of runs, and the
\* lists of both stores hold items (Pipeline, LocalExecutionEngine).
THEOREM TypeCorrect == Spec => []TypeOK
<1>1. EngineInv => TypeOK
  <2> SUFFICES ASSUME EngineInv PROVE TypeOK
    OBVIOUS
  <2>1. \A p \in Pipelines : ToSet(order[p]) = Elements(order[p])
    BY DEF EngineInv, OrdersKept, ToSet, Elements
  <2>2. \A p \in Pipelines : \E N \in SUBSET Names : resultsCache[p] \in [N -> Stamps]
    <3> SUFFICES ASSUME NEW p \in Pipelines
                 PROVE  \E N \in SUBSET Names : resultsCache[p] \in [N -> Stamps]
      OBVIOUS
    <3>1. PICK N \in SUBSET Names : \/ N = {} /\ resultsCache[p] = <<>>
                                    \/ \E t \in Stamps : resultsCache[p] = [n \in N |-> t]
      BY DEF EngineInv, CachesOfOneRun
    <3>2. CASE N = {} /\ resultsCache[p] = <<>>
      <4>1. <<>> \in [{} -> Stamps]
        OBVIOUS
      <4>2. QED BY <3>2, <4>1
    <3>3. CASE \E t \in Stamps : resultsCache[p] = [n \in N |-> t]
      BY <3>3
    <3>4. QED BY <3>1, <3>2, <3>3
  <2>3. wrapped \in SUBSET Names /\ run \in Runs \cup {None}
    BY DEF EngineInv, RunInv, WrappedNow, RunShape
  <2>4. history \in [Keys -> Seq(Items)] /\ cache \in [Keys -> Seq(Items)]
    BY DEF EngineInv, StoreInv, StoresAgree
  <2>5. QED
    BY <2>1, <2>2, <2>3, <2>4 DEF EngineInv, OrdersKept, CachesTyped, StampInv, OthersTyped, TypeOK
<1>2. QED BY <1>1, EngineHolds, PTL

\* Whatever pipelines and callers save under one name, and whatever is truncated,
\* expires, is cleaned up or cleared between, get_interval_data gives the newest item
\* first and lies within what get_node_metadata tells.
THEOREM NewestFirstHolds == Spec => []NewestFirst
<1>1. EngineInv => NewestFirst
  <2> SUFFICES ASSUME EngineInv, NEW n \in Names, NEW i \in Intervals, NEW limit \in 1 .. SaveLimit
               PROVE  LET s == GetIntervalData(<<n, i>>, limit)
                          m == GetNodeMetadata(n)
                      IN  /\ \A j, k \in DOMAIN s : j < k => s[j].stamp > s[k].stamp
                          /\ s # <<>> => /\ i \in DOMAIN m /\ Len(s) <= m[i].count
                                         /\ Head(s).stamp <= m[i].latest /\ m[i].oldest <= Last(s).stamp
    BY DEF NewestFirst
  <2> DEFINE k == <<n, i>>
             h == history[k]
             l == Live(h)
             s == First(l, limit)
             m == GetNodeMetadata(n)
  <2>1. k \in Keys /\ h \in Seq(Items) /\ Descending(h) /\ limit \in Nat
    BY EngineAssumption DEF EngineAssumption, EngineInv, StoreInv, ItemsSorted, Keys
  <2>2. GetIntervalData(<<n, i>>, limit) = s /\ GetNodeMetadata(n) = m
    BY DEF GetIntervalData, EngineInv, StoresAgree
  <2>3. i \in DOMAIN m <=> h # <<>>
    BY DEF GetNodeMetadata, EngineInv, StoresAgree
  <2>4. h # <<>> => m[i] = [count |-> Len(h), latest |-> Head(h).stamp, oldest |-> Last(h).stamp]
    BY DEF GetNodeMetadata, EngineInv, StoresAgree
  <2> HIDE DEF h, m
  <2>5. l \in Seq(Items) /\ Len(l) <= Len(h) /\ Thinned(l, h)
    BY <2>1, LiveThins
  <2>6. Descending(l)
    BY <2>1, <2>5, ThinnedDescends
  <2> HIDE DEF l
  <2>7. s \in Seq(Items) /\ Len(s) <= Len(l) /\ Thinned(s, l)
    BY <2>1, <2>5, FirstThins
  <2>8. Descending(s)
    BY <2>6, <2>7, ThinnedDescends
  <2> HIDE DEF s
  <2>9. \A x \in 1 .. Len(s) : \E y \in 1 .. Len(h) : s[x].stamp = h[y].stamp
    <3>1. \A x \in 1 .. Len(s) : \E y \in 1 .. Len(l) : s[x].stamp = l[y].stamp
      BY <2>7, ThinnedBelow
    <3>2. \A x \in 1 .. Len(l) : \E y \in 1 .. Len(h) : l[x].stamp = h[y].stamp
      BY <2>5, ThinnedBelow
    <3>3. QED BY <3>1, <3>2
  <2>10. ASSUME NEW y \in 1 .. Len(h)
         PROVE  h[y].stamp <= h[1].stamp /\ h[Len(h)].stamp <= h[y].stamp
    <3>1. Len(h) \in Nat /\ 1 \in 1 .. Len(h) /\ Len(h) \in 1 .. Len(h)
      BY <2>1
    <3>2. h[y].stamp \in Nat /\ h[1].stamp \in Nat /\ h[Len(h)].stamp \in Nat
      <4>1. h[y] \in Items /\ h[1] \in Items /\ h[Len(h)] \in Items
        BY <2>1, <3>1
      <4>2. QED BY <4>1 DEF Items, Stamps
    <3>3. (1 < y => h[1].stamp > h[y].stamp) /\ (y < Len(h) => h[y].stamp > h[Len(h)].stamp)
      BY <2>1, <3>1 DEF Descending
    <3>4. QED BY <3>1, <3>2, <3>3
  <2>11. ASSUME s # <<>>
         PROVE  /\ h # <<>> /\ Len(s) <= Len(h)
                /\ Head(s).stamp <= Head(h).stamp /\ Last(h).stamp <= Last(s).stamp
    <3>1. Len(s) \in Nat \ {0} /\ 1 \in 1 .. Len(s) /\ Len(s) \in 1 .. Len(s) /\ Len(s) <= Len(h)
      BY <2>1, <2>5, <2>7, <2>11
    <3>2. h # <<>>
      BY <2>1, <3>1
    <3>3. Head(s) = s[1] /\ Head(h) = h[1] /\ Last(s) = s[Len(s)] /\ Last(h) = h[Len(h)]
      BY <2>1, <2>7, <2>11, <3>2 DEF Last
    <3>4. s[1].stamp <= h[1].stamp
      BY <2>9, <2>10, <3>1
    <3>5. h[Len(h)].stamp <= s[Len(s)].stamp
      BY <2>9, <2>10, <3>1
    <3>6. QED BY <3>1, <3>2, <3>3, <3>4, <3>5
  <2>12. DOMAIN s = 1 .. Len(s)
    BY <2>7
  <2>13. QED BY <2>2, <2>3, <2>4, <2>8, <2>11, <2>12 DEF Descending
<1>2. QED BY <1>1, EngineHolds, PTL

\* The result that a query node reports of another node is never of a run before the
\* pipeline's last success, for any queries, selectors and pipelines.
THEOREM QueryOneRunBehindHolds == Spec => []QueryOneRunBehind
<1>1. EngineInv => QueryOneRunBehind
  <2> SUFFICES ASSUME EngineInv, run # None, NEW q \in QueryNames, NEW n \in DOMAIN run.query[q]
               PROVE  LET cached == resultsCache[run.pipe]
                      IN  run.query[q][n] \in {stamp, None} \cup
                              (IF cached = <<>> THEN {} ELSE {Max({cached[m] : m \in DOMAIN cached})})
    BY DEF QueryOneRunBehind
  <2> DEFINE cached == resultsCache[run.pipe]
  <2>1. CASE run.query[q][n] \in {stamp, None}
    BY <2>1
  <2>2. CASE n \in DOMAIN cached /\ run.query[q][n] = cached[n]
    <3>1. run.pipe \in Pipelines
      BY DEF EngineInv, RunInv, RunShape, Runs
    <3>2. PICK N \in SUBSET Names : \/ N = {} /\ cached = <<>>
                                    \/ \E t \in Stamps : cached = [m \in N |-> t]
      BY <3>1 DEF EngineInv, CachesOfOneRun
    <3>3. cached # <<>>
      BY <2>2
    <3>4. PICK t \in Stamps : cached = [m \in N |-> t]
      BY <3>2, <3>3
    <3> HIDE DEF cached
    <3>5. {cached[m] : m \in DOMAIN cached} = {t} /\ cached[n] = t
      BY <2>2, <3>4
    <3>6. Max({t}) = t
      BY DEF Max, Stamps
    <3>7. QED BY <2>2, <3>3, <3>5, <3>6 DEF cached
  <2>3. QED BY <2>1, <2>2 DEF EngineInv, QueriesCurrent
<1>2. QED BY <1>1, EngineHolds, PTL
=============================================================================
