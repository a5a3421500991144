-------------------------- MODULE RegistryApiProofs --------------------------
(***************************************************************************)
(* Proofs about RegistryApi, and the node registry in it, for any number   *)
(* of nodes, strategies, targets, requests and calls.                      *)
(***************************************************************************)
EXTENDS RegistryApi, WellFoundedInduction, SequenceTheorems, FiniteSetTheorems, TLAPS

\* What a request of each kind carries.
LEMMA Requested ==
    ASSUME TypeOK, NEW i \in Calls, request[i] # NoRequest
    PROVE  /\ request[i] \in RequestType
           /\ request[i].node \in NodeIds
           /\ request[i].op \in {"link", "unlink"} => request[i].arg \in Strategies
           /\ request[i].op \in {"dep", "undep"} => request[i].arg \in NodeIds
           /\ request[i].op = "create" => request[i].arg \in Seq(NodeIds)
           /\ request[i].op = "status" => request[i].arg \in Statuses
<1>1. request[i] \in RequestType
  BY DEF TypeOK
<1>2. QED
  BY <1>1 DEF RequestType

\* list.remove cuts a list at an entry that is x.
LEMMA WithoutFirstCut ==
    ASSUME NEW S, NEW list \in Seq(S), NEW x, InList(x, list)
    PROVE  \E k \in 1 .. Len(list) :
              /\ list[k] = x
              /\ WithoutFirst(list, x) = SubSeq(list, 1, k - 1) \o SubSeq(list, k + 1, Len(list))
<1> DEFINE First(i) == list[i] = x /\ \A j \in 1 .. i - 1 : list[j] # x
           P == {i \in DOMAIN list : list[i] = x}
<1>1. P # {} /\ P \subseteq Nat
  BY DEF InList
<1>2. PICK i \in P : \A j \in P : i <= j
  <2> HIDE DEF P
  <2>1. PICK i \in P : \A j \in P : ~ (<<j, i>> \in OpToRel(<, Nat))
    BY <1>1, NatLessThanWellFounded, WFMin
  <2>2. \A j \in P : ~ (j < i)
    BY <1>1, <2>1 DEF OpToRel
  <2>3. QED BY <1>1, <2>2
<1>3. i \in DOMAIN list /\ First(i)
  <2>1. ASSUME NEW j \in 1 .. i - 1 PROVE list[j] # x
    <3>1. i \in 1 .. Len(list) /\ DOMAIN list = 1 .. Len(list)
      OBVIOUS
    <3>2. j \in DOMAIN list /\ ~(i <= j)
      BY <3>1
    <3>3. QED BY <1>2, <3>2
  <2>2. QED BY <2>1
<1> DEFINE k == CHOOSE i_1 \in DOMAIN list : First(i_1)
<1>4. k \in DOMAIN list /\ First(k)
  BY <1>3
<1>5. k \in 1 .. Len(list) /\ list[k] = x
  BY <1>4
<1>6. WithoutFirst(list, x) = SubSeq(list, 1, k - 1) \o SubSeq(list, k + 1, Len(list))
  BY DEF WithoutFirst
<1> HIDE DEF k
<1>7. QED BY <1>5, <1>6

\* A list without one of its entries is a list of the same elements.
LEMMA WithoutFirstType ==
    ASSUME NEW S, NEW list \in Seq(S), NEW x, InList(x, list)
    PROVE  WithoutFirst(list, x) \in Seq(S)
<1>1. PICK k \in 1 .. Len(list) :
          WithoutFirst(list, x) = SubSeq(list, 1, k - 1) \o SubSeq(list, k + 1, Len(list))
  BY WithoutFirstCut
<1>2. SubSeq(list, 1, k - 1) \in Seq(S) /\ SubSeq(list, k + 1, Len(list)) \in Seq(S)
  BY <1>1
<1>3. QED
  BY <1>1, <1>2

\* And it has every other element it had.
LEMMA WithoutFirstKeeps ==
    ASSUME NEW S, NEW list \in Seq(S), NEW x, InList(x, list), NEW y, y # x, InList(y, list)
    PROVE  InList(y, WithoutFirst(list, x))
<1>1. PICK k \in 1 .. Len(list) :
          list[k] = x /\ WithoutFirst(list, x) = SubSeq(list, 1, k - 1) \o SubSeq(list, k + 1, Len(list))
  BY WithoutFirstCut
<1>2. PICK i \in 1 .. Len(list) : list[i] = y
  BY DEF InList
<1> DEFINE n == Len(list)
           s == SubSeq(list, 1, k - 1)
           t == SubSeq(list, k + 1, n)
<1>3. n \in Nat /\ k \in 1 .. n /\ i \in 1 .. n /\ i # k /\ \A j \in 1 .. n : list[j] \in S
  BY <1>1, <1>2
<1>4. /\ s \in Seq(S) /\ Len(s) = k - 1
      /\ \A j \in 1 .. k - 1 : s[j] = list[j]
  <2> HIDE DEF n
  <2>1. 1 \in Int /\ k - 1 \in Int /\ \A j \in 1 .. k - 1 : list[j] \in S
    BY <1>3
  <2>2. /\ s \in Seq(S)
        /\ Len(s) = IF 1 <= k - 1 THEN k - 1 - 1 + 1 ELSE 0
        /\ \A j \in 1 .. k - 1 - 1 + 1 : s[j] = list[1 + j - 1]
    BY <2>1, SubSeqProperties
  <2> HIDE DEF s
  <2>3. k - 1 - 1 + 1 = k - 1 /\ \A j \in 1 .. k - 1 : 1 + j - 1 = j
    BY <1>3
  <2>4. Len(s) = k - 1
    BY <1>3, <2>2
  <2>5. QED BY <2>2, <2>3, <2>4
<1>5. /\ t \in Seq(S) /\ Len(t) = n - k
      /\ \A j \in 1 .. n - k : t[j] = list[k + j]
  <2> HIDE DEF n
  <2>1. k + 1 \in Int /\ n \in Int /\ \A j \in k + 1 .. n : list[j] \in S
    BY <1>3
  <2>2. /\ t \in Seq(S)
        /\ Len(t) = IF k + 1 <= n THEN n - (k + 1) + 1 ELSE 0
        /\ \A j \in 1 .. n - (k + 1) + 1 : t[j] = list[k + 1 + j - 1]
    BY <2>1, SubSeqProperties
  <2> HIDE DEF t
  <2>3. n - (k + 1) + 1 = n - k /\ \A j \in 1 .. n - k : k + 1 + j - 1 = k + j
    BY <1>3
  <2>4. Len(t) = n - k
    BY <1>3, <2>2
  <2>5. QED BY <2>2, <2>3, <2>4
<1> HIDE DEF n, s, t
<1>6. /\ s \o t \in Seq(S) /\ Len(s \o t) = n - 1
      /\ \A j \in 1 .. n - 1 : (s \o t)[j] = IF j <= k - 1 THEN s[j] ELSE t[j - (k - 1)]
  <2>1. Len(s) + Len(t) = n - 1
    BY <1>3, <1>4, <1>5
  <2>2. QED BY <1>4, <1>5, <2>1, ConcatProperties
<1>7. \E j \in 1 .. n - 1 : (s \o t)[j] = y
  <2>1. CASE i < k
    <3>1. i \in 1 .. n - 1 /\ i <= k - 1 /\ i \in 1 .. k - 1
      BY <1>3, <2>1
    <3>2. (s \o t)[i] = y
      BY <1>2, <1>4, <1>6, <3>1
    <3>3. QED BY <3>1, <3>2
  <2>2. CASE i > k
    <3>1. i - 1 \in 1 .. n - 1 /\ ~(i - 1 <= k - 1) /\ i - 1 - (k - 1) = i - k
      BY <1>3, <2>2
    <3>2. i - k \in 1 .. n - k /\ k + (i - k) = i
      BY <1>3, <2>2
    <3>3. (s \o t)[i - 1] = t[i - k]
      BY <1>6, <3>1
    <3>4. t[i - k] = y
      BY <1>2, <1>5, <3>2
    <3>5. QED BY <3>1, <3>3, <3>4
  <2>3. i < k \/ i > k
    BY <1>3
  <2>4. QED BY <2>1, <2>2, <2>3
<1>8. s \o t = WithoutFirst(list, x)
  BY <1>1 DEF s, t, n
<1>9. QED BY <1>6, <1>7, <1>8 DEF InList

-----------------------------------------------------------------------------
\* A list that a worker thread has in hand holds registrations.
HeldAreRegistrations ==
    \A i \in Calls : \A j \in held[i] :
        j \in Calls /\ request[j] # NoRequest /\ request[j].op = "register"

TypeInv == TypeOK /\ HeldAreRegistrations

LEMMA TypeInit == Init => TypeInv
BY ApiAssumption
   DEF ApiAssumption, Init, RegistryInit, TypeInv, TypeOK, RegistryTypeOK, HeldAreRegistrations, Codes

\* A handler that answers leaves the callers' records well typed.
LEMMA DoneType ==
    ASSUME TypeInv, NEW i \in Calls, NEW c \in Codes, Done(i, c)
    PROVE  /\ request' = request
           /\ served' \in [Calls -> {"no", "thread", "done"}]
           /\ code' \in [Calls -> Codes]
           /\ result' \in [Calls -> {"none", "waiting", "ok", "false", "raised"}]
           /\ timeouts' \in 0 .. MaxTimeouts
           /\ clean' \in [Calls -> BOOLEAN]
BY DEF TypeInv, TypeOK, Done

\* A handler that changes the registry alone.
LEMMA AnsweredType ==
    ASSUME TypeInv, RegistryTypeOK', NEW i \in Calls, NEW c \in Codes, Answered(i, c)
    PROVE  TypeInv'
<1>1. Done(i, c) /\ UNCHANGED <<callbacks, held>>
  BY DEF Answered
<1>2. QED
  BY <1>1, DoneType DEF TypeInv, TypeOK, HeldAreRegistrations

LEMMA RegistrySame == ASSUME RegistryTypeOK, UNCHANGED registry PROVE RegistryTypeOK'
BY DEF RegistryTypeOK, registry

LEMMA TypeStep == TypeInv /\ [Next]_vars => TypeInv'
<1> SUFFICES ASSUME TypeInv, [Next]_vars PROVE TypeInv'
  OBVIOUS
<1>c. {0, 200, 201, 404, 422, 500} = Codes
  BY DEF Codes
<1>t. TypeOK /\ RegistryTypeOK /\ HeldAreRegistrations
  BY DEF TypeInv, TypeOK
<1>1. ASSUME NEW i \in Calls, Create(i) PROVE TypeInv'
  <2>1. request[i].node \in NodeIds /\ request[i].arg \in Seq(NodeIds)
    BY <1>1, <1>t, Requested DEF Create, Unread
  <2>2. RegistryTypeOK'
    BY <1>1, <1>t, <2>1 DEF Create, CreateNode, RegistryTypeOK
  <2>3. QED BY <1>1, <1>c, <2>2, AnsweredType DEF Create
<1>2. ASSUME NEW i \in Calls, Refuse(i) PROVE TypeInv'
  <2>1. RegistryTypeOK'
    BY <1>2, <1>t, RegistrySame DEF Refuse
  <2>2. QED BY <1>2, <1>c, <2>1, AnsweredType DEF Refuse
<1>3. ASSUME NEW i \in Calls, Missing(i) PROVE TypeInv'
  <2>1. RegistryTypeOK'
    BY <1>3, <1>t, RegistrySame DEF Missing
  <2>2. QED BY <1>3, <1>c, <2>1, AnsweredType DEF Missing
<1>4. ASSUME NEW i \in Calls, Delete(i) PROVE TypeInv'
  <2>1. RegistryTypeOK'
    BY <1>4, <1>t DEF Delete, DeleteNode, RegistryTypeOK
  <2>2. QED BY <1>4, <1>c, <2>1, AnsweredType DEF Delete
<1>5. ASSUME NEW i \in Calls, AddNodeToStrategy(i) PROVE TypeInv'
  <2>1. request[i].node \in NodeIds /\ request[i].arg \in Strategies
    BY <1>5, <1>t, Requested DEF AddNodeToStrategy, Unread
  <2>2. AddContains(request[i].arg, request[i].node)
    BY <1>5 DEF AddNodeToStrategy
  <2>3. nodeStrategies' \in [NodeIds -> SUBSET Strategies]
    BY <1>t, <2>1, <2>2 DEF AddContains, RegistryTypeOK
  <2>4. strategyNodes' \in [Strategies -> SUBSET NodeIds]
    BY <1>t, <2>1, <2>2 DEF AddContains, RegistryTypeOK
  <2>5. RegistryTypeOK'
    BY <1>t, <2>2, <2>3, <2>4 DEF AddContains, RegistryTypeOK
  <2>6. QED BY <1>5, <1>c, <2>5, AnsweredType DEF AddNodeToStrategy
<1>6. ASSUME NEW i \in Calls, RemoveNodeFromStrategy(i) PROVE TypeInv'
  <2>1. RegistryTypeOK'
    BY <1>6, <1>t DEF RemoveNodeFromStrategy, RemoveContains, RegistryTypeOK
  <2>2. QED BY <1>6, <1>c, <2>1, AnsweredType DEF RemoveNodeFromStrategy
<1>7. ASSUME NEW i \in Calls, UpdateStatus(i) PROVE TypeInv'
  <2>1. request[i].arg \in Statuses
    BY <1>7, <1>t, Requested DEF UpdateStatus, Unread
  <2>2. RegistryTypeOK'
    BY <1>7, <1>t, <2>1 DEF UpdateStatus, UpdateNodeStatus, RegistryTypeOK
  <2>3. QED BY <1>7, <1>c, <2>2, AnsweredType DEF UpdateStatus
<1>8. ASSUME NEW i \in Calls, AddNodeDependency(i) PROVE TypeInv'
  <2>1. request[i].node \in NodeIds /\ request[i].arg \in NodeIds
    BY <1>8, <1>t, Requested DEF AddNodeDependency, Unread
  <2>2. dependencies[request[i].node] \in Seq(NodeIds)
    BY <1>t, <2>1 DEF RegistryTypeOK
  <2>3. Append(dependencies[request[i].node], request[i].arg) \in Seq(NodeIds)
    BY <2>1, <2>2
  <2>4. \/ dependencies' = dependencies
        \/ dependencies' = [dependencies EXCEPT ![request[i].node] =
                               Append(dependencies[request[i].node], request[i].arg)]
    BY <1>8 DEF AddNodeDependency, AddDependency
  <2>5. dependencies' \in [NodeIds -> Seq(NodeIds)]
    BY <1>t, <2>3, <2>4 DEF RegistryTypeOK
  <2>6. RegistryTypeOK'
    BY <1>8, <1>t, <2>5 DEF AddNodeDependency, AddDependency, RegistryTypeOK
  <2>7. QED BY <1>8, <1>c, <2>6, AnsweredType DEF AddNodeDependency
<1>9. ASSUME NEW i \in Calls, RemoveNodeDependency(i) PROVE TypeInv'
  <2> DEFINE n == request[i].node
             d == request[i].arg
  <2>1. n \in NodeIds /\ dependencies[n] \in Seq(NodeIds)
    BY <1>9, <1>t, Requested DEF RemoveNodeDependency, Unread, RegistryTypeOK
  <2>2. InList(d, dependencies[n]) => WithoutFirst(dependencies[n], d) \in Seq(NodeIds)
    BY <2>1, WithoutFirstType
  <2>3. RegistryTypeOK'
    BY <1>9, <1>t, <2>1, <2>2 DEF RemoveNodeDependency, RemoveDependency, RegistryTypeOK
  <2>4. QED BY <1>9, <1>c, <2>3, AnsweredType DEF RemoveNodeDependency
<1>10. ASSUME NEW i \in Calls, RegisterCallback(i) PROVE TypeInv'
  <2>1. RegistryTypeOK' /\ Done(i, 200) /\ held' = held /\ callbacks' = callbacks \cup {i}
    BY <1>10, <1>t, RegistrySame DEF RegisterCallback
  <2>2. request[i] # NoRequest /\ request[i].op = "register"
    BY <1>10 DEF RegisterCallback, Unread
  <2>3. QED
    BY <2>1, <2>2, <1>c, DoneType DEF TypeInv, TypeOK, HeldAreRegistrations
<1>11. ASSUME NEW i \in Calls, FilterCallbacks(i) PROVE TypeInv'
  <2>1. RegistryTypeOK'
    BY <1>11, <1>t, RegistrySame DEF FilterCallbacks
  <2>2. held' = [held EXCEPT ![i] =
                   {j \in ListOf(request[i].node) : request[j].arg # request[i].arg}]
    BY <1>11 DEF FilterCallbacks
  <2>3. ListOf(request[i].node) \subseteq callbacks
    BY DEF ListOf
  <2>4. QED
    BY <1>11, <1>t, <2>1, <2>2, <2>3 DEF FilterCallbacks, TypeInv, TypeOK, HeldAreRegistrations
<1>12. ASSUME NEW i \in Calls, StoreCallbacks(i) PROVE TypeInv'
  <2>1. RegistryTypeOK' /\ Done(i, 200) /\ held' = [held EXCEPT ![i] = {}]
    BY <1>12, <1>t, RegistrySame DEF StoreCallbacks
  <2>2. callbacks' \subseteq callbacks \cup held[i]
    BY <1>12 DEF StoreCallbacks
  <2>3. QED
    BY <2>1, <2>2, <1>c, <1>t, DoneType DEF TypeInv, TypeOK, HeldAreRegistrations
<1>13. ASSUME NEW i \in Calls, NEW r \in Requests, Call(i, r) PROVE TypeInv'
  <2>1. RegistryTypeOK'
    BY <1>13, <1>t, RegistrySame DEF Call
  <2>2. r \in RequestType
    BY ApiAssumption DEF ApiAssumption
  <2>3. request[i] = NoRequest /\ request' = [request EXCEPT ![i] = r]
    BY <1>13 DEF Call
  <2>4. request' \in [Calls -> RequestType \cup {NoRequest}]
    BY <1>t, <2>2, <2>3 DEF TypeOK
  <2>5. \A j \in Calls : request[j] # NoRequest => request'[j] = request[j]
    BY <1>t, <2>3 DEF TypeOK
  <2>6. clean' \in [Calls -> BOOLEAN]
    BY <1>13, <1>t DEF Call, TypeOK
  <2>7. QED
    BY <1>13, <1>t, <2>1, <2>4, <2>5, <2>6 DEF Call, TypeInv, TypeOK, HeldAreRegistrations
<1>14. ASSUME NEW i \in Calls, Return(i) PROVE TypeInv'
  <2>1. RegistryTypeOK'
    BY <1>14, <1>t, RegistrySame DEF Return
  <2>2. ClientResult(request[i].op, code[i]) \in {"ok", "false", "raised"}
    BY DEF ClientResult, RegisterNodeResult, DeleteNodeResult, AddContainsResult,
           RemoveContainsResult, HandleResponse
  <2>3. QED
    BY <1>14, <1>t, <2>1, <2>2 DEF Return, TypeInv, TypeOK, HeldAreRegistrations
<1>15. ASSUME NEW i \in Calls, GiveUp(i) PROVE TypeInv'
  <2>1. RegistryTypeOK'
    BY <1>15, <1>t, RegistrySame DEF GiveUp
  <2>2. timeouts' \in 0 .. MaxTimeouts
    BY <1>15, <1>t, ApiAssumption DEF ApiAssumption, GiveUp, TypeOK
  <2>3. QED
    BY <1>15, <1>t, <2>1, <2>2 DEF GiveUp, TypeInv, TypeOK, HeldAreRegistrations
<1>16. CASE UNCHANGED vars
  BY <1>16, <1>t, RegistrySame DEF vars, callers, TypeInv, TypeOK, HeldAreRegistrations
<1>17. QED
  BY <1>1, <1>2, <1>3, <1>4, <1>5, <1>6, <1>7, <1>8, <1>9, <1>10, <1>11, <1>12, <1>13, <1>14,
     <1>15, <1>16 DEF Next, Handle

\* Every variable of the Registry API keeps its type, and a stored callback is
\* one that a call registered (the dicts of InMemoryNodeService and
\* NodeCallbackService, and what the callers were told).
THEOREM TypeCorrect == Spec => []TypeOK
BY TypeInit, TypeStep, PTL DEF Spec, TypeInv

-----------------------------------------------------------------------------
\* Only strategy versions that the strategy service knows are in the relation:
\* the handler looks them up before it adds a pair.
OnlyKnown == \A n \in NodeIds : nodeStrategies[n] \subseteq KnownStrategies

RelationInv == TypeOK /\ MapsInverse /\ OnlyKnown

\* Deleting a node takes it out of every list: the strategies whose list has it
\* are those that its own entry names.
LEMMA DeletedEverywhere ==
    ASSUME RelationInv, NEW n \in NodeIds, DeleteNode(n)
    PROVE  \A s \in Strategies : strategyNodes'[s] = strategyNodes[s] \ {n}
BY DEF RelationInv, TypeOK, RegistryTypeOK, MapsInverse, DeleteNode

LEMMA RelationSame ==
    ASSUME MapsInverse, OnlyKnown, nodes \subseteq nodes',
           UNCHANGED <<nodeStrategies, strategyNodes>>
    PROVE  MapsInverse' /\ OnlyKnown'
BY DEF MapsInverse, OnlyKnown

LEMMA RelationInit == Init => MapsInverse /\ OnlyKnown
BY DEF Init, RegistryInit, MapsInverse, OnlyKnown

LEMMA RelationStep == RelationInv /\ [Next]_vars => MapsInverse' /\ OnlyKnown'
<1> SUFFICES ASSUME RelationInv, [Next]_vars PROVE MapsInverse' /\ OnlyKnown'
  OBVIOUS
<1>t. TypeOK /\ MapsInverse /\ OnlyKnown /\ RegistryTypeOK
  BY DEF RelationInv, TypeOK
<1>1. ASSUME NEW i \in Calls, Create(i) PROVE MapsInverse' /\ OnlyKnown'
  BY <1>1, <1>t, RelationSame DEF Create, CreateNode
<1>2. ASSUME NEW i \in Calls, Delete(i) PROVE MapsInverse' /\ OnlyKnown'
  <2> DEFINE n == request[i].node
  <2>1. DeleteNode(n) /\ n \in NodeIds
    BY <1>2, <1>t, Requested DEF Delete, Unread
  <2>2. \A s \in Strategies : strategyNodes'[s] = strategyNodes[s] \ {n}
    BY <2>1, DeletedEverywhere
  <2>3. nodeStrategies' = [nodeStrategies EXCEPT ![n] = {}] /\ nodes' = nodes \ {n}
    BY <2>1 DEF DeleteNode
  <2>4. QED
    BY <1>t, <2>1, <2>2, <2>3 DEF MapsInverse, OnlyKnown, RegistryTypeOK
<1>3. ASSUME NEW i \in Calls, AddNodeToStrategy(i) PROVE MapsInverse' /\ OnlyKnown'
  <2> DEFINE n == request[i].node
             v == request[i].arg
  <2>1. n \in nodes /\ n \in NodeIds /\ v \in Strategies /\ v \in KnownStrategies
    BY <1>3, <1>t, Requested DEF AddNodeToStrategy, Unread
  <2>2. /\ nodeStrategies' = [nodeStrategies EXCEPT ![n] = @ \cup {v}]
        /\ strategyNodes' = [strategyNodes EXCEPT ![v] = @ \cup {n}]
        /\ nodes' = nodes
    BY <1>3, <2>1 DEF AddNodeToStrategy, AddContains
  <2>3. QED
    BY <1>t, <2>1, <2>2 DEF MapsInverse, OnlyKnown, RegistryTypeOK
<1>4. ASSUME NEW i \in Calls, RemoveNodeFromStrategy(i) PROVE MapsInverse' /\ OnlyKnown'
  <2> DEFINE n == request[i].node
             v == request[i].arg
  <2>1. n \in NodeIds /\ v \in Strategies
    BY <1>4, <1>t, Requested DEF RemoveNodeFromStrategy, Unread
  <2>2. /\ nodeStrategies' = [nodeStrategies EXCEPT ![n] = @ \ {v}]
        /\ strategyNodes' = [strategyNodes EXCEPT ![v] = @ \ {n}]
        /\ nodes' = nodes
    BY <1>4 DEF RemoveNodeFromStrategy, RemoveContains
  <2>3. QED
    BY <1>t, <2>1, <2>2 DEF MapsInverse, OnlyKnown, RegistryTypeOK
<1>5. ASSUME NEW i \in Calls,
             Refuse(i) \/ Missing(i) \/ RegisterCallback(i) \/ FilterCallbacks(i) \/ StoreCallbacks(i)
             \/ Return(i) \/ GiveUp(i) \/ \E r \in Requests : Call(i, r)
      PROVE  MapsInverse' /\ OnlyKnown'
  <2>1. UNCHANGED registry
    BY <1>5 DEF Refuse, Missing, RegisterCallback, FilterCallbacks, StoreCallbacks, Return, GiveUp, Call
  <2>2. QED
    BY <1>t, <2>1, RelationSame DEF registry
<1>6. ASSUME NEW i \in Calls, UpdateStatus(i) \/ AddNodeDependency(i) \/ RemoveNodeDependency(i)
      PROVE  MapsInverse' /\ OnlyKnown'
  BY <1>6, <1>t, RelationSame
     DEF UpdateStatus, UpdateNodeStatus, AddNodeDependency, AddDependency,
         RemoveNodeDependency, RemoveDependency
<1>7. CASE UNCHANGED vars
  BY <1>7, <1>t, RelationSame DEF vars, registry
<1>8. QED
  BY <1>1, <1>2, <1>3, <1>4, <1>5, <1>6, <1>7 DEF Next, Handle

LEMMA RelationHolds == Spec => []RelationInv
<1>1. Init => RelationInv
  BY TypeInit, RelationInit DEF TypeInv, RelationInv
<1>2. TypeInv /\ RelationInv /\ [Next]_vars => RelationInv'
  BY TypeStep, RelationStep DEF TypeInv, RelationInv
<1>3. Init => TypeInv
  BY TypeInit
<1>4. TypeInv /\ [Next]_vars => TypeInv'
  BY TypeStep
<1>5. QED
  BY <1>1, <1>2, <1>3, <1>4, PTL DEF Spec

\* _node_strategy_map and _strategy_node_map are the two sides of one relation
\* over registered nodes, after any sequence of requests.
THEOREM MapsInverseHolds == Spec => []MapsInverse
<1>1. RelationInv => MapsInverse
  BY DEF RelationInv
<1>2. QED BY <1>1, RelationHolds, PTL

\* What RegistryClient reads of the relation from its two ends agrees: the
\* reference strategies and their count from the node, the node lists from the
\* strategies, also for ids that are not registered.
THEOREM ReadsAgreeHolds == Spec => []ReadsAgree
<1>1. ASSUME RelationInv PROVE ReadsAgree
  <2> SUFFICES ASSUME NEW n \in NodeIds
               PROVE  LET Listing == {s \in Strategies : n \in GetStrategyNodes(s).body}
                      IN  /\ ClientRefStrategies(n) = Listing
                          /\ ClientRefCount(n) = Cardinality(Listing)
    BY DEF ReadsAgree
  <2> DEFINE Listing == {s \in Strategies : n \in GetStrategyNodes(s).body}
  <2>t. MapsInverse /\ OnlyKnown /\ RegistryTypeOK
    BY <1>1 DEF RelationInv, TypeOK
  <2>1. \A s \in Strategies :
            n \in GetStrategyNodes(s).body
                <=> s \in KnownStrategies /\ n \in strategyNodes[s] /\ n \in nodes
    BY DEF GetStrategyNodes, Found, NotFound, StrategyNodes
  <2>2. Listing = IF n \in nodes THEN nodeStrategies[n] ELSE {}
    BY <2>t, <2>1 DEF MapsInverse, OnlyKnown, RegistryTypeOK
  <2>3. ClientRefStrategies(n) = IF n \in nodes THEN nodeStrategies[n] ELSE {}
    BY DEF ClientRefStrategies, GetNodeRefStrategies, RefStrategies, Found, NotFound
  <2>4. ClientRefCount(n) = IF n \in nodes THEN Cardinality(nodeStrategies[n]) ELSE 0
    BY DEF ClientRefCount, GetNodeRefCount, RefCount, Found, NotFound
  <2>5. ClientRefCount(n) = Cardinality(Listing)
    <3>1. CASE n \in nodes
      BY <3>1, <2>2, <2>4
    <3>2. CASE n \notin nodes
      BY <3>2, <2>2, <2>4, FS_EmptySet
    <3>3. QED BY <3>1, <3>2
  <2>6. QED
    BY <2>2, <2>3, <2>5
<1>2. QED BY <1>1, RelationHolds, PTL
-----------------------------------------------------------------------------
\* The relation that is promised, as the strategies' lists show it.
Shown == {p \in Strategies \X NodeIds : p[2] \in strategyNodes[p[1]]}

LEMMA PromiseDelete == ASSUME NEW n \in NodeIds, Promise!Delete(n) PROVE Promise!Next
BY DEF Promise!Next

LEMMA PromiseContain ==
    ASSUME NEW n \in NodeIds, NEW s \in Strategies, Promise!Contain(s, n) \/ Promise!Release(s, n)
    PROVE  Promise!Next
BY DEF Promise!Next

LEMMA PromiseStep == RelationInv /\ [Next]_vars => [Promise!Next]_<<nodes, Shown>>
<1> SUFFICES ASSUME RelationInv, [Next]_vars PROVE Promise!Next \/ UNCHANGED <<nodes, Shown>>
  OBVIOUS
<1>t. TypeOK /\ MapsInverse /\ RegistryTypeOK
  BY DEF RelationInv, TypeOK
<1> DEFINE Goal == Promise!Next \/ UNCHANGED <<nodes, Shown>>
<1>1. ASSUME NEW i \in Calls, Create(i) PROVE Goal
  <2>1. request[i].node \in NodeIds
    BY <1>1, <1>t, Requested DEF Create, Unread
  <2>2. nodes' = nodes \cup {request[i].node} /\ Shown' = Shown
    BY <1>1 DEF Create, CreateNode, Shown
  <2>3. Promise!Register(request[i].node)
    BY <2>2 DEF Promise!Register, Shown
  <2>4. QED BY <2>1, <2>3 DEF Promise!Next
<1>2. ASSUME NEW i \in Calls, Delete(i) PROVE Goal
  <2>1. PICK node \in NodeIds : DeleteNode(node)
    BY <1>2, <1>t, Requested DEF Delete, Unread
  <2>2. \A s \in Strategies : strategyNodes'[s] = strategyNodes[s] \ {node}
    BY <2>1, DeletedEverywhere
  <2>3. Shown' = {p \in Shown : p[2] # node}
    BY <2>2 DEF Shown
  <2>4. Promise!Delete(node)
    BY <2>1, <2>3 DEF Promise!Delete, DeleteNode, Shown
  <2>5. QED BY <2>4, PromiseDelete
<1>3. ASSUME NEW i \in Calls, AddNodeToStrategy(i) PROVE Goal
  <2>1. PICK node \in NodeIds, version \in Strategies :
            node \in nodes /\ AddContains(version, node)
    BY <1>3, <1>t, Requested DEF AddNodeToStrategy, Unread
  <2>2. strategyNodes' = [strategyNodes EXCEPT ![version] = @ \cup {node}] /\ nodes' = nodes
    BY <2>1 DEF AddContains
  <2>3. Shown' = Shown \cup {<<version, node>>}
    BY <1>t, <2>1, <2>2 DEF Shown, RegistryTypeOK
  <2>4. Promise!Contain(version, node)
    BY <2>1, <2>2, <2>3 DEF Promise!Contain, Shown
  <2>5. QED BY <2>4, PromiseContain
<1>4. ASSUME NEW i \in Calls, RemoveNodeFromStrategy(i) PROVE Goal
  <2>1. PICK node \in NodeIds, version \in Strategies : RemoveContains(version, node)
    BY <1>4, <1>t, Requested DEF RemoveNodeFromStrategy, Unread
  <2>2. strategyNodes' = [strategyNodes EXCEPT ![version] = @ \ {node}] /\ nodes' = nodes
    BY <2>1 DEF RemoveContains
  <2>3. Shown' = Shown \ {<<version, node>>}
    BY <1>t, <2>1, <2>2 DEF Shown, RegistryTypeOK
  <2>4. Promise!Release(version, node)
    BY <2>2, <2>3 DEF Promise!Release, Shown
  <2>5. QED BY <2>4, PromiseContain
<1>5. ASSUME NEW i \in Calls,
             Refuse(i) \/ Missing(i) \/ RegisterCallback(i) \/ FilterCallbacks(i) \/ StoreCallbacks(i)
             \/ Return(i) \/ GiveUp(i) \/ \E r \in Requests : Call(i, r)
      PROVE  Goal
  <2>1. UNCHANGED registry
    BY <1>5 DEF Refuse, Missing, RegisterCallback, FilterCallbacks, StoreCallbacks, Return, GiveUp, Call
  <2>2. QED
    BY <2>1 DEF registry, Shown
<1>6. ASSUME NEW i \in Calls, UpdateStatus(i) \/ AddNodeDependency(i) \/ RemoveNodeDependency(i)
      PROVE  Goal
  BY <1>6 DEF UpdateStatus, UpdateNodeStatus, AddNodeDependency, AddDependency,
              RemoveNodeDependency, RemoveDependency, Shown
<1>7. CASE UNCHANGED vars
  BY <1>7 DEF vars, registry, Shown
<1>8. QED
  BY <1>1, <1>2, <1>3, <1>4, <1>5, <1>6, <1>7 DEF Next, Handle

\* The registry behind the API, with its two maps, implements one containment
\* relation from which a deleted node is gone (Containment).
THEOREM Implementation == Spec => ImplementsContainment
<1>1. Init => Promise!Init
  BY DEF Init, RegistryInit, Promise!Init
<1>2. RelationInv /\ [Next]_vars => [Promise!Next]_<<nodes, Shown>>
  BY PromiseStep
<1>3. QED
  BY <1>1, <1>2, RelationHolds, PTL DEF Spec, ImplementsContainment, Promise!Spec, Shown
-----------------------------------------------------------------------------
(* AcknowledgedLasts                                                       *)

\* The answer to call i is one that its caller takes for success.
Succeeded(i) == served[i] = "done" /\ ClientResult(request[i].op, code[i]) = "ok"

Lasting(i) == Succeeded(i) /\ clean[i]

\* What was answered is known, and only what was answered counts.
AnswersKnown ==
    \A i \in Calls :
        /\ clean[i] => served[i] = "done"
        /\ served[i] # "no" => request[i] # NoRequest
        /\ served[i] = "thread" => request[i].op = "unregister"
        /\ result[i] = "ok" => Succeeded(i)

\* The list that the unregistration j is going to store does not undo q.
Spares(j, q) ==
    request[j].node = q.node =>
        /\ q.op = "register" => \E k \in held[j] : request[k] = q
        /\ q.op = "unregister" => \A k \in held[j] : request[k].arg # q.arg

\* What lasts holds; no call that is under way asks for the opposite, and no worker
\* thread has a list in hand that would undo it.
LastsInv ==
    \A i \in Calls : Lasting(i) =>
        /\ Holds(request[i])
        /\ \A j \in Calls : UnderWay(j) => ~Undoes(request[j], request[i])
        /\ \A j \in Calls : served[j] = "thread" => Spares(j, request[i])

\* Only the exact opposite of a request undoes it.
LEMMA Opposite ==
    ASSUME NEW q \in RequestType, NEW r \in RequestType, r.node = q.node, r.arg = q.arg,
           \/ q.op = "link" /\ r.op = "unlink"
           \/ q.op = "unlink" /\ r.op = "link"
           \/ q.op = "dep" /\ r.op = "undep"
           \/ q.op = "register" /\ r.op = "unregister"
           \/ q.op = "unregister" /\ r.op = "register"
    PROVE  Undoes(r, q)
<1>1. r = [q EXCEPT !.op = r.op]
  BY DEF RequestType
<1>2. QED BY <1>1 DEF Undoes

\* A call is answered: it holds from now on, if its caller may count on it, and does
\* no harm to what held before.
LEMMA AnswerLasts ==
    ASSUME TypeInv, AnswersKnown, LastsInv, NEW j \in Calls, UnderWay(j),
           NEW status \in Codes, Done(j, status),
           \A k \in Calls \ {j} : held'[k] = held[k],
           \A i \in Calls \ {j} : Lasting(i) => Holds(request[i])',
           ClientResult(request[j].op, status) = "ok" => Holds(request[j])'
    PROVE  AnswersKnown' /\ LastsInv'
<1>1. /\ request' = request /\ result' = result
      /\ served' = [served EXCEPT ![j] = "done"]
      /\ code' = [code EXCEPT ![j] = status]
      /\ clean' = [clean EXCEPT ![j] =
             ~\E k \in Calls \ {j} : UnderWay(k) /\ Races(request[k], request[j])]
  BY DEF Done
<1>2. /\ served'[j] = "done" /\ code'[j] = status
      /\ \A i \in Calls \ {j} : served'[i] = served[i] /\ code'[i] = code[i] /\ clean'[i] = clean[i]
      /\ clean'[j] => \A k \in Calls \ {j} : UnderWay(k) => ~Races(request[k], request[j])
  BY <1>1 DEF TypeInv, TypeOK
<1>3. request[j] # NoRequest /\ served[j] # "done"
  BY DEF UnderWay
<1>4. \A k \in Calls : UnderWay(k)' => k # j /\ UnderWay(k)
  BY <1>1, <1>2 DEF UnderWay
<1>5. AnswersKnown'
  BY <1>1, <1>2, <1>3 DEF AnswersKnown, Succeeded
<1>6. ASSUME NEW i \in Calls, Lasting(i)'
      PROVE  /\ Holds(request[i])'
             /\ \A k \in Calls : UnderWay(k)' => ~Undoes(request[k], request[i])'
             /\ \A k \in Calls : served'[k] = "thread" => Spares(k, request[i])'
  <2>1. CASE i = j
    <3>1. Holds(request[i])'
      BY <1>1, <1>2, <1>6, <2>1 DEF Lasting, Succeeded
    <3>2. ASSUME NEW k \in Calls, UnderWay(k)' PROVE ~Races(request[k], request[j])
      BY <1>2, <1>4, <1>6, <2>1, <3>2 DEF Lasting
    <3>3. \A k \in Calls : UnderWay(k)' => ~Undoes(request[k], request[i])'
      BY <1>1, <2>1, <3>2 DEF Races, Undoes
    <3>4. ASSUME NEW k \in Calls, served'[k] = "thread" PROVE Spares(k, request[i])'
      <4>1. k # j /\ served[k] = "thread" /\ request[k] # NoRequest /\ request[k].op = "unregister"
        BY <1>2, <3>4 DEF AnswersKnown
      <4>2. UnderWay(k)'
        BY <1>1, <3>4, <4>1 DEF UnderWay
      <4>3. request[k].node = request[j].node => request[j].op \notin {"register", "unregister"}
        BY <3>2, <4>1, <4>2 DEF Races
      <4>4. QED BY <1>1, <2>1, <4>3 DEF Spares
    <3>5. QED BY <3>1, <3>3, <3>4
  <2>2. CASE i # j
    <3>1. Lasting(i)
      BY <1>1, <1>2, <1>6, <2>2 DEF Lasting, Succeeded
    <3>2. \A k \in Calls : UnderWay(k)' => ~Undoes(request[k], request[i])'
      BY <1>1, <1>4, <3>1 DEF LastsInv, Undoes
    <3>3. ASSUME NEW k \in Calls, served'[k] = "thread" PROVE Spares(k, request[i])'
      <4>1. k # j /\ served[k] = "thread"
        BY <1>2, <3>3
      <4>2. Spares(k, request[i]) /\ held'[k] = held[k]
        BY <3>1, <4>1 DEF LastsInv
      <4>3. QED BY <1>1, <4>2 DEF Spares
    <3>4. QED BY <2>2, <3>1, <3>2, <3>3
  <2>3. QED BY <2>1, <2>2
<1>7. QED BY <1>5, <1>6 DEF LastsInv

\* A handler on the event loop that leaves alone the callbacks and what of the
\* registry the requests that it does not undo are about.
LEMMA HandlerLasts ==
    ASSUME TypeInv, AnswersKnown, LastsInv, NEW j \in Calls, NEW op, Unread(j, op),
           NEW status \in Codes, Answered(j, status),
           \A q \in RequestType :
               q.op \notin {"register", "unregister"} /\ ~Undoes(request[j], q) /\ Holds(q) => Holds(q)',
           ClientResult(request[j].op, status) = "ok" => Holds(request[j])'
    PROVE  AnswersKnown' /\ LastsInv'
<1>1. UnderWay(j) /\ Done(j, status) /\ UNCHANGED <<callbacks, held, request>>
  BY DEF UnderWay, Unread, Answered, Done
<1>2. ASSUME NEW i \in Calls \ {j}, Lasting(i) PROVE Holds(request[i])'
  <2>1. request[i] \in RequestType /\ request[i] # NoRequest
    BY <1>2 DEF Lasting, Succeeded, AnswersKnown, TypeInv, TypeOK
  <2>2. Holds(request[i]) /\ ~Undoes(request[j], request[i])
    BY <1>1, <1>2 DEF LastsInv
  <2>3. CASE request[i].op \in {"register", "unregister"}
    BY <1>1, <2>2, <2>3 DEF Holds, ListOf
  <2>4. CASE request[i].op \notin {"register", "unregister"}
    <3>1. PICK q \in RequestType : q = request[i]
      BY <2>1
    <3>2. Holds(q)'
      BY <2>2, <2>4, <3>1
    <3>3. QED BY <1>1, <3>1, <3>2 DEF Holds, ListOf
  <2>5. QED BY <2>3, <2>4
<1>3. QED BY <1>1, <1>2, AnswerLasts

\* Nothing changes in the registry but what q is not about.
LEMMA SameHolds ==
    ASSUME NEW q, q.op \notin {"register", "unregister"}, UNCHANGED registry
    PROVE  Holds(q)' <=> Holds(q)
BY DEF Holds, registry, InList

LEMMA CreateHolds ==
    ASSUME TypeInv, NEW r \in RequestType, r.op = "create", CreateNode(r.node, r.arg)
    PROVE  /\ Holds(r)'
           /\ \A q \in RequestType :
                  q.op \notin {"register", "unregister"} /\ ~Undoes(r, q) /\ Holds(q) => Holds(q)'
<1>t. RegistryTypeOK
  BY DEF TypeInv, TypeOK
<1>1. Holds(r)'
  BY DEF Holds, CreateNode
<1>2. ASSUME NEW q \in RequestType, q.op \notin {"register", "unregister"}, ~Undoes(r, q), Holds(q)
      PROVE  Holds(q)'
  <2>1. q.op \in {"delete", "dep"} => q.node # r.node
    BY <1>2 DEF Undoes
  <2>2. q.op = "dep" => q.node \in NodeIds
    BY DEF RequestType
  <2>3. q.op = "dep" => dependencies'[q.node] = dependencies[q.node]
    BY <1>t, <2>1, <2>2 DEF CreateNode, RegistryTypeOK
  <2>4. QED BY <1>2, <2>1, <2>3 DEF Holds, CreateNode, InList
<1>3. QED BY <1>1, <1>2

LEMMA DeleteHolds ==
    ASSUME TypeInv, NEW r \in RequestType, r.op = "delete", DeleteNode(r.node)
    PROVE  /\ Holds(r)'
           /\ \A q \in RequestType :
                  q.op \notin {"register", "unregister"} /\ ~Undoes(r, q) /\ Holds(q) => Holds(q)'
<1>t. RegistryTypeOK
  BY DEF TypeInv, TypeOK
<1>1. Holds(r)'
  BY DEF Holds, DeleteNode
<1>2. ASSUME NEW q \in RequestType, q.op \notin {"register", "unregister"}, ~Undoes(r, q), Holds(q)
      PROVE  Holds(q)'
  <2>1. q.op \in {"create", "link", "dep"} => q.node # r.node
    BY <1>2 DEF Undoes
  <2>2. q.node \in NodeIds
    BY DEF RequestType
  <2>3. q.op \in {"link", "dep"} =>
            dependencies'[q.node] = dependencies[q.node] /\ nodeStrategies'[q.node] = nodeStrategies[q.node]
    BY <1>t, <2>1, <2>2 DEF DeleteNode, RegistryTypeOK
  <2>4. nodeStrategies'[q.node] \subseteq nodeStrategies[q.node]
    BY <1>t, <2>2 DEF DeleteNode, RegistryTypeOK
  <2>5. QED BY <1>2, <2>1, <2>3, <2>4 DEF Holds, DeleteNode, InList
<1>3. QED BY <1>1, <1>2

LEMMA LinkHolds ==
    ASSUME TypeInv, NEW r \in RequestType, r.op = "link", r.node \in nodes, AddContains(r.arg, r.node)
    PROVE  /\ Holds(r)'
           /\ \A q \in RequestType :
                  q.op \notin {"register", "unregister"} /\ ~Undoes(r, q) /\ Holds(q) => Holds(q)'
<1>t. RegistryTypeOK
  BY DEF TypeInv, TypeOK
<1>0. /\ nodeStrategies' = [nodeStrategies EXCEPT ![r.node] = @ \cup {r.arg}]
      /\ UNCHANGED <<nodes, dependencies, statuses>>
      /\ r.node \in NodeIds
  BY DEF AddContains, RequestType
<1>1. Holds(r)'
  BY <1>0, <1>t DEF Holds, RegistryTypeOK
<1>2. ASSUME NEW q \in RequestType, q.op \notin {"register", "unregister"}, ~Undoes(r, q), Holds(q)
      PROVE  Holds(q)'
  <2>1. q.op = "unlink" => q.node # r.node \/ q.arg # r.arg
    BY <1>2, Opposite
  <2>2. q.node \in NodeIds
    BY DEF RequestType
  <2>3. nodeStrategies'[q.node] = IF q.node = r.node THEN nodeStrategies[q.node] \cup {r.arg}
                                  ELSE nodeStrategies[q.node]
    BY <1>0, <1>t, <2>2 DEF RegistryTypeOK
  <2>4. QED BY <1>0, <1>2, <2>1, <2>3 DEF Holds, InList
<1>3. QED BY <1>1, <1>2

LEMMA UnlinkHolds ==
    ASSUME TypeInv, NEW r \in RequestType, r.op = "unlink", RemoveContains(r.arg, r.node)
    PROVE  /\ Holds(r)'
           /\ \A q \in RequestType :
                  q.op \notin {"register", "unregister"} /\ ~Undoes(r, q) /\ Holds(q) => Holds(q)'
<1>t. RegistryTypeOK
  BY DEF TypeInv, TypeOK
<1>0. /\ nodeStrategies' = [nodeStrategies EXCEPT ![r.node] = @ \ {r.arg}]
      /\ UNCHANGED <<nodes, dependencies, statuses>>
      /\ r.node \in NodeIds
  BY DEF RemoveContains, RequestType
<1>1. Holds(r)'
  BY <1>0, <1>t DEF Holds, RegistryTypeOK
<1>2. ASSUME NEW q \in RequestType, q.op \notin {"register", "unregister"}, ~Undoes(r, q), Holds(q)
      PROVE  Holds(q)'
  <2>1. q.op = "link" => q.node # r.node \/ q.arg # r.arg
    BY <1>2, Opposite
  <2>2. q.node \in NodeIds
    BY DEF RequestType
  <2>3. nodeStrategies'[q.node] = IF q.node = r.node THEN nodeStrategies[q.node] \ {r.arg}
                                  ELSE nodeStrategies[q.node]
    BY <1>0, <1>t, <2>2 DEF RegistryTypeOK
  <2>4. QED BY <1>0, <1>2, <2>1, <2>3 DEF Holds, InList
<1>3. QED BY <1>1, <1>2

LEMMA StatusHolds ==
    ASSUME TypeInv, NEW r \in RequestType, r.op = "status", UpdateNodeStatus(r.node, r.arg)
    PROVE  /\ Holds(r)'
           /\ \A q \in RequestType :
                  q.op \notin {"register", "unregister"} /\ ~Undoes(r, q) /\ Holds(q) => Holds(q)'
<1>t. RegistryTypeOK
  BY DEF TypeInv, TypeOK
<1>0. r.node \in NodeIds
  BY DEF RequestType
<1>1. Holds(r)'
  BY <1>0, <1>t DEF Holds, UpdateNodeStatus, RegistryTypeOK
<1>2. ASSUME NEW q \in RequestType, q.op \notin {"register", "unregister"}, ~Undoes(r, q), Holds(q)
      PROVE  Holds(q)'
  <2>1. q.op = "status" => q.node # r.node \/ q = r
    BY <1>2 DEF Undoes
  <2>2. q.op = "status" => q.node \in NodeIds
    BY DEF RequestType
  <2>3. CASE q.op = "status"
    BY <1>1, <1>2, <1>t, <2>1, <2>2, <2>3 DEF Holds, UpdateNodeStatus, RegistryTypeOK
  <2>4. CASE q.op # "status"
    BY <1>2, <2>4 DEF Holds, UpdateNodeStatus, InList
  <2>5. QED BY <2>3, <2>4
<1>3. QED BY <1>1, <1>2

LEMMA DepHolds ==
    ASSUME TypeInv, NEW r \in RequestType, r.op = "dep", {r.node, r.arg} \subseteq nodes,
           AddDependency(r.node, r.arg)
    PROVE  /\ Holds(r)'
           /\ \A q \in RequestType :
                  q.op \notin {"register", "unregister"} /\ ~Undoes(r, q) /\ Holds(q) => Holds(q)'
<1>t. RegistryTypeOK
  BY DEF TypeInv, TypeOK
<1>0. r.node \in NodeIds /\ r.arg \in NodeIds
  BY DEF RequestType
<1> DEFINE list == dependencies[r.node]
           new == Append(list, r.arg)
<1>1. list \in Seq(NodeIds)
  BY <1>0, <1>t DEF RegistryTypeOK
<1>2. InList(r.arg, new) /\ \A x : InList(x, list) => InList(x, new)
  <2>1. /\ Len(new) = Len(list) + 1 /\ Len(list) \in Nat /\ new \in Seq(NodeIds)
        /\ new[Len(list) + 1] = r.arg /\ \A i \in 1 .. Len(list) : new[i] = list[i]
    BY <1>0, <1>1, AppendProperties
  <2> HIDE DEF new, list
  <2>2. Len(list) + 1 \in DOMAIN new /\ \A i \in DOMAIN list : i \in DOMAIN new /\ new[i] = list[i]
    BY <1>1, <2>1
  <2>3. QED BY <2>1, <2>2 DEF InList
<1>3. \/ InList(r.arg, list) /\ dependencies' = dependencies
      \/ dependencies' = [dependencies EXCEPT ![r.node] = new]
  BY DEF AddDependency
<1> HIDE DEF list, new
<1>4. /\ InList(r.arg, dependencies'[r.node])
      /\ \A x, n \in NodeIds : InList(x, dependencies[n]) => InList(x, dependencies'[n])
  <2>1. CASE InList(r.arg, list) /\ dependencies' = dependencies
    BY <2>1 DEF list
  <2>2. CASE dependencies' = [dependencies EXCEPT ![r.node] = new]
    <3>1. \A n \in NodeIds : dependencies'[n] = IF n = r.node THEN new ELSE dependencies[n]
      BY <1>t, <2>2 DEF RegistryTypeOK
    <3>2. QED BY <1>0, <1>2, <3>1 DEF list
  <2>3. QED BY <1>3, <2>1, <2>2
<1>5. Holds(r)'
  BY <1>4 DEF Holds, InList
<1>6. ASSUME NEW q \in RequestType, q.op \notin {"register", "unregister"}, Holds(q)
      PROVE  Holds(q)'
  <2>1. q.op = "dep" => q.node \in NodeIds /\ q.arg \in NodeIds
    BY DEF RequestType
  <2>2. CASE q.op = "dep"
    <3>1. InList(q.arg, dependencies'[q.node])
      BY <1>4, <1>6, <2>1, <2>2 DEF Holds
    <3>2. QED BY <2>2, <3>1 DEF Holds, InList
  <2>3. CASE q.op # "dep"
    BY <1>6, <2>3 DEF Holds, AddDependency
  <2>4. QED BY <2>2, <2>3
<1>7. QED BY <1>5, <1>6

LEMMA UndepHolds ==
    ASSUME TypeInv, NEW r \in RequestType, r.op = "undep", RemoveDependency(r.node, r.arg)
    PROVE  /\ Holds(r)'
           /\ \A q \in RequestType :
                  q.op \notin {"register", "unregister"} /\ ~Undoes(r, q) /\ Holds(q) => Holds(q)'
<1>t. RegistryTypeOK
  BY DEF TypeInv, TypeOK
<1>0. r.node \in NodeIds /\ r.arg \in NodeIds
  BY DEF RequestType
<1>1. Holds(r)'
  BY DEF Holds
<1>2. ASSUME NEW q \in RequestType, q.op \notin {"register", "unregister"}, ~Undoes(r, q), Holds(q)
      PROVE  Holds(q)'
  <2>1. q.op = "dep" => q.node \in NodeIds /\ (q.node # r.node \/ q.arg # r.arg)
    <3>1. q.op = "dep" => q.node # r.node \/ q.arg # r.arg
      BY <1>2, Opposite
    <3>2. q.op = "dep" => q.node \in NodeIds
      BY DEF RequestType
    <3>3. QED BY <3>1, <3>2
  <2>2. CASE q.op = "dep"
    <3>1. InList(q.arg, dependencies[q.node]) /\ dependencies[q.node] \in Seq(NodeIds)
      BY <1>2, <1>t, <2>1, <2>2 DEF Holds, RegistryTypeOK
    <3>2. \/ dependencies'[q.node] = dependencies[q.node]
          \/ /\ q.node = r.node /\ InList(r.arg, dependencies[q.node])
             /\ dependencies'[q.node] = WithoutFirst(dependencies[q.node], r.arg)
      BY <1>0, <1>t, <2>1, <2>2 DEF RemoveDependency, RegistryTypeOK
    <3>3. InList(q.arg, dependencies'[q.node])
      BY <2>1, <2>2, <3>1, <3>2, WithoutFirstKeeps
    <3>4. QED BY <2>2, <3>3 DEF Holds, InList
  <2>3. CASE q.op # "dep"
    BY <1>2, <2>3 DEF Holds, RemoveDependency
  <2>4. QED BY <2>2, <2>3
<1>3. QED BY <1>1, <1>2

\* A handler refuses the request: nothing changed, and the caller is not told of success.
LEMMA RefusedLasts ==
    ASSUME TypeInv, AnswersKnown, LastsInv, NEW j \in Calls, NEW op, Unread(j, op),
           NEW status \in {404, 422, 500}, Answered(j, status), UNCHANGED registry,
           op \in {"create", "malformed"} \/ (status = 404 /\ op \in {"delete", "link", "dep", "undep"})
    PROVE  AnswersKnown' /\ LastsInv'
<1>1. request[j].op = op /\ status \in Codes
  BY DEF Unread, Codes
<1>2. ClientResult(op, status) # "ok"
  <2>1. CASE op \in {"create", "malformed"}
    BY <2>1 DEF ClientResult, RegisterNodeResult, HandleResponse
  <2>2. CASE status = 404 /\ op \in {"delete", "link", "dep", "undep"}
    BY <2>2 DEF ClientResult, DeleteNodeResult, AddContainsResult, HandleResponse
  <2>3. QED BY <2>1, <2>2
<1>3. \A q \in RequestType :
          q.op \notin {"register", "unregister"} /\ ~Undoes(request[j], q) /\ Holds(q) => Holds(q)'
  BY SameHolds
<1>4. QED BY <1>1, <1>2, <1>3, HandlerLasts

LEMMA RegisterLasts ==
    ASSUME TypeInv, AnswersKnown, LastsInv, NEW j \in Calls, RegisterCallback(j)
    PROVE  AnswersKnown' /\ LastsInv'
<1>1. /\ UnderWay(j) /\ Done(j, 200) /\ UNCHANGED <<registry, held, request>>
      /\ callbacks' = callbacks \cup {j} /\ request[j].op = "register" /\ 200 \in Codes
  BY DEF RegisterCallback, UnderWay, Unread, Done, Codes
<1>2. Holds(request[j])'
  BY <1>1 DEF Holds
<1>3. ASSUME NEW i \in Calls \ {j}, Lasting(i) PROVE Holds(request[i])'
  <2>1. request[i] \in RequestType /\ request[j] \in RequestType
    BY <1>1, <1>3 DEF Lasting, Succeeded, AnswersKnown, TypeInv, TypeOK, UnderWay
  <2>2. Holds(request[i]) /\ ~Undoes(request[j], request[i])
    BY <1>1, <1>3 DEF LastsInv
  <2>3. CASE request[i].op = "register"
    BY <1>1, <2>2, <2>3 DEF Holds
  <2>4. CASE request[i].op = "unregister"
    <3>1. request[j].node # request[i].node \/ request[j].arg # request[i].arg
      BY <1>1, <2>1, <2>2, <2>4, Opposite
    <3>2. QED BY <1>1, <2>2, <2>4, <3>1 DEF Holds, ListOf
  <2>5. CASE request[i].op \notin {"register", "unregister"}
    BY <1>1, <2>2, <2>5 DEF Holds, registry, InList
  <2>6. QED BY <2>3, <2>4, <2>5
<1>4. QED BY <1>1, <1>2, <1>3, AnswerLasts

LEMMA StoreLasts ==
    ASSUME TypeInv, AnswersKnown, LastsInv, NEW j \in Calls, StoreCallbacks(j),
           \A k \in held[j] : request[k].node = request[j].node /\ request[k].arg # request[j].arg
    PROVE  AnswersKnown' /\ LastsInv'
<1>1. /\ served[j] = "thread" /\ Done(j, 200) /\ UNCHANGED <<registry, request>>
      /\ callbacks' = (callbacks \ ListOf(request[j].node)) \cup held[j]
      /\ \A k \in Calls \ {j} : held'[k] = held[k]
      /\ 200 \in Codes
  BY DEF StoreCallbacks, Done, Codes, TypeInv, TypeOK
<1>2. request[j].op = "unregister" /\ UnderWay(j)
  BY <1>1 DEF AnswersKnown, UnderWay
<1>3. Holds(request[j])'
  BY <1>1, <1>2 DEF Holds, ListOf
<1>4. ASSUME NEW i \in Calls \ {j}, Lasting(i) PROVE Holds(request[i])'
  <2>1. Holds(request[i]) /\ Spares(j, request[i])
    BY <1>1, <1>4 DEF LastsInv
  <2>2. CASE request[i].op = "register"
    <3>1. PICK k \in callbacks : request[k] = request[i]
      BY <2>1, <2>2 DEF Holds
    <3>2. CASE request[j].node = request[i].node
      BY <1>1, <2>1, <2>2, <3>2 DEF Holds, Spares
    <3>3. CASE request[j].node # request[i].node
      <4>1. k \in callbacks'
        BY <1>1, <3>1, <3>3 DEF ListOf
      <4>2. QED BY <1>1, <2>2, <3>1, <4>1 DEF Holds
    <3>4. QED BY <3>2, <3>3
  <2>3. CASE request[i].op = "unregister"
    <3>1. ASSUME NEW k \in callbacks', request[k].node = request[i].node PROVE request[k].arg # request[i].arg
      <4>1. CASE k \in held[j]
        BY <2>1, <2>3, <3>1, <4>1 DEF Spares
      <4>2. CASE k \in callbacks
        BY <2>1, <2>3, <3>1, <4>2 DEF Holds, ListOf
      <4>3. QED BY <1>1, <3>1, <4>1, <4>2
    <3>2. QED BY <1>1, <2>3, <3>1 DEF Holds, ListOf
  <2>4. CASE request[i].op \notin {"register", "unregister"}
    BY <1>1, <2>1, <2>4 DEF Holds, registry, InList
  <2>5. QED BY <2>2, <2>3, <2>4
<1>5. QED BY <1>1, <1>2, <1>3, <1>4, AnswerLasts

LEMMA FilterLasts ==
    ASSUME TypeInv, AnswersKnown, LastsInv, NEW j \in Calls, FilterCallbacks(j)
    PROVE  AnswersKnown' /\ LastsInv'
<1>1. /\ request[j] # NoRequest /\ request[j].op = "unregister" /\ served[j] = "no"
      /\ UNCHANGED <<registry, callbacks, request, code, result, clean>>
      /\ served'[j] = "thread" /\ held'[j] = {k \in ListOf(request[j].node) : request[k].arg # request[j].arg}
      /\ \A k \in Calls \ {j} : served'[k] = served[k] /\ held'[k] = held[k]
  BY DEF FilterCallbacks, Unread, TypeInv, TypeOK
<1>2. \A i \in Calls : Succeeded(i)' <=> Succeeded(i)
  BY <1>1 DEF Succeeded
<1>3. AnswersKnown'
  BY <1>1, <1>2 DEF AnswersKnown
<1>4. ASSUME NEW i \in Calls, Lasting(i)'
      PROVE  /\ Holds(request[i])'
             /\ \A k \in Calls : UnderWay(k)' => ~Undoes(request[k], request[i])'
             /\ \A k \in Calls : served'[k] = "thread" => Spares(k, request[i])'
  <2>1. Lasting(i)
    BY <1>1, <1>2, <1>4 DEF Lasting
  <2>2. Holds(request[i]) /\ Holds(request[i])'
    BY <1>1, <2>1 DEF LastsInv, Holds, ListOf, registry, InList
  <2>3. \A k \in Calls : UnderWay(k)' <=> UnderWay(k)
    BY <1>1 DEF UnderWay
  <2>4. \A k \in Calls : UnderWay(k)' => ~Undoes(request[k], request[i])'
    BY <1>1, <2>1, <2>3 DEF LastsInv, Undoes
  <2>5. ASSUME NEW k \in Calls \ {j}, served'[k] = "thread" PROVE Spares(k, request[i])'
    BY <1>1, <2>1, <2>5 DEF LastsInv, Spares
  <2>6. Spares(j, request[i])'
    <3>1. UnderWay(j) /\ request[i] \in RequestType /\ request[j] \in RequestType
      BY <1>1, <2>1 DEF UnderWay, Lasting, Succeeded, AnswersKnown, TypeInv, TypeOK
    <3>2. ~Undoes(request[j], request[i])
      BY <2>1, <3>1 DEF LastsInv
    <3>3. ASSUME request[j].node = request[i].node, request[i].op = "register"
          PROVE  \E k \in held'[j] : request[k] = request[i]
      <4>1. request[j].arg # request[i].arg
        BY <1>1, <3>1, <3>2, <3>3, Opposite
      <4>2. PICK k \in callbacks : request[k] = request[i]
        BY <2>2, <3>3 DEF Holds
      <4>3. k \in held'[j]
        BY <1>1, <3>3, <4>1, <4>2 DEF ListOf
      <4>4. QED BY <4>2, <4>3
    <3>4. ASSUME request[j].node = request[i].node, request[i].op = "unregister"
          PROVE  \A k \in held'[j] : request[k].arg # request[i].arg
      BY <1>1, <2>2, <3>4 DEF Holds
    <3>5. QED BY <1>1, <3>3, <3>4 DEF Spares
  <2>7. QED BY <2>2, <2>4, <2>5, <2>6
<1>5. QED BY <1>3, <1>4 DEF LastsInv

\* A new call: from now on it does not count what it is the opposite of.
LEMMA CallLasts ==
    ASSUME TypeInv, AnswersKnown, LastsInv, NEW j \in Calls, NEW r \in Requests, Call(j, r)
    PROVE  AnswersKnown' /\ LastsInv'
<1>1. /\ request[j] = NoRequest /\ request'[j] = r /\ r \in RequestType
      /\ \A k \in Calls \ {j} : request'[k] = request[k] /\ result'[k] = result[k]
      /\ result'[j] = "waiting"
      /\ UNCHANGED <<registry, callbacks, served, held, code>>
      /\ \A k \in Calls : clean'[k] => clean[k] /\ ~(request[k] # NoRequest /\ Undoes(r, request[k]))
  <2>1. request' = [request EXCEPT ![j] = r] /\ result' = [result EXCEPT ![j] = "waiting"]
        /\ UNCHANGED <<registry, callbacks, served, held, code>>
        /\ request[j] = NoRequest
    BY DEF Call
  <2>2. r \in RequestType
    BY ApiAssumption DEF ApiAssumption
  <2>3. \A k \in Calls : clean'[k] = (clean[k] /\ ~(request[k] # NoRequest /\ Undoes(r, request[k])))
    BY DEF Call
  <2>4. QED BY <2>1, <2>2, <2>3 DEF TypeInv, TypeOK
<1>2. /\ NoRequest \notin RequestType /\ served[j] = "no" /\ ~clean[j]
      /\ \A k \in callbacks : k # j /\ k \in Calls
      /\ \A k \in Calls : \A m \in held[k] : m # j /\ m \in Calls
  BY <1>1, ApiAssumption DEF ApiAssumption, AnswersKnown, TypeInv, TypeOK, HeldAreRegistrations
<1>3. AnswersKnown'
  <2>1. \A k \in Calls \ {j} : Succeeded(k)' <=> Succeeded(k)
    BY <1>1 DEF Succeeded
  <2>2. \A k \in Calls \ {j} : clean'[k] => clean[k]
    BY <1>1
  <2>3. ~clean'[j]
    BY <1>1, <1>2
  <2>4. QED BY <1>1, <1>2, <2>1, <2>2, <2>3 DEF AnswersKnown
<1>4. ASSUME NEW i \in Calls, Lasting(i)'
      PROVE  /\ Holds(request[i])'
             /\ \A k \in Calls : UnderWay(k)' => ~Undoes(request[k], request[i])'
             /\ \A k \in Calls : served'[k] = "thread" => Spares(k, request[i])'
  <2>1. clean'[i] /\ Succeeded(i)'
    BY <1>4 DEF Lasting
  <2>2. i # j /\ clean[i] /\ request'[i] = request[i]
    BY <1>1, <1>2, <2>1
  <2>3. Lasting(i) /\ request[i] # NoRequest
    BY <1>1, <2>1, <2>2 DEF Lasting, Succeeded, AnswersKnown
  <2>4. Holds(request[i])'
    BY <1>1, <1>2, <2>2, <2>3 DEF LastsInv, Holds, ListOf, registry, InList
  <2>5. ASSUME NEW k \in Calls, UnderWay(k)' PROVE ~Undoes(request'[k], request'[i])
    <3>1. CASE k = j
      BY <1>1, <2>1, <2>2, <2>3, <3>1
    <3>2. CASE k # j
      <4>1. UnderWay(k) /\ request'[k] = request[k]
        BY <1>1, <2>5, <3>2 DEF UnderWay
      <4>2. QED BY <2>2, <2>3, <4>1 DEF LastsInv
    <3>3. QED BY <3>1, <3>2
  <2>6. ASSUME NEW k \in Calls, served'[k] = "thread" PROVE Spares(k, request[i])'
    <3>1. k # j /\ served[k] = "thread"
      BY <1>1, <1>2, <2>6
    <3>2. Spares(k, request[i])
      BY <2>3, <3>1 DEF LastsInv
    <3>3. QED BY <1>1, <1>2, <2>2, <3>1, <3>2 DEF Spares
  <2>7. QED BY <2>4, <2>5, <2>6 DEF Undoes
<1>5. QED BY <1>3, <1>4 DEF LastsInv

\* A list in hand was filtered: it has the other targets of the node alone.
HeldFiltered ==
    \A j \in Calls : \A k \in held[j] :
        /\ request[j] # NoRequest
        /\ request[k].node = request[j].node
        /\ request[k].arg # request[j].arg

LEMMA FilteredStep == TypeInv /\ HeldFiltered /\ [Next]_vars => HeldFiltered'
<1> SUFFICES ASSUME TypeInv, HeldFiltered, [Next]_vars PROVE HeldFiltered'
  OBVIOUS
<1>1. CASE request' = request /\ held' = held
  BY <1>1 DEF HeldFiltered
<1>2. ASSUME NEW i \in Calls, FilterCallbacks(i) PROVE HeldFiltered'
  <2>1. /\ request' = request /\ request[i] # NoRequest
        /\ held'[i] = {k \in ListOf(request[i].node) : request[k].arg # request[i].arg}
        /\ \A j \in Calls \ {i} : held'[j] = held[j]
    BY <1>2 DEF FilterCallbacks, Unread, TypeInv, TypeOK
  <2>2. \A k \in held'[i] : request[k].node = request[i].node /\ request[k].arg # request[i].arg
    BY <2>1 DEF ListOf
  <2>3. QED BY <2>1, <2>2 DEF HeldFiltered
<1>3. ASSUME NEW i \in Calls, StoreCallbacks(i) PROVE HeldFiltered'
  <2>1. request' = request /\ \A j \in Calls : held'[j] \subseteq held[j]
    BY <1>3 DEF StoreCallbacks, Done, TypeInv, TypeOK
  <2>2. QED BY <2>1 DEF HeldFiltered
<1>4. ASSUME NEW i \in Calls, NEW r \in Requests, Call(i, r) PROVE HeldFiltered'
  <2>1. /\ request[i] = NoRequest /\ held' = held
        /\ \A j \in Calls \ {i} : request'[j] = request[j]
    BY <1>4 DEF Call, TypeInv, TypeOK
  <2>2. \A j \in Calls : \A k \in held[j] : j # i /\ k # i /\ k \in Calls
    BY <2>1 DEF HeldFiltered, TypeInv, HeldAreRegistrations
  <2>3. QED BY <2>1, <2>2 DEF HeldFiltered
<1>5. ASSUME NEW i \in Calls,
             \/ Create(i) \/ Refuse(i) \/ Missing(i) \/ Delete(i) \/ AddNodeToStrategy(i)
             \/ RemoveNodeFromStrategy(i) \/ UpdateStatus(i) \/ AddNodeDependency(i)
             \/ RemoveNodeDependency(i) \/ RegisterCallback(i) \/ Return(i) \/ GiveUp(i)
      PROVE  HeldFiltered'
  <2>1. request' = request /\ held' = held
    BY <1>5 DEF Create, Refuse, Missing, Delete, AddNodeToStrategy, RemoveNodeFromStrategy,
                UpdateStatus, AddNodeDependency, RemoveNodeDependency, RegisterCallback, Return,
                GiveUp, Answered, Done
  <2>2. QED BY <1>1, <2>1
<1>6. CASE UNCHANGED vars
  BY <1>1, <1>6 DEF vars, callers
<1>7. QED BY <1>2, <1>3, <1>4, <1>5, <1>6 DEF Next, Handle

\* A step that the API takes no part in.
LEMMA OutsideLasts ==
    ASSUME AnswersKnown, LastsInv,
           UNCHANGED <<registry, callbacks, request, served, held, code, clean>>,
           \A i \in Calls : result'[i] = "ok" => Succeeded(i)
    PROVE  AnswersKnown' /\ LastsInv'
<1>1. \A i \in Calls : Succeeded(i)' <=> Succeeded(i)
  BY DEF Succeeded
<1>2. AnswersKnown'
  BY <1>1 DEF AnswersKnown
<1>3. \A i \in Calls : Lasting(i)' <=> Lasting(i)
  BY <1>1 DEF Lasting
<1>4. \A i \in Calls : UnderWay(i)' <=> UnderWay(i)
  BY DEF UnderWay
<1>5. \A i \in Calls : Holds(request[i]) => Holds(request[i])'
  BY DEF Holds, ListOf, registry, InList
<1>6. LastsInv'
  BY <1>3, <1>4, <1>5 DEF LastsInv, Undoes, Spares
<1>7. QED BY <1>2, <1>6

\* The caller takes the answer, or gives up.
LEMMA CallerLasts ==
    ASSUME TypeInv, AnswersKnown, LastsInv, NEW j \in Calls, Return(j) \/ GiveUp(j)
    PROVE  AnswersKnown' /\ LastsInv'
<1>1. /\ UNCHANGED <<registry, callbacks, request, served, held, code, clean>>
      /\ \A k \in Calls \ {j} : result'[k] = result[k]
      /\ result'[j] = "ok" => Succeeded(j)
  BY DEF Return, GiveUp, Succeeded, TypeInv, TypeOK
<1>2. \A i \in Calls : result'[i] = "ok" => Succeeded(i)
  BY <1>1 DEF AnswersKnown
<1>3. QED BY <1>1, <1>2, OutsideLasts

\* A handler on the event loop does what r asks for and what spares the rest.
LEMMA LoopLasts ==
    ASSUME TypeInv, AnswersKnown, LastsInv, NEW j \in Calls, NEW r \in RequestType, r = request[j],
           served[j] = "no", NEW status \in Codes, Answered(j, status), Holds(r)',
           \A q \in RequestType :
               q.op \notin {"register", "unregister"} /\ ~Undoes(r, q) /\ Holds(q) => Holds(q)'
    PROVE  AnswersKnown' /\ LastsInv'
<1>1. Unread(j, r.op)
  BY ApiAssumption DEF ApiAssumption, Unread
<1>2. Holds(request[j])'
  <2>1. request' = request
    BY DEF Answered, Done
  <2>2. Holds(r)' => Holds(request[j])'
    BY <2>1 DEF Holds, ListOf
  <2>3. QED BY <2>2
<1>3. QED BY <1>1, <1>2, HandlerLasts

LEMMA LastsStep ==
    TypeInv /\ AnswersKnown /\ HeldFiltered /\ LastsInv /\ [Next]_vars => AnswersKnown' /\ LastsInv'
<1> SUFFICES ASSUME TypeInv, AnswersKnown, HeldFiltered, LastsInv, [Next]_vars
             PROVE  AnswersKnown' /\ LastsInv'
  OBVIOUS
<1>t. \A i \in Calls : request[i] # NoRequest => request[i] \in RequestType
  BY DEF TypeInv, TypeOK
<1>c. {200, 201, 404, 422, 500} \subseteq Codes
  BY DEF Codes
<1>1. ASSUME NEW i \in Calls, Create(i) PROVE AnswersKnown' /\ LastsInv'
  <2>1. PICK r \in RequestType : r = request[i]
    BY <1>1, <1>t DEF Create, Unread
  <2>2. /\ r.op = "create" /\ served[i] = "no" /\ Answered(i, 201)
        /\ CreateNode(r.node, r.arg)
    BY <1>1, <2>1 DEF Create, Unread
  <2>3. QED BY <2>1, <2>2, <1>c, CreateHolds, LoopLasts
<1>2. ASSUME NEW i \in Calls, Refuse(i) PROVE AnswersKnown' /\ LastsInv'
  <2>1. PICK op \in {"malformed", "create"}, status \in {404, 422, 500} :
            Unread(i, op) /\ Answered(i, status)
    BY <1>2 DEF Refuse
  <2>2. UNCHANGED registry
    BY <1>2 DEF Refuse
  <2>3. QED BY <2>1, <2>2, RefusedLasts
<1>3. ASSUME NEW i \in Calls, Missing(i) PROVE AnswersKnown' /\ LastsInv'
  <2>1. PICK op \in {"delete", "link", "dep", "undep"} : Unread(i, op)
    BY <1>3 DEF Missing, Unread
  <2>2. Answered(i, 404) /\ UNCHANGED registry
    BY <1>3 DEF Missing
  <2>3. QED BY <2>1, <2>2, RefusedLasts
<1>4. ASSUME NEW i \in Calls, Delete(i) PROVE AnswersKnown' /\ LastsInv'
  <2>1. PICK r \in RequestType : r = request[i]
    BY <1>4, <1>t DEF Delete, Unread
  <2>2. /\ r.op = "delete" /\ served[i] = "no" /\ Answered(i, 200)
        /\ DeleteNode(r.node)
    BY <1>4, <2>1 DEF Delete, Unread
  <2>3. QED BY <2>1, <2>2, <1>c, DeleteHolds, LoopLasts
<1>5. ASSUME NEW i \in Calls, AddNodeToStrategy(i) PROVE AnswersKnown' /\ LastsInv'
  <2>1. PICK r \in RequestType : r = request[i]
    BY <1>5, <1>t DEF AddNodeToStrategy, Unread
  <2>2. /\ r.op = "link" /\ served[i] = "no" /\ Answered(i, 200)
        /\ AddContains(r.arg, r.node) /\ r.node \in nodes
    BY <1>5, <2>1 DEF AddNodeToStrategy, Unread
  <2>3. QED BY <2>1, <2>2, <1>c, LinkHolds, LoopLasts
<1>6. ASSUME NEW i \in Calls, RemoveNodeFromStrategy(i) PROVE AnswersKnown' /\ LastsInv'
  <2>1. PICK r \in RequestType : r = request[i]
    BY <1>6, <1>t DEF RemoveNodeFromStrategy, Unread
  <2>2. /\ r.op = "unlink" /\ served[i] = "no" /\ Answered(i, 200)
        /\ RemoveContains(r.arg, r.node)
    BY <1>6, <2>1 DEF RemoveNodeFromStrategy, Unread
  <2>3. QED BY <2>1, <2>2, <1>c, UnlinkHolds, LoopLasts
<1>7. ASSUME NEW i \in Calls, UpdateStatus(i) PROVE AnswersKnown' /\ LastsInv'
  <2>1. PICK r \in RequestType : r = request[i]
    BY <1>7, <1>t DEF UpdateStatus, Unread
  <2>2. /\ r.op = "status" /\ served[i] = "no" /\ Answered(i, 200)
        /\ UpdateNodeStatus(r.node, r.arg)
    BY <1>7, <2>1 DEF UpdateStatus, Unread
  <2>3. QED BY <2>1, <2>2, <1>c, StatusHolds, LoopLasts
<1>8. ASSUME NEW i \in Calls, AddNodeDependency(i) PROVE AnswersKnown' /\ LastsInv'
  <2>1. PICK r \in RequestType : r = request[i]
    BY <1>8, <1>t DEF AddNodeDependency, Unread
  <2>2. /\ r.op = "dep" /\ served[i] = "no" /\ Answered(i, 200)
        /\ AddDependency(r.node, r.arg) /\ {r.node, r.arg} \subseteq nodes
    BY <1>8, <2>1 DEF AddNodeDependency, Unread
  <2>3. QED BY <2>1, <2>2, <1>c, DepHolds, LoopLasts
<1>9. ASSUME NEW i \in Calls, RemoveNodeDependency(i) PROVE AnswersKnown' /\ LastsInv'
  <2>1. PICK r \in RequestType : r = request[i]
    BY <1>9, <1>t DEF RemoveNodeDependency, Unread
  <2>2. /\ r.op = "undep" /\ served[i] = "no" /\ Answered(i, 200)
        /\ RemoveDependency(r.node, r.arg)
    BY <1>9, <2>1 DEF RemoveNodeDependency, Unread
  <2>3. QED BY <2>1, <2>2, <1>c, UndepHolds, LoopLasts
<1>10. ASSUME NEW i \in Calls, RegisterCallback(i) PROVE AnswersKnown' /\ LastsInv'
  BY <1>10, RegisterLasts
<1>11. ASSUME NEW i \in Calls, FilterCallbacks(i) PROVE AnswersKnown' /\ LastsInv'
  BY <1>11, FilterLasts
<1>12. ASSUME NEW i \in Calls, StoreCallbacks(i) PROVE AnswersKnown' /\ LastsInv'
  <2>1. \A k \in held[i] : request[k].node = request[i].node /\ request[k].arg # request[i].arg
    BY DEF HeldFiltered
  <2>2. QED BY <1>12, <2>1, StoreLasts
<1>13. ASSUME NEW i \in Calls, NEW r \in Requests, Call(i, r) PROVE AnswersKnown' /\ LastsInv'
  BY <1>13, CallLasts
<1>14. ASSUME NEW i \in Calls, Return(i) \/ GiveUp(i) PROVE AnswersKnown' /\ LastsInv'
  BY <1>14, CallerLasts
<1>15. CASE UNCHANGED vars
  <2>1. UNCHANGED <<registry, callbacks, request, served, held, code, clean, result>>
    BY <1>15 DEF vars, callers
  <2>2. \A i \in Calls : result'[i] = "ok" => Succeeded(i)
    BY <2>1 DEF AnswersKnown
  <2>3. QED BY <2>1, <2>2, OutsideLasts
<1>16. QED
  BY <1>1, <1>2, <1>3, <1>4, <1>5, <1>6, <1>7, <1>8, <1>9, <1>10, <1>11, <1>12, <1>13, <1>14,
     <1>15 DEF Next, Handle

LEMMA LastsInit == Init => AnswersKnown /\ HeldFiltered /\ LastsInv
BY DEF Init, AnswersKnown, HeldFiltered, LastsInv, Lasting, Succeeded

\* A caller that was told of success can rely on it until somebody asks for the
\* opposite, in whatever order the handlers and the worker threads of
\* unregister_callback run, and however late (the handlers of
\* dag_manager/registry/api.py over InMemoryNodeService and NodeCallbackService).
THEOREM AcknowledgedLastsHolds == Spec => []AcknowledgedLasts
<1> DEFINE Inv == TypeInv /\ AnswersKnown /\ HeldFiltered /\ LastsInv
<1>1. Init => Inv
  BY TypeInit, LastsInit
<1>2. Inv /\ [Next]_vars => Inv'
  BY TypeStep, FilteredStep, LastsStep
<1>3. Inv => AcknowledgedLasts
  BY DEF AnswersKnown, LastsInv, Lasting, AcknowledgedLasts
<1>4. QED
  BY <1>1, <1>2, <1>3, PTL DEF Spec
=============================================================================
