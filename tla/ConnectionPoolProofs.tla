------------------------- MODULE ConnectionPoolProofs -------------------------
(***************************************************************************)
(* Proofs about ConnectionPool for any number of threads, any max_size and *)
(* any bounds.  Type correctness and the bound per initialisation hold for *)
(* any number of racing initialisations; the bound by max_size alone for   *)
(* the pool that on_startup built before the threads run (Started).  That  *)
(* nobody shares a client is proved for such a pool and for one that       *)
(* racing threads build, as long as nobody closes it.                      *)
(***************************************************************************)
EXTENDS ConnectionPool, FiniteSetTheorems, SequenceTheorems, TLAPS

\* _pool.pop() leaves the others where they are.
LEMMA Popped ==
    ASSUME idle \in Seq(Clients), idle # <<>>
    PROVE  /\ Len(idle) \in Nat \ {0}
           /\ idle[Len(idle)] \in Clients
           /\ SubSeq(idle, 1, Len(idle) - 1) \in Seq(Clients)
           /\ Len(SubSeq(idle, 1, Len(idle) - 1)) = Len(idle) - 1
           /\ \A i \in 1 .. Len(idle) - 1 : SubSeq(idle, 1, Len(idle) - 1)[i] = idle[i]
<1> DEFINE n == Len(idle) - 1
<1>1. Len(idle) \in Nat \ {0} /\ n \in Nat /\ \A i \in 1 .. Len(idle) : idle[i] \in Clients
  OBVIOUS
<1>2. \A i \in 1 .. n : idle[i] \in Clients
  BY <1>1
<1> HIDE DEF n
<1>3. /\ SubSeq(idle, 1, n) \in Seq(Clients)
      /\ Len(SubSeq(idle, 1, n)) = IF 1 <= n THEN n - 1 + 1 ELSE 0
      /\ \A i \in 1 .. n - 1 + 1 : SubSeq(idle, 1, n)[i] = idle[1 + i - 1]
  BY <1>1, <1>2, SubSeqProperties
<1>4. n - 1 + 1 = n /\ \A i \in 1 .. n : 1 + i - 1 = i
  BY <1>1
<1>5. QED BY <1>1, <1>3, <1>4 DEF n

LEMMA TypeInit == Init => TypeOK
BY PoolAssumption DEF PoolAssumption, Init, TypeOK, Steps

\* Each step keeps the types; a counter grows only under its bound.
LEMMA TypeStep == TypeOK /\ [Next]_vars => TypeOK'
<1> SUFFICES ASSUME TypeOK, [Next]_vars PROVE TypeOK'
  OBVIOUS
<1> USE PoolAssumption DEF PoolAssumption, TypeOK, Steps, Goto, singleton, counters
<1>1. ASSUME NEW t \in Threads, ReachPool(t) PROVE TypeOK'
  <2>1. CASE Start(t) BY <2>1 DEF Start, FirstCall
  <2>2. CASE ResetPool(t) BY <2>2 DEF ResetPool
  <2>3. CASE ResetSemaphore(t)
    <3>1. inits + 1 \in 1 .. MaxInits /\ MaxSize \in Nat
      BY <2>3 DEF ResetSemaphore
    <3>2. permits' \in [1 .. MaxInits -> Nat] /\ ref' \in [Threads -> 0 .. MaxInits]
      BY <2>3, <3>1 DEF ResetSemaphore
    <3>3. QED BY <2>3, <3>1, <3>2 DEF ResetSemaphore
  <2>4. CASE ResetLock(t) BY <2>4 DEF ResetLock, FirstCall
  <2>5. CASE Publish(t) BY <2>5 DEF Publish, FirstCall
  <2>6. QED BY <1>1, <2>1, <2>2, <2>3, <2>4, <2>5 DEF ReachPool
<1>2. ASSUME NEW t \in Threads, GetClient(t) PROVE TypeOK'
  <2>1. CASE Ask(t) BY <2>1 DEF Ask
  <2>2. CASE Acquire(t)
    <3>1. permits' \in [1 .. MaxInits -> Nat]
      <4>1. CASE ref[t] \in 1 .. MaxInits BY <2>2, <4>1 DEF Acquire
      <4>2. CASE ref[t] \notin 1 .. MaxInits BY <2>2, <4>2 DEF Acquire
      <4>3. QED BY <4>1, <4>2
    <3>2. QED BY <2>2, <3>1 DEF Acquire
  <2>3. CASE Enter(t) BY <2>3 DEF Enter
  <2>4. CASE Pop(t)
    <3>1. SubSeq(idle, 1, Len(idle) - 1) \in Seq(Clients) /\ idle[Len(idle)] \in Clients
      BY <2>4, Popped DEF Pop
    <3>2. QED BY <2>4, <3>1 DEF Pop, Unlock
  <2>5. CASE PopEmpty(t) BY <2>5 DEF PopEmpty, Unlock
  <2>6. CASE Create(t) BY <2>6 DEF Create, Unlock
  <2>7. CASE CreateFails(t)
    <3>1. permits' \in [1 .. MaxInits -> Nat]
      <4>1. CASE sem \in 1 .. MaxInits BY <2>7, <4>1 DEF CreateFails
      <4>2. CASE sem \notin 1 .. MaxInits BY <2>7, <4>2 DEF CreateFails
      <4>3. QED BY <4>1, <4>2
    <3>2. errors' \in 0 .. MaxErrors /\ closeErrors' \in 0 .. errors'
      BY <2>7 DEF CreateFails
    <3>3. QED BY <2>7, <3>1, <3>2 DEF CreateFails, Unlock
  <2>8. QED BY <1>2, <2>1, <2>2, <2>3, <2>4, <2>5, <2>6, <2>7 DEF GetClient
<1>3. ASSUME NEW t \in Threads, EndUse(t) PROVE TypeOK'
  <2>1. CASE EndRequest(t) BY <2>1 DEF EndRequest
  <2>2. CASE EndScope(t) BY <2>2 DEF EndScope
  <2>3. CASE Give(t)
    <3>1. held[t] \in Clients
      BY <2>3 DEF Give
    <3>2. idle' \in Seq(Clients)
      BY <2>3, <3>1, AppendProperties DEF Give
    <3>3. held' \in [Threads -> Clients \cup {NoClient}]
      BY <2>3 DEF Give
    <3>4. \A u \in Threads : held'[u] # NoClient <=> pc'[u] \in {"use", "give"}
      BY <2>3 DEF Give
    <3>5. pc' \in [Threads -> Steps]
      BY <2>3 DEF Give
    <3>6. QED BY <2>3, <3>2, <3>3, <3>4, <3>5 DEF Give
  <2>4. CASE Post(t)
    <3>1. permits' \in [1 .. MaxInits -> Nat]
      <4>1. CASE sem \in 1 .. MaxInits BY <2>4, <4>1 DEF Post
      <4>2. CASE sem \notin 1 .. MaxInits BY <2>4, <4>2 DEF Post
      <4>3. QED BY <4>1, <4>2
    <3>2. QED BY <2>4, <3>1 DEF Post
  <2>5. QED BY <1>3, <2>1, <2>2, <2>3, <2>4 DEF EndUse
<1>4. ASSUME NEW t \in Threads, CloseAll(t) PROVE TypeOK'
  <2>1. CASE EnterClose(t) BY <2>1 DEF EnterClose
  <2>2. CASE CloseOne(t) BY <2>2 DEF CloseOne, Listed
  <2>3. CASE CloseFails(t) BY <2>3 DEF CloseFails, Unlock
  <2>4. CASE Clear(t) BY <2>4 DEF Clear, Unlock
  <2>5. QED BY <1>4, <2>1, <2>2, <2>3, <2>4 DEF CloseAll
<1>5. CASE UNCHANGED vars BY <1>5 DEF vars
<1>6. QED BY <1>1, <1>2, <1>3, <1>4, <1>5 DEF Next

\* The pool's variables keep their types in every reachable state, whatever
\* the callers of __init__, get_client, release_client and close_all do.
THEOREM TypeCorrect == Spec => []TypeOK
BY TypeInit, TypeStep, PTL DEF Spec
-----------------------------------------------------------------------------
(* Counting.  However often the pool is initialised, and whoever races to  *)
(* do so, a run of __init__ brings max_size permits into being and nothing *)
(* else does: permits move between the semaphores and the threads.         *)

\* Steps at which a thread has a client, or is about to build one.
WithClient == {"create", "use", "give"}
Owners == {t \in Threads : pc[t] \in WithClient}

LEMMA Finite ==
    /\ IsFiniteSet(Holders) /\ Cardinality(Holders) \in Nat
    /\ IsFiniteSet(Owners) /\ Cardinality(Owners) \in Nat
<1>1. Holders \subseteq Threads /\ Owners \subseteq Threads
  BY DEF Holders, Owners
<1>2. QED BY <1>1, FS_Subset, FS_CardinalityType, PoolAssumption DEF PoolAssumption

\* A step of t changes these counts by what t itself does.
LEMMA HoldersStep ==
    ASSUME TypeOK, NEW t \in Threads, NEW step, pc' = [pc EXCEPT ![t] = step]
    PROVE  /\ (pc[t] \in WithPermit <=> step \in WithPermit) => Holders' = Holders
           /\ pc[t] \notin WithPermit /\ step \in WithPermit =>
                Cardinality(Holders') = Cardinality(Holders) + 1
           /\ pc[t] \in WithPermit /\ step \notin WithPermit =>
                Cardinality(Holders') = Cardinality(Holders) - 1
<1>1. pc'[t] = step /\ \A u \in Threads : u # t => pc'[u] = pc[u]
  BY DEF TypeOK
<1>2. ASSUME pc[t] \in WithPermit <=> step \in WithPermit PROVE Holders' = Holders
  BY <1>1, <1>2 DEF Holders
<1>3. ASSUME pc[t] \notin WithPermit, step \in WithPermit
      PROVE  Cardinality(Holders') = Cardinality(Holders) + 1
  <2>1. Holders' = Holders \cup {t} /\ t \notin Holders
    BY <1>1, <1>3 DEF Holders
  <2>2. QED BY <2>1, Finite, FS_AddElement
<1>4. ASSUME pc[t] \in WithPermit, step \notin WithPermit
      PROVE  Cardinality(Holders') = Cardinality(Holders) - 1
  <2>1. Holders' = Holders \ {t} /\ t \in Holders
    BY <1>1, <1>4 DEF Holders
  <2>2. QED BY <2>1, Finite, FS_RemoveElement
<1>5. QED BY <1>2, <1>3, <1>4

LEMMA OwnersStep ==
    ASSUME TypeOK, NEW t \in Threads, NEW step, pc' = [pc EXCEPT ![t] = step]
    PROVE  /\ (pc[t] \in WithClient <=> step \in WithClient) => Owners' = Owners
           /\ pc[t] \notin WithClient /\ step \in WithClient =>
                Cardinality(Owners') = Cardinality(Owners) + 1
           /\ pc[t] \in WithClient /\ step \notin WithClient =>
                Cardinality(Owners') = Cardinality(Owners) - 1
<1>1. pc'[t] = step /\ \A u \in Threads : u # t => pc'[u] = pc[u]
  BY DEF TypeOK
<1>2. ASSUME pc[t] \in WithClient <=> step \in WithClient PROVE Owners' = Owners
  BY <1>1, <1>2 DEF Owners
<1>3. ASSUME pc[t] \notin WithClient, step \in WithClient
      PROVE  Cardinality(Owners') = Cardinality(Owners) + 1
  <2>1. Owners' = Owners \cup {t} /\ t \notin Owners
    BY <1>1, <1>3 DEF Owners
  <2>2. QED BY <2>1, Finite, FS_AddElement
<1>4. ASSUME pc[t] \in WithClient, step \notin WithClient
      PROVE  Cardinality(Owners') = Cardinality(Owners) - 1
  <2>1. Owners' = Owners \ {t} /\ t \in Owners
    BY <1>1, <1>4 DEF Owners
  <2>2. QED BY <2>1, Finite, FS_RemoveElement
<1>5. QED BY <1>2, <1>3, <1>4

\* The permits that are in the semaphores, present and former ones.
Free == {p \in (1 .. MaxInits) \X Nat : p[2] \in 1 .. permits[p[1]]}

LEMMA FreeLess ==
    ASSUME TypeOK, IsFiniteSet(Free), NEW k \in 1 .. MaxInits, permits[k] > 0,
           permits' = [permits EXCEPT ![k] = @ - 1]
    PROVE  IsFiniteSet(Free') /\ Cardinality(Free') = Cardinality(Free) - 1
<1>1. /\ permits \in [1 .. MaxInits -> Nat] /\ permits[k] \in Nat
      /\ permits'[k] = permits[k] - 1
      /\ \A l \in 1 .. MaxInits : l # k => permits'[l] = permits[l]
  BY DEF TypeOK
<1>2. Free' = Free \ {<<k, permits[k]>>}
  BY <1>1 DEF Free
<1>3. <<k, permits[k]>> \in Free
  BY <1>1 DEF Free
<1>4. QED BY <1>2, <1>3, FS_RemoveElement

LEMMA FreeMore ==
    ASSUME TypeOK, IsFiniteSet(Free), NEW k \in 1 .. MaxInits, NEW n \in Nat,
           permits' = [permits EXCEPT ![k] = @ + n]
    PROVE  IsFiniteSet(Free') /\ Cardinality(Free') = Cardinality(Free) + n
<1> DEFINE I == permits[k] + 1 .. permits[k] + n
           New == {k} \X I
<1>1. /\ permits \in [1 .. MaxInits -> Nat] /\ permits[k] \in Nat
      /\ permits'[k] = permits[k] + n
      /\ \A l \in 1 .. MaxInits : l # k => permits'[l] = permits[l]
  BY DEF TypeOK
<1>2. Free' = Free \cup New
  BY <1>1 DEF Free
<1>3. Free \cap New = {}
  BY <1>1 DEF Free
<1>4. IsFiniteSet(I) /\ Cardinality(I) = n
  <2>1. \A a, b \in Int : IsFiniteSet(a .. b) /\ Cardinality(a .. b) = IF a > b THEN 0 ELSE b - a + 1
    BY FS_Interval
  <2>2. PICK a, b \in Int : a = permits[k] + 1 /\ b = permits[k] + n
    BY <1>1
  <2>3. I = a .. b /\ n = IF a > b THEN 0 ELSE b - a + 1
    BY <1>1, <2>2
  <2>4. QED BY <2>1, <2>3
<1>5. IsFiniteSet(New) /\ Cardinality(New) = n
  <2> HIDE DEF I
  <2>1. IsFiniteSet({k}) /\ Cardinality({k}) = 1
    BY FS_Singleton
  <2>2. IsFiniteSet(New) /\ Cardinality(New) = Cardinality({k}) * Cardinality(I)
    BY <1>4, <2>1, FS_Product
  <2>3. QED BY <1>4, <2>1, <2>2
<1> HIDE DEF New
<1>6. /\ IsFiniteSet(Free') /\ Cardinality(Free \cap New) = 0
      /\ Cardinality(Free') = Cardinality(Free) + n - Cardinality(Free \cap New)
  BY <1>2, <1>3, <1>5, FS_Union, FS_EmptySet
<1>7. Cardinality(Free) \in Nat
  BY FS_CardinalityType
<1>8. QED BY <1>6, <1>7

PermitSupply ==
    /\ sem <= inits
    /\ \A k \in 1 .. MaxInits : k > inits => permits[k] = 0
    /\ \A t \in Threads : pc[t] = "acquire" => ref[t] \in 1 .. inits
    /\ IsFiniteSet(Free)
    /\ Cardinality(Free) + Cardinality(Holders) + leaked <= MaxSize * inits

\* A client is built after the list was seen empty, by the holder of a permit; the
\* list may have grown by then, but only by clients that were counted in use.
ClientSupply == Len(idle) + Cardinality(Owners) <= MaxSize * inits

\* The numbers these two speak of.
LEMMA Numbers ==
    ASSUME TypeOK, PermitSupply
    PROVE  /\ MaxSize \in Nat /\ inits \in Nat /\ MaxSize * inits \in Nat /\ leaked \in Nat
           /\ Cardinality(Free) \in Nat /\ Len(idle) \in Nat
           /\ Cardinality(Holders) \in Nat /\ Cardinality(Owners) \in Nat
           /\ Cardinality(Owners) <= Cardinality(Holders)
<1>1. MaxSize \in Nat /\ inits \in Nat /\ MaxSize * inits \in Nat /\ leaked \in Nat /\ Len(idle) \in Nat
  BY PoolAssumption DEF PoolAssumption, TypeOK
<1>2. Owners \subseteq Holders
  BY DEF Holders, Owners, WithClient, WithPermit
<1>3. QED BY <1>1, <1>2, Finite, FS_Subset, FS_CardinalityType DEF PermitSupply

LEMMA SupplyInit == Init => PermitSupply /\ ClientSupply
<1> SUFFICES ASSUME Init PROVE PermitSupply /\ ClientSupply
  OBVIOUS
<1>1. MaxSize \in Nat /\ MaxInits \in Nat \ {0} /\ 1 \in 1 .. MaxInits
  BY PoolAssumption DEF PoolAssumption
<1>2. Holders = {} /\ Owners = {} /\ Cardinality({}) = 0 /\ Len(idle) = 0
  BY FS_EmptySet DEF Init, Holders, Owners, WithPermit, WithClient
<1>3. CASE Started
  <2>1. /\ Free = {1} \X (1 .. MaxSize) /\ sem = 1 /\ inits = 1 /\ leaked = 0
        /\ \A k \in 1 .. MaxInits : k > inits => permits[k] = 0
    BY <1>1, <1>3 DEF Init, Free
  <2>2. IsFiniteSet({1}) /\ Cardinality({1}) = 1 /\ IsFiniteSet(1 .. MaxSize) /\ Cardinality(1 .. MaxSize) = MaxSize
    <3>1. IsFiniteSet({1}) /\ Cardinality({1}) = 1
      BY FS_Singleton
    <3>2. 1 \in Int /\ MaxSize \in Int /\ MaxSize >= 1
      BY PoolAssumption DEF PoolAssumption
    <3>3. IsFiniteSet(1 .. MaxSize) /\ Cardinality(1 .. MaxSize) = MaxSize
      BY <3>2, FS_Interval
    <3>4. QED BY <3>1, <3>3
  <2>3. IsFiniteSet({1} \X (1 .. MaxSize)) /\ Cardinality({1} \X (1 .. MaxSize)) = 1 * MaxSize
    BY <2>2, FS_Product
  <2>4. Cardinality(Free) = MaxSize /\ MaxSize * inits = MaxSize
    BY <1>1, <2>1, <2>3
  <2>5. \A t \in Threads : pc[t] # "acquire"
    BY DEF Init
  <2>6. QED BY <1>1, <1>2, <2>1, <2>3, <2>4, <2>5 DEF PermitSupply, ClientSupply
<1>4. CASE ~Started
  <2>1. /\ Free = {} /\ sem = 0 /\ inits = 0 /\ leaked = 0
        /\ \A k \in 1 .. MaxInits : permits[k] = 0
    BY <1>1, <1>4, PoolAssumption DEF Init, Free, PoolAssumption
  <2>2. MaxSize * inits = 0 /\ IsFiniteSet(Free) /\ Cardinality(Free) = 0
    BY <1>1, <2>1, FS_EmptySet
  <2>3. \A t \in Threads : pc[t] # "acquire"
    BY DEF Init
  <2>4. QED BY <1>1, <1>2, <2>1, <2>2, <2>3 DEF PermitSupply, ClientSupply
<1>5. QED BY <1>3, <1>4

\* Every step that takes or gives a permit moves it between a semaphore, a thread
\* and the requests that took theirs along, or loses it; __init__ makes new ones.
LEMMA PermitSupplyStep == TypeOK /\ PermitSupply /\ [Next]_vars => PermitSupply'
<1> SUFFICES ASSUME TypeOK, PermitSupply, [Next]_vars PROVE PermitSupply'
  OBVIOUS
<1>0. /\ MaxSize \in Nat /\ inits \in Nat /\ MaxSize * inits \in Nat /\ leaked \in Nat
      /\ IsFiniteSet(Free) /\ Cardinality(Free) \in Nat /\ Cardinality(Holders) \in Nat
      /\ Cardinality(Free) + Cardinality(Holders) + leaked <= MaxSize * inits
      /\ MaxInits \in Nat /\ inits <= MaxInits /\ sem \in 0 .. inits
      /\ permits \in [1 .. MaxInits -> Nat]
      /\ \A k \in 1 .. MaxInits : k > inits => permits[k] = 0
      /\ \A t \in Threads : pc[t] = "acquire" => ref[t] \in 1 .. inits
  BY Numbers, PoolAssumption DEF PoolAssumption, TypeOK, PermitSupply
<1>1. ASSUME NEW t \in Threads, NEW step, Goto(t, step),
             UNCHANGED <<permits, leaked, sem, inits>>, step # "acquire",
             step \in WithPermit => pc[t] \in WithPermit,
             \A u \in Threads \ {t} : ref'[u] = ref[u]
      PROVE  PermitSupply'
  <2>1. Cardinality(Holders') <= Cardinality(Holders)
        /\ Cardinality(Holders') \in Nat
    <3>1. pc' = [pc EXCEPT ![t] = step]
      BY <1>1 DEF Goto
    <3>2. CASE pc[t] \in WithPermit <=> step \in WithPermit
      <4>1. Holders' = Holders
        BY <3>1, <3>2, HoldersStep
      <4>2. QED BY <1>0, <4>1
    <3>3. CASE pc[t] \in WithPermit /\ step \notin WithPermit
      <4>1. Cardinality(Holders') = Cardinality(Holders) - 1
        BY <3>1, <3>3, HoldersStep
      <4>2. Holders' \subseteq Holders
        BY <3>1, <3>3 DEF Holders, TypeOK
      <4>3. QED BY <1>0, <4>1, <4>2, Finite, FS_Subset, FS_CardinalityType
    <3>4. QED BY <1>1, <3>2, <3>3
  <2>2. Free' = Free
    BY <1>1 DEF Free
  <2>3. \A u \in Threads : pc'[u] = "acquire" => u # t /\ pc[u] = "acquire"
    BY <1>1 DEF Goto, TypeOK
  <2>4. QED BY <1>0, <1>1, <2>1, <2>2, <2>3 DEF PermitSupply
<1> USE DEF singleton, counters
<1>2. ASSUME NEW t \in Threads, ReachPool(t) PROVE PermitSupply'
  <2>1. CASE Start(t)
    <3>1. PICK step \in {"ask", "close", "reset"} : Goto(t, step)
      BY <2>1 DEF Start, FirstCall
    <3>2. QED BY <1>1, <2>1, <3>1 DEF Start, WithPermit
  <2>2. CASE ResetPool(t) BY <1>1, <2>2 DEF ResetPool, WithPermit
  <2>3. CASE ResetSemaphore(t)
    <3>1. /\ inits' = inits + 1 /\ sem' = inits + 1 /\ inits + 1 \in 1 .. MaxInits
          /\ leaked' = leaked /\ Goto(t, "lock") /\ \A u \in Threads \ {t} : ref'[u] = ref[u]
      BY <1>0, <2>3 DEF ResetSemaphore, TypeOK
    <3>2. permits[inits + 1] = 0
      BY <1>0, <3>1
    <3>3. permits' = [permits EXCEPT ![inits + 1] = @ + MaxSize]
      BY <1>0, <2>3, <3>1, <3>2 DEF ResetSemaphore
    <3>4. IsFiniteSet(Free') /\ Cardinality(Free') = Cardinality(Free) + MaxSize
      BY <1>0, <3>1, <3>3, FreeMore
    <3>5. Cardinality(Holders') = Cardinality(Holders)
      <4>1. pc' = [pc EXCEPT ![t] = "lock"] /\ pc[t] \notin WithPermit /\ "lock" \notin WithPermit
        BY <2>3, <3>1 DEF Goto, WithPermit, ResetSemaphore
      <4>2. QED BY <4>1, HoldersStep
    <3>6. MaxSize * inits' = MaxSize * inits + MaxSize
      BY <1>0, <3>1
    <3>7. \A k \in 1 .. MaxInits : k > inits' => permits'[k] = 0
      BY <1>0, <3>1, <3>3
    <3>8. \A u \in Threads : pc'[u] = "acquire" => ref'[u] \in 1 .. inits'
      BY <1>0, <3>1 DEF Goto, TypeOK
    <3>9. QED BY <1>0, <3>1, <3>4, <3>5, <3>6, <3>7, <3>8 DEF PermitSupply
  <2>4. CASE ResetLock(t)
    <3>1. PICK step \in {"ask", "close", "publish"} : Goto(t, step)
      BY <2>4 DEF ResetLock, FirstCall
    <3>2. QED BY <1>1, <2>4, <3>1 DEF ResetLock, WithPermit
  <2>5. CASE Publish(t)
    <3>1. PICK step \in {"ask", "close"} : Goto(t, step)
      BY <2>5 DEF Publish, FirstCall
    <3>2. QED BY <1>1, <2>5, <3>1 DEF Publish, WithPermit
  <2>6. QED BY <1>2, <2>1, <2>2, <2>3, <2>4, <2>5 DEF ReachPool
<1>3. ASSUME NEW t \in Threads, Ask(t) PROVE PermitSupply'
  <2>1. CASE sem = 0 BY <1>1, <1>3, <2>1 DEF Ask, WithPermit, TypeOK
  <2>2. CASE sem # 0
    <3>1. /\ Goto(t, "acquire") /\ ref' = [ref EXCEPT ![t] = sem] /\ sem \in 1 .. inits
          /\ UNCHANGED <<permits, leaked, sem, inits>>
      BY <1>0, <1>3, <2>2 DEF Ask
    <3>2. Cardinality(Holders') = Cardinality(Holders) /\ Free' = Free
      BY <1>0, <1>3, <3>1, HoldersStep DEF Goto, WithPermit, Ask, Free
    <3>3. \A u \in Threads : pc'[u] = "acquire" => ref'[u] \in 1 .. inits
      BY <1>0, <3>1 DEF Goto, TypeOK
    <3>4. QED BY <1>0, <3>1, <3>2, <3>3 DEF PermitSupply
  <2>3. QED BY <2>1, <2>2
<1>4. ASSUME NEW t \in Threads, Acquire(t) PROVE PermitSupply'
  <2>1. /\ ref[t] \in 1 .. MaxInits /\ permits[ref[t]] > 0
        /\ permits' = [permits EXCEPT ![ref[t]] = @ - 1]
        /\ Goto(t, "enter") /\ UNCHANGED <<leaked, sem, inits, ref>>
    BY <1>0, <1>4 DEF Acquire
  <2>2. IsFiniteSet(Free') /\ Cardinality(Free') = Cardinality(Free) - 1
    BY <1>0, <2>1, FreeLess
  <2>3. Cardinality(Holders') = Cardinality(Holders) + 1
    BY <1>0, <1>4, <2>1, HoldersStep DEF Goto, WithPermit, Acquire
  <2>4. /\ \A k \in 1 .. MaxInits : k > inits => permits'[k] = 0
        /\ \A u \in Threads : pc'[u] = "acquire" => ref'[u] \in 1 .. inits
    BY <1>0, <1>4, <2>1 DEF Goto, TypeOK
  <2>5. QED BY <1>0, <2>1, <2>2, <2>3, <2>4 DEF PermitSupply
<1>5. ASSUME NEW t \in Threads, CreateFails(t) \/ Post(t) PROVE PermitSupply'
  <2>1. /\ pc[t] \in WithPermit /\ permits' = [permits EXCEPT ![sem] = @ + 1]
        /\ Goto(t, "start") /\ UNCHANGED <<leaked, sem, inits, ref>>
    BY <1>5 DEF CreateFails, Post, WithPermit
  <2>2. Cardinality(Holders') = Cardinality(Holders) - 1
    <3>1. pc' = [pc EXCEPT ![t] = "start"] /\ "start" \notin WithPermit
      BY <2>1 DEF Goto, WithPermit
    <3>2. QED BY <2>1, <3>1, HoldersStep
  <2>3. IsFiniteSet(Free') /\ Cardinality(Free') <= Cardinality(Free) + 1 /\ Cardinality(Free') \in Nat
    <3>1. CASE sem = 0
      <4>1. permits' = permits
        BY <1>0, <2>1, <3>1
      <4>2. QED BY <1>0, <4>1 DEF Free
    <3>2. CASE sem # 0
      <4>1. IsFiniteSet(Free') /\ Cardinality(Free') = Cardinality(Free) + 1
        <5>1. sem \in 1 .. MaxInits /\ 1 \in Nat
          BY <1>0, <3>2
        <5>2. QED BY <1>0, <2>1, <5>1, FreeMore
      <4>2. QED BY <1>0, <4>1
    <3>3. QED BY <3>1, <3>2
  <2>4. /\ \A k \in 1 .. MaxInits : k > inits => permits'[k] = 0
        /\ \A u \in Threads : pc'[u] = "acquire" => ref'[u] \in 1 .. inits
    BY <1>0, <2>1 DEF Goto, TypeOK
  <2>5. QED BY <1>0, <2>1, <2>2, <2>3, <2>4 DEF PermitSupply
<1>6. ASSUME NEW t \in Threads, Enter(t) PROVE PermitSupply'
  <2>1. PICK step \in {"create", "pop"} : Goto(t, step)
    BY <1>6 DEF Enter
  <2>2. QED BY <1>1, <1>6, <2>1 DEF Enter, WithPermit, TypeOK
<1>7. ASSUME NEW t \in Threads, EndRequest(t) PROVE PermitSupply'
  <2>1. /\ Goto(t, "start") /\ leaked' = leaked + 1 /\ UNCHANGED <<permits, sem, inits, ref>>
        /\ pc[t] \in WithPermit
    BY <1>7 DEF EndRequest, WithPermit
  <2>2. Cardinality(Holders') = Cardinality(Holders) - 1
    <3>1. pc' = [pc EXCEPT ![t] = "start"] /\ "start" \notin WithPermit
      BY <2>1 DEF Goto, WithPermit
    <3>2. QED BY <2>1, <3>1, HoldersStep
  <2>3. Free' = Free
    BY <2>1 DEF Free
  <2>4. \A u \in Threads : pc'[u] = "acquire" => ref'[u] \in 1 .. inits
    BY <1>0, <2>1 DEF Goto, TypeOK
  <2>5. QED BY <1>0, <2>1, <2>2, <2>3, <2>4 DEF PermitSupply
<1>8. CASE UNCHANGED <<permits, leaked, sem, inits, pc, ref>>
  BY <1>0, <1>8 DEF PermitSupply, Free, Holders
<1>9. ASSUME NEW t \in Threads, Pop(t) \/ PopEmpty(t) \/ Create(t) \/ EndScope(t) \/ Give(t)
      PROVE  PermitSupply'
  BY <1>1, <1>9 DEF Pop, PopEmpty, Create, EndScope, Give, WithPermit
<1>10. ASSUME NEW t \in Threads, EnterClose(t) \/ CloseFails(t) \/ Clear(t)
       PROVE  PermitSupply'
  BY <1>1, <1>10 DEF EnterClose, CloseFails, Clear, WithPermit, TypeOK
<1>11. ASSUME NEW t \in Threads, CloseOne(t) PROVE PermitSupply'
  BY <1>8, <1>11 DEF CloseOne
<1>12. QED
  BY <1>2, <1>3, <1>4, <1>5, <1>6, <1>7, <1>8, <1>9, <1>10, <1>11
     DEF Next, vars, GetClient, EndUse, CloseAll

\* A thread that has seen the list empty holds a permit and no client yet, so one
\* more client is within the supply; after that, clients only change hands.
LEMMA ClientSupplyStep ==
    TypeOK /\ PermitSupply /\ ClientSupply /\ [Next]_vars => ClientSupply'
<1> SUFFICES ASSUME TypeOK, PermitSupply, ClientSupply, [Next]_vars PROVE ClientSupply'
  OBVIOUS
<1>0. /\ MaxSize \in Nat /\ inits \in Nat /\ MaxSize * inits \in Nat
      /\ idle \in Seq(Clients) /\ Len(idle) \in Nat /\ Cardinality(Owners) \in Nat
      /\ Len(idle) + Cardinality(Owners) <= MaxSize * inits
  BY Numbers DEF TypeOK, ClientSupply
<1>1. ASSUME NEW t \in Threads, NEW step, Goto(t, step), inits' = inits,
             Len(idle') \in Nat,
             Len(idle') + (IF step \in WithClient THEN 1 ELSE 0)
                 <= Len(idle) + (IF pc[t] \in WithClient THEN 1 ELSE 0)
      PROVE  ClientSupply'
  <2>1. Cardinality(Owners') = Cardinality(Owners)
            + (IF step \in WithClient THEN 1 ELSE 0) - (IF pc[t] \in WithClient THEN 1 ELSE 0)
    <3>1. pc' = [pc EXCEPT ![t] = step]
      BY <1>1 DEF Goto
    <3>2. CASE pc[t] \in WithClient <=> step \in WithClient
      <4>1. Owners' = Owners
        BY <3>1, <3>2, OwnersStep
      <4>2. QED BY <1>0, <3>2, <4>1
    <3>3. CASE pc[t] \in WithClient /\ step \notin WithClient
      <4>1. Cardinality(Owners') = Cardinality(Owners) - 1
        BY <3>1, <3>3, OwnersStep
      <4>2. QED BY <1>0, <3>3, <4>1
    <3>4. CASE pc[t] \notin WithClient /\ step \in WithClient
      <4>1. Cardinality(Owners') = Cardinality(Owners) + 1
        BY <3>1, <3>4, OwnersStep
      <4>2. QED BY <1>0, <3>4, <4>1
    <3>5. QED BY <3>2, <3>3, <3>4
  <2>2. QED BY <1>0, <1>1, <2>1 DEF ClientSupply
<1>2. ASSUME NEW t \in Threads, NEW step, Goto(t, step), inits' = inits,
             idle' = idle \/ idle' = <<>>, step \in WithClient => pc[t] \in WithClient
      PROVE  ClientSupply'
  <2>1. Len(idle') \in Nat /\ Len(idle') <= Len(idle)
    BY <1>0, <1>2
  <2>2. QED BY <1>0, <1>1, <1>2, <2>1
<1> USE DEF singleton, counters
<1>3. ASSUME NEW t \in Threads, Start(t) \/ ResetPool(t) \/ ResetLock(t) \/ Publish(t)
      PROVE  ClientSupply'
  <2>1. PICK step \in {"ask", "close", "reset", "semaphore", "publish"} : Goto(t, step)
    BY <1>3 DEF Start, ResetPool, ResetLock, Publish, FirstCall
  <2>2. QED BY <1>2, <1>3, <2>1 DEF Start, ResetPool, ResetLock, Publish, WithClient
<1>4. ASSUME NEW t \in Threads, ResetSemaphore(t) PROVE ClientSupply'
  <2>1. /\ Goto(t, "lock") /\ inits' = inits + 1 /\ idle' = idle /\ pc[t] \notin WithClient
        /\ MaxSize * (inits + 1) = MaxSize * inits + MaxSize
    BY <1>0, <1>4 DEF ResetSemaphore, WithClient
  <2>2. Cardinality(Owners') = Cardinality(Owners)
    <3>1. pc' = [pc EXCEPT ![t] = "lock"] /\ "lock" \notin WithClient
      BY <2>1 DEF Goto, WithClient
    <3>2. QED BY <1>0, <2>1, <3>1, OwnersStep
  <2>3. QED BY <1>0, <2>1, <2>2 DEF ClientSupply
<1>5. ASSUME NEW t \in Threads, Ask(t) \/ Acquire(t) \/ PopEmpty(t) \/ CreateFails(t) \/ EndRequest(t) \/ Post(t)
      PROVE  ClientSupply'
  <2>1. PICK step \in {"start", "acquire", "enter"} : Goto(t, step)
    BY <1>5 DEF Ask, Acquire, PopEmpty, CreateFails, EndRequest, Post
  <2>2. QED BY <1>2, <1>5, <2>1 DEF Ask, Acquire, PopEmpty, CreateFails, EndRequest, Post, WithClient
<1>6. ASSUME NEW t \in Threads, Enter(t) PROVE ClientSupply'
  <2>1. CASE idle = <<>>
    <3>1. Owners \subseteq Holders \ {t} /\ t \in Holders
      BY <1>6 DEF Enter, Holders, Owners, WithClient, WithPermit
    <3>2. Cardinality(Owners) <= Cardinality(Holders) - 1
      <4>1. IsFiniteSet(Holders \ {t})
            /\ Cardinality(Holders \ {t}) = Cardinality(Holders) - 1
        BY <3>1, Finite, FS_RemoveElement
      <4>2. Cardinality(Owners) <= Cardinality(Holders \ {t})
        BY <3>1, <4>1, FS_Subset
      <4>3. QED BY <4>1, <4>2
    <3>3. Cardinality(Owners') = Cardinality(Owners) + 1
      <4>1. /\ pc' = [pc EXCEPT ![t] = "create"]
            /\ pc[t] \notin WithClient /\ "create" \in WithClient
        BY <1>6, <2>1 DEF Enter, Goto, WithClient
      <4>2. QED BY <1>0, <4>1, OwnersStep
    <3>4. Len(idle') = 0 /\ inits' = inits
      BY <1>6, <2>1 DEF Enter
    <3>5. Cardinality(Holders) <= MaxSize * inits
      BY <1>0, Numbers DEF PermitSupply
    <3>6. Cardinality(Holders) \in Nat
      BY Finite
    <3>7. QED BY <1>0, <3>2, <3>3, <3>4, <3>5, <3>6 DEF ClientSupply
  <2>2. CASE idle # <<>>
    BY <1>2, <1>6, <2>2 DEF Enter, WithClient
  <2>3. QED BY <2>1, <2>2
<1>7. ASSUME NEW t \in Threads, Pop(t) PROVE ClientSupply'
  <2>1. Len(idle') = Len(idle) - 1 /\ Len(idle') \in Nat
    BY <1>0, <1>7, Popped DEF Pop
  <2>2. Goto(t, "use") /\ inits' = inits /\ pc[t] \notin WithClient /\ "use" \in WithClient
    BY <1>7 DEF Pop, WithClient
  <2>3. QED BY <1>0, <1>1, <2>1, <2>2
<1>8. ASSUME NEW t \in Threads, Create(t) \/ EndScope(t) PROVE ClientSupply'
  BY <1>2, <1>8 DEF Create, EndScope, WithClient
<1>9. ASSUME NEW t \in Threads, Give(t) PROVE ClientSupply'
  <2>1. Len(idle') = Len(idle) + 1 /\ Len(idle') \in Nat
    BY <1>0, <1>9 DEF Give, TypeOK
  <2>2. Goto(t, "post") /\ inits' = inits /\ pc[t] \in WithClient /\ "post" \notin WithClient
    BY <1>9 DEF Give, WithClient
  <2>3. QED BY <1>0, <1>1, <2>1, <2>2
<1>10. ASSUME NEW t \in Threads, EnterClose(t) \/ CloseFails(t) \/ Clear(t) PROVE ClientSupply'
  BY <1>2, <1>10 DEF EnterClose, CloseFails, Clear, WithClient
<1>11. CASE UNCHANGED <<idle, pc, inits>>
  BY <1>0, <1>11 DEF ClientSupply, Owners
<1>12. ASSUME NEW t \in Threads, CloseOne(t) PROVE ClientSupply'
  BY <1>11, <1>12 DEF CloseOne
<1>13. QED
  BY <1>3, <1>4, <1>5, <1>6, <1>7, <1>8, <1>9, <1>10, <1>11, <1>12
     DEF Next, vars, ReachPool, GetClient, EndUse, CloseAll

\* The threads with a client in hand are among those counted.
LEMMA UsersCounted ==
    TypeOK /\ PermitSupply /\ ClientSupply => ClientsPerInit
<1> SUFFICES ASSUME TypeOK, PermitSupply, ClientSupply PROVE ClientsPerInit
  OBVIOUS
<1>1. Users \subseteq Owners
  BY DEF TypeOK, Users, Owners, WithClient
<1>2. Cardinality(Users) \in Nat /\ Cardinality(Users) <= Cardinality(Owners)
  BY <1>1, Finite, FS_Subset, FS_CardinalityType
<1>3. QED BY <1>2, Numbers DEF ClientSupply, ClientsPerInit

LEMMA SupplyHolds == Spec => [](TypeOK /\ PermitSupply /\ ClientSupply)
BY TypeInit, TypeStep, SupplyInit, PermitSupplyStep, ClientSupplyStep, PTL DEF Spec

\* Whoever races to build the pool and whatever raises: each run of __init__ adds
\* at most max_size clients to those that are in use or in the list, and nothing
\* else adds any, although a client of one list is given back to another and a
\* permit of one semaphore to the next.
THEOREM ClientsPerInitHolds == Spec => []ClientsPerInit
BY SupplyHolds, UsersCounted, PTL
-----------------------------------------------------------------------------
(* The pool that on_startup built.  The inductive invariant: there is one  *)
(* semaphore and one lock, a thread inside the lock is alone there, the    *)
(* test of the list still holds until pop or the constructor call, and no  *)
(* permit is lost: each is in the semaphore, with a thread or gone with a  *)
(* request.                                                                *)

SingleGeneration ==
    /\ sem = 1 /\ lock = 1 /\ inits = 1 /\ initialized /\ published
    /\ \A t \in Threads : /\ pc[t] \notin {"reset", "semaphore", "lock", "publish"}
                          /\ pc[t] = "acquire" => ref[t] = 1

MutualExclusion == \A t \in Threads : pc[t] \in Locked => ref[t] = 1 /\ holder[1] = t

ListTest == \A t \in Threads : /\ pc[t] = "create" => idle = <<>>
                               /\ pc[t] = "pop" => idle # <<>>

PermitsConserved == permits[1] + Cardinality(Holders) + leaked = MaxSize

Steady ==
    SingleGeneration /\ MutualExclusion /\ ListTest /\ PermitsConserved

\* The control part of the invariant, without counting.
Control == SingleGeneration /\ MutualExclusion /\ ListTest

\* While a thread is inside the lock no other one can take it, so the list
\* does not change under the thread that has tested it.
LEMMA ControlStep == TypeOK /\ Control /\ [Next]_vars => Control'
<1> SUFFICES ASSUME TypeOK, Control, [Next]_vars PROVE Control'
  OBVIOUS
<1> USE PoolAssumption DEF PoolAssumption, TypeOK, Goto, singleton, counters, Control,
        SingleGeneration, MutualExclusion, ListTest, Locked
<1>1. ASSUME NEW t \in Threads, ReachPool(t) PROVE Control'
  <2>1. Start(t)
    BY <1>1 DEF ReachPool, ResetPool, ResetSemaphore, ResetLock, Publish
  <2>2. QED BY <2>1 DEF Start, FirstCall
<1>2. ASSUME NEW t \in Threads, GetClient(t) PROVE Control'
  <2>1. CASE Ask(t) BY <2>1 DEF Ask
  <2>2. CASE Acquire(t) BY <2>2 DEF Acquire
  <2>3. CASE Enter(t) BY <2>3 DEF Enter
  <2>4. CASE Pop(t) BY <2>4 DEF Pop, Unlock
  <2>5. CASE PopEmpty(t) BY <2>5 DEF PopEmpty, Unlock
  <2>6. CASE Create(t) BY <2>6 DEF Create, Unlock
  <2>7. CASE CreateFails(t) BY <2>7 DEF CreateFails, Unlock
  <2>8. QED BY <1>2, <2>1, <2>2, <2>3, <2>4, <2>5, <2>6, <2>7 DEF GetClient
<1>3. ASSUME NEW t \in Threads, EndUse(t) PROVE Control'
  <2>1. CASE EndRequest(t) BY <2>1 DEF EndRequest
  <2>2. CASE EndScope(t) BY <2>2 DEF EndScope
  <2>3. CASE Give(t)
    <3>1. \A u \in Threads : pc[u] \notin Locked
      BY <2>3 DEF Give
    <3>2. QED BY <2>3, <3>1 DEF Give
  <2>4. CASE Post(t) BY <2>4 DEF Post
  <2>5. QED BY <1>3, <2>1, <2>2, <2>3, <2>4 DEF EndUse
<1>4. ASSUME NEW t \in Threads, CloseAll(t) PROVE Control'
  <2>1. CASE EnterClose(t) BY <2>1 DEF EnterClose
  <2>2. CASE CloseOne(t) BY <2>2 DEF CloseOne
  <2>3. CASE CloseFails(t) BY <2>3 DEF CloseFails, Unlock
  <2>4. CASE Clear(t) BY <2>4 DEF Clear, Unlock
  <2>5. QED BY <1>4, <2>1, <2>2, <2>3, <2>4 DEF CloseAll
<1>5. CASE UNCHANGED vars BY <1>5 DEF vars
<1>6. QED BY <1>1, <1>2, <1>3, <1>4, <1>5 DEF Next

\* Every step that takes or gives a permit moves it between the semaphore, a
\* thread and the requests that took theirs along.
LEMMA PermitStep == TypeOK /\ Steady /\ [Next]_vars => PermitsConserved'
<1> SUFFICES ASSUME TypeOK, Steady, [Next]_vars PROVE PermitsConserved'
  OBVIOUS
<1>0. /\ permits[1] \in Nat /\ leaked \in Nat /\ MaxSize \in Nat /\ 1 \in 1 .. MaxInits
      /\ permits \in [1 .. MaxInits -> Nat]
      /\ Cardinality(Holders) \in Nat
      /\ permits[1] + Cardinality(Holders) + leaked = MaxSize
  <2>1. Cardinality(Holders) \in Nat
    BY Finite
  <2>2. QED BY <2>1, PoolAssumption DEF PoolAssumption, TypeOK, Steady, PermitsConserved
<1> DEFINE Same == permits'[1] = permits[1] /\ leaked' = leaked
<1>a. ASSUME NEW t \in Threads, NEW step, pc' = [pc EXCEPT ![t] = step],
             pc[t] \in WithPermit <=> step \in WithPermit, Same
      PROVE  PermitsConserved'
  BY <1>0, <1>a, HoldersStep DEF PermitsConserved
<1> USE DEF Goto, counters, singleton, Steady, SingleGeneration
<1>1. ASSUME NEW t \in Threads, ReachPool(t) PROVE PermitsConserved'
  <2>1. Start(t)
    BY <1>1 DEF ReachPool, ResetPool, ResetSemaphore, ResetLock, Publish
  <2>2. PICK step \in {"ask", "close", "reset"} : pc' = [pc EXCEPT ![t] = step]
    BY <2>1 DEF Start, FirstCall
  <2>3. QED BY <1>a, <2>1, <2>2 DEF Start, WithPermit
<1>2. ASSUME NEW t \in Threads, GetClient(t) PROVE PermitsConserved'
  <2>1. CASE Ask(t) BY <2>1, <1>a DEF Ask, WithPermit
  <2>2. CASE Acquire(t)
    <3>1. permits'[1] = permits[1] - 1 /\ leaked' = leaked
      BY <1>0, <2>2 DEF Acquire
    <3>2. Cardinality(Holders') = Cardinality(Holders) + 1
      BY <2>2, HoldersStep DEF Acquire, WithPermit
    <3>3. QED BY <1>0, <3>1, <3>2 DEF PermitsConserved
  <2>3. CASE Enter(t)
    <3>1. PICK step \in {"create", "pop"} : pc' = [pc EXCEPT ![t] = step]
      BY <2>3 DEF Enter
    <3>2. QED BY <1>a, <2>3, <3>1 DEF Enter, WithPermit
  <2>4. CASE Pop(t) BY <2>4, <1>a DEF Pop, WithPermit
  <2>5. CASE PopEmpty(t) BY <2>5 DEF PopEmpty, ListTest
  <2>6. CASE Create(t) BY <2>6, <1>a DEF Create, WithPermit
  <2>7. CASE CreateFails(t)
    <3>1. permits'[1] = permits[1] + 1 /\ leaked' = leaked
      BY <1>0, <2>7 DEF CreateFails
    <3>2. Cardinality(Holders') = Cardinality(Holders) - 1
      <4>1. pc[t] \in WithPermit /\ "start" \notin WithPermit
        BY <2>7 DEF CreateFails, WithPermit
      <4>2. pc' = [pc EXCEPT ![t] = "start"]
        BY <2>7 DEF CreateFails
      <4>3. QED BY <4>1, <4>2, HoldersStep
    <3>3. QED BY <1>0, <3>1, <3>2 DEF PermitsConserved
  <2>8. QED BY <1>2, <2>1, <2>2, <2>3, <2>4, <2>5, <2>6, <2>7 DEF GetClient
<1>3. ASSUME NEW t \in Threads, EndUse(t) PROVE PermitsConserved'
  <2>1. CASE EndRequest(t)
    <3>1. permits'[1] = permits[1] /\ leaked' = leaked + 1
      BY <2>1 DEF EndRequest
    <3>2. Cardinality(Holders') = Cardinality(Holders) - 1
      <4>1. pc[t] \in WithPermit /\ "start" \notin WithPermit
        BY <2>1 DEF EndRequest, WithPermit
      <4>2. pc' = [pc EXCEPT ![t] = "start"]
        BY <2>1 DEF EndRequest
      <4>3. QED BY <4>1, <4>2, HoldersStep
    <3>3. QED BY <1>0, <3>1, <3>2 DEF PermitsConserved
  <2>2. CASE EndScope(t) BY <2>2, <1>a DEF EndScope, WithPermit
  <2>3. CASE Give(t) BY <2>3, <1>a DEF Give, WithPermit
  <2>4. CASE Post(t)
    <3>1. permits'[1] = permits[1] + 1 /\ leaked' = leaked
      BY <1>0, <2>4 DEF Post
    <3>2. Cardinality(Holders') = Cardinality(Holders) - 1
      <4>1. pc[t] \in WithPermit /\ "start" \notin WithPermit
        BY <2>4 DEF Post, WithPermit
      <4>2. pc' = [pc EXCEPT ![t] = "start"]
        BY <2>4 DEF Post
      <4>3. QED BY <4>1, <4>2, HoldersStep
    <3>3. QED BY <1>0, <3>1, <3>2 DEF PermitsConserved
  <2>5. QED BY <1>3, <2>1, <2>2, <2>3, <2>4 DEF EndUse
<1>4. ASSUME NEW t \in Threads, CloseAll(t) PROVE PermitsConserved'
  <2>1. CASE EnterClose(t) BY <2>1, <1>a DEF EnterClose, WithPermit
  <2>2. CASE CloseOne(t) BY <1>0, <2>2 DEF CloseOne, PermitsConserved, Holders
  <2>3. CASE CloseFails(t) BY <2>3, <1>a DEF CloseFails, WithPermit
  <2>4. CASE Clear(t) BY <2>4, <1>a DEF Clear, WithPermit
  <2>5. QED BY <1>4, <2>1, <2>2, <2>3, <2>4 DEF CloseAll
<1>5. CASE UNCHANGED vars BY <1>0, <1>5 DEF vars, PermitsConserved, Holders
<1>6. QED BY <1>1, <1>2, <1>3, <1>4, <1>5 DEF Next

LEMMA SteadyInit == Started = TRUE /\ Init => Steady
<1> SUFFICES ASSUME Started = TRUE, Init PROVE Steady
  OBVIOUS
<1>1. Holders = {}
  BY DEF Init, Holders, WithPermit
<1>2. Cardinality(Holders) = 0
  BY <1>1, FS_EmptySet
<1>3. permits[1] = MaxSize /\ leaked = 0 /\ MaxSize \in Nat
  BY PoolAssumption DEF PoolAssumption, Init
<1>4. SingleGeneration /\ MutualExclusion /\ ListTest
  BY DEF Init, SingleGeneration, MutualExclusion, ListTest, Locked
<1>5. QED BY <1>1, <1>2, <1>3, <1>4 DEF Steady, PermitsConserved

LEMMA SteadyStep == TypeOK /\ Steady /\ [Next]_vars => Steady'
<1>1. TypeOK /\ Steady /\ [Next]_vars => Control'
  BY ControlStep DEF Control, Steady
<1>2. QED BY <1>1, PermitStep DEF Control, Steady

\* Once on_startup has built the pool, the clients in use and in the list are
\* together never more than max_size, and no permit is lost except with a
\* request that ends: for any number of threads, for every interleaving of
\* get_client, release_client and close_all, and whichever calls raise.
THEOREM PoolBoundHolds ==
    ASSUME Started = TRUE
    PROVE  Spec => [](PoolBound /\ PermitsConserved)
<1>1. Init => TypeOK /\ Steady
  BY TypeInit, SteadyInit
<1>2. TypeOK /\ Steady /\ [Next]_vars => TypeOK' /\ Steady'
  BY TypeStep, SteadyStep
<1>3. ClientsPerInit /\ Steady => PoolBound /\ PermitsConserved
  BY PoolAssumption DEF PoolAssumption, Steady, SingleGeneration, PoolBound, ClientsPerInit
<1>4. QED BY <1>1, <1>2, <1>3, ClientsPerInitHolds, PTL DEF Spec
-----------------------------------------------------------------------------
(* ClientsUsable                                                           *)

NothingTwice == \A i, j \in 1 .. Len(idle) : idle[i] = idle[j] => i = j

\* A closed client is in the list only while close_all walks it.
ListedOpen == closeErrors = 0 /\ Listed \cap closed # {} => \E t \in Threads : pc[t] = "closing"

Owned == NothingTwice /\ ListedOpen /\ ClientsUsable

\* Taking the last client of the list.
LEMMA PopStep ==
    ASSUME TypeOK, NothingTwice, idle # <<>>, idle' = SubSeq(idle, 1, Len(idle) - 1)
    PROVE  /\ NothingTwice'
           /\ idle[Len(idle)] \in Listed
           /\ Listed' = Listed \ {idle[Len(idle)]}
<1>1. idle \in Seq(Clients) /\ Len(idle) \in Nat \ {0}
  BY DEF TypeOK
<1>2. Len(idle') = Len(idle) - 1 /\ \A i \in 1 .. Len(idle) - 1 : idle'[i] = idle[i]
  BY <1>1, Popped
<1>3. NothingTwice'
  BY <1>1, <1>2 DEF NothingTwice
<1>4. Len(idle) \in 1 .. Len(idle) /\ \A i \in 1 .. Len(idle) : i = Len(idle) \/ i \in 1 .. Len(idle) - 1
  BY <1>1
<1>5. \A i \in 1 .. Len(idle) - 1 : i \in 1 .. Len(idle) /\ i # Len(idle)
  BY <1>1
<1>6. Listed' = Listed \ {idle[Len(idle)]}
  <2>1. Listed' \subseteq Listed \ {idle[Len(idle)]}
    BY <1>2, <1>4, <1>5 DEF Listed, NothingTwice
  <2>2. Listed \ {idle[Len(idle)]} \subseteq Listed'
    BY <1>2, <1>4 DEF Listed
  <2>3. QED BY <2>1, <2>2
<1>7. QED BY <1>3, <1>4, <1>6 DEF Listed

\* Putting a client into the list that is not there.
LEMMA GiveStep ==
    ASSUME TypeOK, NothingTwice, NEW c \in Clients, c \notin Listed, idle' = Append(idle, c)
    PROVE  NothingTwice' /\ Listed' = Listed \cup {c}
<1>1. idle \in Seq(Clients) /\ Len(idle) \in Nat
  BY DEF TypeOK
<1>2. /\ Len(idle') = Len(idle) + 1 /\ idle'[Len(idle) + 1] = c
      /\ \A i \in 1 .. Len(idle) : idle'[i] = idle[i] /\ i \in 1 .. Len(idle')
      /\ \A i \in 1 .. Len(idle') : i \in 1 .. Len(idle) \/ i = Len(idle) + 1
  BY <1>1
<1>3. \A i \in 1 .. Len(idle) : idle[i] # c
  BY DEF Listed
<1>4. NothingTwice'
  BY <1>2, <1>3 DEF NothingTwice
<1>5. Len(idle) + 1 \in 1 .. Len(idle')
  BY <1>1, <1>2
<1>6. QED BY <1>2, <1>4, <1>5 DEF Listed

\* Nobody takes a client out of the list while close_all walks it.
Apart == \A t, u \in Threads : pc[t] = "pop" => pc[u] # "closing"

\* There is one lock, or there is nobody to close.
NobodyCloses == \A t \in Threads : pc[t] \notin {"close", "closing"}

Separated == (Started = TRUE => Steady) /\ (Closers = {} => NobodyCloses)

LEMMA SeparatedInit == Init => Separated
BY SteadyInit DEF Init, Separated, NobodyCloses

LEMMA SeparatedStep == TypeOK /\ Separated /\ [Next]_vars => Separated'
<1>1. ASSUME TypeOK, NobodyCloses, Closers = {}, [Next]_vars PROVE NobodyCloses'
  <2> USE <1>1 DEF Goto, TypeOK, NobodyCloses
  <2>1. ASSUME NEW t \in Threads, ReachPool(t) PROVE NobodyCloses'
    BY <2>1 DEF ReachPool, Start, ResetPool, ResetSemaphore, ResetLock, Publish, FirstCall
  <2>2. ASSUME NEW t \in Threads, GetClient(t) PROVE NobodyCloses'
    BY <2>2 DEF GetClient, Ask, Acquire, Enter, Pop, PopEmpty, Create, CreateFails
  <2>3. ASSUME NEW t \in Threads, EndUse(t) PROVE NobodyCloses'
    BY <2>3 DEF EndUse, EndRequest, EndScope, Give, Post
  <2>4. ASSUME NEW t \in Threads, CloseAll(t) PROVE NobodyCloses'
    BY <2>4 DEF CloseAll, EnterClose, CloseOne, CloseFails, Clear
  <2>5. CASE UNCHANGED vars BY <2>5 DEF vars
  <2>6. QED BY <1>1, <2>1, <2>2, <2>3, <2>4, <2>5 DEF Next
<1>2. QED BY <1>1, SteadyStep DEF Separated

LEMMA SeparatedApart == Separated /\ (Started = TRUE \/ Closers = {}) => Apart
<1>1. Steady => Apart
  BY DEF Steady, MutualExclusion, Locked, Apart
<1>2. QED BY <1>1 DEF Separated, NobodyCloses, Apart

LEMMA OwnedStep == TypeOK /\ Apart /\ Owned /\ [Next]_vars => Owned'
<1> SUFFICES ASSUME TypeOK, Apart, Owned, [Next]_vars PROVE Owned'
  OBVIOUS
<1>a. ASSUME UNCHANGED <<idle, held, closed, closeErrors>>,
             \A t \in Threads : pc[t] = "closing" => pc'[t] = "closing"
      PROVE  Owned'
  BY <1>a DEF Owned, NothingTwice, ListedOpen, ClientsUsable, Listed, Users
<1>b. ASSUME idle' = <<>>, UNCHANGED <<held, closed, closeErrors>>
      PROVE  Owned'
  <2>1. Listed' = {} /\ NothingTwice'
    BY <1>b DEF Listed, NothingTwice
  <2>2. QED
    BY <1>b, <2>1 DEF Owned, ListedOpen, ClientsUsable, Users
<1> USE DEF Goto, counters, singleton
<1>1. ASSUME NEW t \in Threads, Start(t) \/ ResetSemaphore(t) \/ ResetLock(t) \/ Publish(t)
      PROVE  Owned'
  <2>1. pc[t] # "closing" /\ \A u \in Threads \ {t} : pc'[u] = pc[u]
    BY <1>1 DEF Start, ResetSemaphore, ResetLock, Publish, TypeOK
  <2>2. UNCHANGED <<idle, held, closed, closeErrors>>
    BY <1>1 DEF Start, ResetSemaphore, ResetLock, Publish
  <2>3. QED BY <1>a, <2>1, <2>2
<1>2. ASSUME NEW t \in Threads, ResetPool(t) PROVE Owned'
  BY <1>2, <1>b DEF ResetPool
<1>3. ASSUME NEW t \in Threads,
             Ask(t) \/ Acquire(t) \/ Enter(t) \/ PopEmpty(t) \/ CreateFails(t) \/ EndScope(t)
                 \/ Post(t) \/ EnterClose(t)
      PROVE  Owned'
  <2>1. pc[t] # "closing" /\ \A u \in Threads \ {t} : pc'[u] = pc[u]
    BY <1>3 DEF Ask, Acquire, Enter, PopEmpty, CreateFails, EndScope, Post, EnterClose, TypeOK
  <2>2. UNCHANGED <<idle, held, closed, closeErrors>>
    BY <1>3 DEF Ask, Acquire, Enter, PopEmpty, CreateFails, EndScope, Post, EnterClose
  <2>3. QED BY <1>a, <2>1, <2>2
<1>4. ASSUME NEW t \in Threads, Pop(t) PROVE Owned'
  <2> DEFINE c == idle[Len(idle)]
  <2>1. /\ held' = [held EXCEPT ![t] = c] /\ UNCHANGED <<closed, closeErrors>>
        /\ NothingTwice' /\ c \in Listed /\ Listed' = Listed \ {c}
    BY <1>4, PopStep DEF Pop, Owned
  <2> HIDE DEF c
  <2>2. pc[t] = "pop" /\ held[t] = NoClient
    BY <1>4 DEF Pop, TypeOK
  <2>3. \A u \in Threads : pc[u] # "closing"
    BY <2>2 DEF Apart
  <2>4. closeErrors = 0 => Listed \cap closed = {}
    BY <2>3 DEF Owned, ListedOpen
  <2>5. \A u \in Users : held[u] # c
    BY <2>1 DEF Owned, ClientsUsable
  <2>6. ListedOpen'
    BY <2>1, <2>4 DEF ListedOpen
  <2>7. held'[t] = c /\ \A u \in Threads : u # t => held'[u] = held[u]
    BY <2>1 DEF TypeOK
  <2>8. ClientsUsable'
    <3>1. ASSUME NEW u \in Users'
          PROVE  /\ held'[u] \notin Listed'
                 /\ \A v \in Users' : held'[v] = held'[u] => v = u
                 /\ closeErrors' = 0 => held'[u] \notin closed'
      <4>1. \A v \in Users' : v = t \/ (v \in Users /\ held'[v] = held[v])
        <5> SUFFICES ASSUME NEW v \in Users', v # t PROVE v \in Users /\ held'[v] = held[v]
          OBVIOUS
        <5>1. v \in Threads /\ held'[v] # NoClient
          BY DEF Users
        <5>2. held'[v] = held[v]
          BY <2>7, <5>1
        <5>3. QED BY <5>1, <5>2 DEF Users
      <4>2. CASE u = t
        BY <2>1, <2>4, <2>5, <2>7, <4>1, <4>2
      <4>3. CASE u \in Users /\ u # t /\ held'[u] = held[u]
        BY <2>1, <2>5, <2>7, <4>1, <4>3 DEF Owned, ClientsUsable
      <4>4. QED BY <4>1, <4>2, <4>3
    <3>2. QED BY <3>1 DEF ClientsUsable
  <2>9. QED BY <2>1, <2>6, <2>8 DEF Owned
<1>5. ASSUME NEW t \in Threads, Create(t) PROVE Owned'
  <2>1. PICK c \in Clients \ (InUse \cup Listed) :
            held' = [held EXCEPT ![t] = c] /\ closed' = closed \ {c}
    BY <1>5 DEF Create
  <2>2. UNCHANGED <<idle, closeErrors>> /\ pc[t] # "closing" /\ \A u \in Threads \ {t} : pc'[u] = pc[u]
    BY <1>5 DEF Create, TypeOK
  <2>3. \A u \in Users : held[u] # c
    BY <2>1 DEF InUse, Users
  <2>4. held'[t] = c /\ \A u \in Threads : u # t => held'[u] = held[u]
    BY <2>1 DEF TypeOK
  <2>5. Listed' = Listed /\ NothingTwice'
    BY <2>2 DEF Listed, NothingTwice, Owned
  <2>6. ListedOpen'
    BY <2>1, <2>2, <2>5 DEF ListedOpen, Owned
  <2>7. ClientsUsable'
    <3>1. ASSUME NEW u \in Users'
          PROVE  /\ held'[u] \notin Listed'
                 /\ \A v \in Users' : held'[v] = held'[u] => v = u
                 /\ closeErrors' = 0 => held'[u] \notin closed'
      <4>1. \A v \in Users' : v = t \/ (v \in Users /\ held'[v] = held[v])
        <5> SUFFICES ASSUME NEW v \in Users', v # t PROVE v \in Users /\ held'[v] = held[v]
          OBVIOUS
        <5>1. v \in Threads /\ held'[v] # NoClient
          BY DEF Users
        <5>2. held'[v] = held[v]
          BY <2>4, <5>1
        <5>3. QED BY <5>1, <5>2 DEF Users
      <4>2. CASE u = t
        BY <2>1, <2>3, <2>4, <2>5, <4>1, <4>2
      <4>3. CASE u \in Users /\ u # t /\ held'[u] = held[u]
        BY <2>1, <2>2, <2>3, <2>4, <2>5, <4>1, <4>3 DEF Owned, ClientsUsable
      <4>4. QED BY <4>1, <4>2, <4>3
    <3>2. QED BY <3>1 DEF ClientsUsable
  <2>8. QED BY <2>5, <2>6, <2>7 DEF Owned
<1>6. ASSUME NEW t \in Threads, EndRequest(t) PROVE Owned'
  <2>1. /\ UNCHANGED <<idle, closed, closeErrors>>
        /\ pc[t] # "closing" /\ \A u \in Threads \ {t} : pc'[u] = pc[u]
        /\ \A u \in Users' : u \in Users /\ held'[u] = held[u]
    BY <1>6 DEF EndRequest, Users, TypeOK
  <2>2. Listed' = Listed /\ NothingTwice' /\ ListedOpen'
    BY <2>1 DEF Listed, NothingTwice, ListedOpen, Owned
  <2>3. ClientsUsable'
    BY <2>1, <2>2 DEF ClientsUsable, Owned
  <2>4. QED BY <2>2, <2>3 DEF Owned
<1>7. ASSUME NEW t \in Threads, Give(t) PROVE Owned'
  <2> DEFINE c == held[t]
  <2>1. /\ UNCHANGED <<closed, closeErrors>> /\ idle' = Append(idle, c) /\ t \in Users
        /\ pc[t] # "closing" /\ \A u \in Threads \ {t} : pc'[u] = pc[u]
        /\ \A u \in Users' : u \in Users /\ u # t /\ held'[u] = held[u]
    BY <1>7 DEF Give, Users, TypeOK
  <2>2. c \in Clients /\ c \notin Listed /\ (closeErrors = 0 => c \notin closed)
        /\ \A u \in Users : u # t => held[u] # c
    BY <2>1 DEF Owned, ClientsUsable, Users, TypeOK
  <2> HIDE DEF c
  <2>3. NothingTwice' /\ Listed' = Listed \cup {c}
    BY <2>1, <2>2, GiveStep DEF Owned
  <2>4. ListedOpen'
    BY <2>1, <2>2, <2>3 DEF ListedOpen, Owned
  <2>5. ClientsUsable'
    BY <2>1, <2>2, <2>3 DEF ClientsUsable, Owned
  <2>6. QED BY <2>3, <2>4, <2>5 DEF Owned
<1>8. ASSUME NEW t \in Threads, CloseOne(t) PROVE Owned'
  <2>1. PICK c \in Listed : closed' = closed \cup {c}
    BY <1>8 DEF CloseOne
  <2>2. UNCHANGED <<idle, held, closeErrors, pc>> /\ pc[t] = "closing"
    BY <1>8 DEF CloseOne
  <2>3. NothingTwice' /\ ListedOpen'
    BY <2>2 DEF Owned, NothingTwice, ListedOpen
  <2>4. ClientsUsable'
    BY <2>1, <2>2 DEF Owned, ClientsUsable, Users, Listed
  <2>5. QED BY <2>3, <2>4 DEF Owned
<1>9. ASSUME NEW t \in Threads, CloseFails(t) PROVE Owned'
  <2>1. UNCHANGED <<idle, held, closed>> /\ closeErrors' # 0
    BY <1>9, PoolAssumption DEF CloseFails, TypeOK, PoolAssumption
  <2>2. QED
    BY <2>1 DEF Owned, NothingTwice, ListedOpen, ClientsUsable, Users, Listed
<1>10. ASSUME NEW t \in Threads, Clear(t) PROVE Owned'
  BY <1>10, <1>b DEF Clear
<1>11. CASE UNCHANGED vars
  BY <1>11, <1>a DEF vars
<1>12. QED
  BY <1>1, <1>2, <1>3, <1>4, <1>5, <1>6, <1>7, <1>8, <1>9, <1>10, <1>11
     DEF Next, ReachPool, GetClient, EndUse, CloseAll

\* ClientsUsable of ConnectionPool: a client in use is in one pair of hands, not
\* in the list and open, until a close has failed.  With the pool on_startup
\* built, through any interleaving with close_all; and while nobody calls
\* close_all, also when threads race to build the pool, each with a semaphore
\* and a lock of its own.
THEOREM ClientsUsableHolds ==
    ASSUME Started = TRUE \/ Closers = {}
    PROVE  Spec => []ClientsUsable
<1>1. Init => TypeOK /\ Separated /\ Owned
  <2> SUFFICES ASSUME Init PROVE TypeOK /\ Separated /\ Owned
    OBVIOUS
  <2>1. Listed = {} /\ Users = {} /\ NothingTwice
    BY DEF Init, Listed, Users, NothingTwice
  <2>2. Owned
    BY <2>1 DEF Owned, ListedOpen, ClientsUsable
  <2>3. QED BY <2>2, TypeInit, SeparatedInit
<1>2. TypeOK /\ Separated /\ Owned /\ [Next]_vars => TypeOK' /\ Separated' /\ Owned'
  BY TypeStep, SeparatedStep, SeparatedApart, OwnedStep
<1>3. Owned => ClientsUsable
  BY DEF Owned
<1>4. QED BY <1>1, <1>2, <1>3, PTL DEF Spec
=============================================================================
