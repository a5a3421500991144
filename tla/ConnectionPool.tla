---------------------------- MODULE ConnectionPool ----------------------------
(***************************************************************************)
(* The Neo4j connection pool (src/qmtl/common/db/connection_pool.py) and   *)
(* the three ways the program uses it:                                     *)
(*                                                                         *)
(*   Requests  API dependencies: get_neo4j_pool().get_client(), and        *)
(*             nothing ever calls release_client                           *)
(*   Scoped    the GC service: `with pool.client()` on the pool that       *)
(*             Neo4jConnectionPool() without arguments returns             *)
(*   Closers   callers of close_all                                        *)
(*                                                                         *)
(* __init__ replaces the list, the semaphore and the lock of the one       *)
(* instance each time it is called with arguments, so every semaphore and  *)
(* every lock has an index and a thread may hold on to an old one.  Lock 0 *)
(* is the class attribute _lock, seen until the instance has its own.      *)
(***************************************************************************)
EXTENDS Naturals, Sequences, FiniteSets

CONSTANTS
    Requests, Scoped, Closers,  \* the threads, by what they do
    Clients,      \* identities of Neo4jClient objects, reused once unreferenced
    NoThread, NoClient,
    MaxSize,      \* max_size of every __init__
    Started,      \* on_startup has built the pool before the threads run
    MaxInits,     \* bound: runs of __init__ that replace the pool's state
    MaxUses,      \* bound: uses of the pool by each thread
    MaxErrors     \* bound: Neo4jClient and client.close calls that raise

Threads == Requests \cup Scoped \cup Closers

ASSUME PoolAssumption ==
    /\ IsFiniteSet(Threads)
    /\ Requests \cap (Scoped \cup Closers) = {}
    /\ Scoped \cap Closers = {}
    /\ NoThread \notin Threads
    /\ NoClient \notin Clients
    /\ MaxSize \in Nat \ {0}
    /\ Started \in BOOLEAN
    /\ MaxInits \in Nat \ {0}
    /\ MaxUses \in Nat
    /\ MaxErrors \in Nat

VARIABLES
    idle,        \* _pool, a list used as a stack
    permits,     \* permits[k]: value of the k-th semaphore
    sem,         \* index of _available; 0 while the attribute does not exist
    holder,      \* holder[k]: the thread inside the k-th lock
    lock,        \* index of _lock
    initialized, \* _initialized
    published,   \* _neo4j_pool is not None
    inits,       \* semaphores made so far
    pc,          \* where each thread is
    ref,         \* ref[t]: the semaphore t waits for, or the lock it is inside
    held,        \* held[t]: the client in t's hands
    closed,      \* clients on which close() was called
    uses,        \* uses[t]: uses of the pool t has begun
    leaked,      \* history: permits that left with a request
    errors, closeErrors  \* calls that raised; those of close among them

singleton == <<sem, lock, initialized, published, inits>>
counters == <<uses, leaked, errors, closeErrors>>
vars == <<idle, permits, holder, singleton, pc, ref, held, closed, counters>>

Steps == {"start", "reset", "semaphore", "lock", "publish", "ask", "acquire",
          "enter", "pop", "create", "use", "give", "post", "close", "closing"}

\* Steps at which a thread holds a permit, and those inside the pool's lock.
WithPermit == {"enter", "pop", "create", "use", "give", "post"}
Locked == {"pop", "create", "closing"}

TypeOK ==
    /\ idle \in Seq(Clients)
    /\ permits \in [1 .. MaxInits -> Nat]
    /\ sem \in 0 .. MaxInits
    /\ holder \in [0 .. MaxInits -> Threads \cup {NoThread}]
    /\ lock \in 0 .. MaxInits
    /\ initialized \in BOOLEAN
    /\ published \in BOOLEAN
    /\ inits \in 0 .. MaxInits
    /\ pc \in [Threads -> Steps]
    /\ ref \in [Threads -> 0 .. MaxInits]
    /\ held \in [Threads -> Clients \cup {NoClient}]
    /\ \A t \in Threads : held[t] # NoClient <=> pc[t] \in {"use", "give"}
    /\ closed \in SUBSET Clients
    /\ uses \in [Threads -> 0 .. MaxUses]
    /\ leaked \in Nat
    /\ errors \in 0 .. MaxErrors
    /\ closeErrors \in 0 .. errors

Init ==
    /\ idle = <<>>
    /\ permits = [k \in 1 .. MaxInits |-> IF Started /\ k = 1 THEN MaxSize ELSE 0]
    /\ sem = IF Started THEN 1 ELSE 0
    /\ holder = [k \in 0 .. MaxInits |-> NoThread]
    /\ lock = sem
    /\ initialized = Started
    /\ published = Started
    /\ inits = sem
    /\ pc = [t \in Threads |-> "start"]
    /\ ref = [t \in Threads |-> 0]
    /\ held = [t \in Threads |-> NoClient]
    /\ closed = {}
    /\ uses = [t \in Threads |-> 0]
    /\ leaked = 0
    /\ errors = 0
    /\ closeErrors = 0

Goto(t, step) == pc' = [pc EXCEPT ![t] = step]
InUse == {held[t] : t \in Threads} \ {NoClient}
Listed == {idle[i] : i \in 1 .. Len(idle)}
-----------------------------------------------------------------------------
(* Reaching the singleton.                                                 *)

\* Where a thread goes once it has the pool.
FirstCall(t) == IF t \in Closers THEN "close" ELSE "ask"

\* get_neo4j_pool tests `_neo4j_pool is None`; its constructor call has
\* arguments and always initialises.  A call without arguments returns early
\* when the instance is _initialized.  __new__ gives every caller the instance.
Start(t) ==
    /\ pc[t] = "start"
    /\ uses[t] < MaxUses
    /\ uses' = [uses EXCEPT ![t] = @ + 1]
    /\ Goto(t, IF (t \in Requests /\ published) \/ (t \notin Requests /\ initialized)
                 THEN FirstCall(t) ELSE "reset")
    /\ UNCHANGED <<idle, permits, holder, singleton, ref, held, closed, leaked,
                   errors, closeErrors>>

\* __init__: _initialized = True ... _pool = [].  The idle clients of an
\* earlier list are dropped.
ResetPool(t) ==
    /\ pc[t] = "reset"
    /\ idle' = <<>>
    /\ initialized' = TRUE
    /\ Goto(t, "semaphore")
    /\ UNCHANGED <<permits, holder, sem, lock, published, inits, ref, held,
                   closed, counters>>

\* __init__: _available = Semaphore(max_size).
ResetSemaphore(t) ==
    /\ pc[t] = "semaphore"
    /\ inits < MaxInits
    /\ inits' = inits + 1
    /\ sem' = inits + 1
    /\ permits' = [permits EXCEPT ![inits + 1] = MaxSize]
    /\ ref' = [ref EXCEPT ![t] = inits + 1]
    /\ Goto(t, "lock")
    /\ UNCHANGED <<idle, holder, lock, initialized, published, held, closed,
                   counters>>

\* __init__: _lock = RLock().
ResetLock(t) ==
    /\ pc[t] = "lock"
    /\ lock' = ref[t]
    /\ Goto(t, IF t \in Requests THEN "publish" ELSE FirstCall(t))
    /\ UNCHANGED <<idle, permits, holder, sem, initialized, published, inits,
                   ref, held, closed, counters>>

\* get_neo4j_pool: _neo4j_pool = ...
Publish(t) ==
    /\ pc[t] = "publish"
    /\ published' = TRUE
    /\ Goto(t, FirstCall(t))
    /\ UNCHANGED <<idle, permits, holder, sem, lock, initialized, inits, ref,
                   held, closed, counters>>
-----------------------------------------------------------------------------
(* get_client.                                                             *)

\* `self._available` is read, then its acquire() is called.  Without the
\* attribute the call raises.
Ask(t) ==
    /\ pc[t] = "ask"
    /\ ref' = [ref EXCEPT ![t] = sem]
    /\ Goto(t, IF sem = 0 THEN "start" ELSE "acquire")
    /\ UNCHANGED <<idle, permits, holder, singleton, held, closed, counters>>

\* acquire(blocking=False), and its result is not looked at.
Acquire_Bug(t) ==
    /\ pc[t] = "acquire"
    /\ permits' = [permits EXCEPT ![ref[t]] = IF @ > 0 THEN @ - 1 ELSE 0]
    /\ Goto(t, "enter")
    /\ UNCHANGED <<idle, holder, singleton, ref, held, closed, counters>>

Acquire(t) ==
    /\ pc[t] = "acquire"
    /\ permits[ref[t]] > 0
    /\ permits' = [permits EXCEPT ![ref[t]] = @ - 1]
    /\ Goto(t, "enter")
    /\ UNCHANGED <<idle, holder, singleton, ref, held, closed, counters>>

\* `with self._lock`, and the test `not self._pool`.
Enter(t) ==
    /\ pc[t] = "enter"
    /\ holder[lock] = NoThread
    /\ holder' = [holder EXCEPT ![lock] = t]
    /\ ref' = [ref EXCEPT ![t] = lock]
    /\ Goto(t, IF idle = <<>> THEN "create" ELSE "pop")
    /\ UNCHANGED <<idle, permits, singleton, held, closed, counters>>

\* Leaving the `with self._lock` block.
Unlock(t) == holder' = [holder EXCEPT ![ref[t]] = NoThread]

\* The last client is handed out and stays in the list.
Pop_Bug(t) ==
    /\ pc[t] = "pop"
    /\ idle # <<>>
    /\ held' = [held EXCEPT ![t] = idle[Len(idle)]]
    /\ Unlock(t)
    /\ Goto(t, "use")
    /\ UNCHANGED <<idle, permits, singleton, ref, closed, counters>>

Pop(t) ==
    /\ pc[t] = "pop"
    /\ idle # <<>>
    /\ held' = [held EXCEPT ![t] = idle[Len(idle)]]
    /\ idle' = SubSeq(idle, 1, Len(idle) - 1)
    /\ Unlock(t)
    /\ Goto(t, "use")
    /\ UNCHANGED <<permits, singleton, ref, closed, counters>>

\* The list was replaced since the test: pop() raises, and the permit is lost.
PopEmpty(t) ==
    /\ pc[t] = "pop"
    /\ idle = <<>>
    /\ Unlock(t)
    /\ Goto(t, "start")
    /\ UNCHANGED <<idle, permits, singleton, ref, held, closed, counters>>

Create(t) ==
    /\ pc[t] = "create"
    /\ \E c \in Clients \ (InUse \cup Listed) :
          /\ held' = [held EXCEPT ![t] = c]
          /\ closed' = closed \ {c}
    /\ Unlock(t)
    /\ Goto(t, "use")
    /\ UNCHANGED <<idle, permits, singleton, ref, counters>>

\* The permit stays acquired when the client cannot be built.
CreateFails_Bug(t) ==
    /\ pc[t] = "create"
    /\ errors < MaxErrors
    /\ errors' = errors + 1
    /\ Unlock(t)
    /\ Goto(t, "start")
    /\ UNCHANGED <<idle, permits, singleton, ref, held, closed, uses, leaked, closeErrors>>

\* Neo4jClient(...) raises: the permit goes back to the semaphore the instance
\* has now, and get_client raises DatabaseError.
CreateFails(t) ==
    /\ pc[t] = "create"
    /\ errors < MaxErrors
    /\ errors' = errors + 1
    /\ permits' = [permits EXCEPT ![sem] = @ + 1]
    /\ Unlock(t)
    /\ Goto(t, "start")
    /\ UNCHANGED <<idle, singleton, ref, held, closed, uses, leaked, closeErrors>>
-----------------------------------------------------------------------------
(* After use.                                                              *)

\* The service made by get_node_service and its like goes out of scope with the
\* request; its client is dropped and its permit with it.
EndRequest(t) ==
    /\ t \in Requests
    /\ pc[t] = "use"
    /\ held' = [held EXCEPT ![t] = NoClient]
    /\ leaked' = leaked + 1
    /\ Goto(t, "start")
    /\ UNCHANGED <<idle, permits, holder, singleton, ref, closed, uses, errors,
                   closeErrors>>

\* client(): the finally clause runs whether or not the body raised.
EndScope(t) ==
    /\ t \in Scoped
    /\ pc[t] = "use"
    /\ Goto(t, "give")
    /\ UNCHANGED <<idle, permits, holder, singleton, ref, held, closed, counters>>

\* release_client, `with self._lock: self._pool.append(client)`.
Give(t) ==
    /\ pc[t] = "give"
    /\ holder[lock] = NoThread
    /\ idle' = Append(idle, held[t])
    /\ held' = [held EXCEPT ![t] = NoClient]
    /\ Goto(t, "post")
    /\ UNCHANGED <<permits, holder, singleton, ref, closed, counters>>

\* release_client, `self._available.release()` on the present semaphore.
Post(t) ==
    /\ pc[t] = "post"
    /\ permits' = [permits EXCEPT ![sem] = @ + 1]
    /\ Goto(t, "start")
    /\ UNCHANGED <<idle, holder, singleton, ref, held, closed, counters>>
-----------------------------------------------------------------------------
(* close_all.                                                              *)

\* The loop runs outside the lock.
EnterClose_Bug(t) ==
    /\ pc[t] = "close"
    /\ ref' = [ref EXCEPT ![t] = lock]
    /\ Goto(t, "closing")
    /\ UNCHANGED <<idle, permits, holder, singleton, held, closed, counters>>

EnterClose(t) ==
    /\ pc[t] = "close"
    /\ holder[lock] = NoThread
    /\ holder' = [holder EXCEPT ![lock] = t]
    /\ ref' = [ref EXCEPT ![t] = lock]
    /\ Goto(t, "closing")
    /\ UNCHANGED <<idle, permits, singleton, held, closed, counters>>

\* One turn of `for client in self._pool: client.close()`.
CloseOne(t) ==
    /\ pc[t] = "closing"
    /\ \E c \in Listed \ closed : closed' = closed \cup {c}
    /\ UNCHANGED <<idle, permits, holder, singleton, pc, ref, held, counters>>

\* client.close() raises: the list keeps what it holds, closed or not.
CloseFails(t) ==
    /\ pc[t] = "closing"
    /\ Listed \ closed # {}
    /\ errors < MaxErrors
    /\ errors' = errors + 1
    /\ closeErrors' = closeErrors + 1
    /\ Unlock(t)
    /\ Goto(t, "start")
    /\ UNCHANGED <<idle, permits, singleton, ref, held, closed, uses, leaked>>

\* _pool.clear() after the loop.
Clear(t) ==
    /\ pc[t] = "closing"
    /\ Listed \subseteq closed
    /\ idle' = <<>>
    /\ Unlock(t)
    /\ Goto(t, "start")
    /\ UNCHANGED <<permits, singleton, ref, held, closed, counters>>
-----------------------------------------------------------------------------
ReachPool(t) == Start(t) \/ ResetPool(t) \/ ResetSemaphore(t) \/ ResetLock(t) \/ Publish(t)

GetClient(t) ==
    Ask(t) \/ Acquire(t) \/ Enter(t) \/ Pop(t) \/ PopEmpty(t) \/ Create(t) \/ CreateFails(t)

EndUse(t) == EndRequest(t) \/ EndScope(t) \/ Give(t) \/ Post(t)

CloseAll(t) == EnterClose(t) \/ CloseOne(t) \/ CloseFails(t) \/ Clear(t)

Next == \E t \in Threads : ReachPool(t) \/ GetClient(t) \/ EndUse(t) \/ CloseAll(t)

Spec == Init /\ [][Next]_vars

\* A running thread runs on, and a body under `with pool.client()` ends.  Weak
\* fairness of Acquire and Enter is all threading gives: a woken waiter may find
\* the permit or the lock taken again.
Fairness == \A t \in Threads : WF_vars(ResetPool(t) \/ ResetSemaphore(t) \/ ResetLock(t)
                                       \/ Publish(t) \/ GetClient(t) \/ EndUse(t) \/ CloseAll(t))

FairSpec == Spec /\ Fairness
-----------------------------------------------------------------------------
(* Properties.                                                             *)

Holders == {t \in Threads : pc[t] \in WithPermit}
Users == {t \in Threads : held[t] # NoClient}

\* The clients that are open for the pool's users, in use or idle, never exceed
\* max_size: a client is built only when the list is empty and every user of
\* another one has a permit of its own.
PoolBound == Len(idle) + Cardinality(Users) <= MaxSize

\* Whoever races to build the pool and whatever raises: each run of __init__ adds
\* at most max_size clients to those in use or in the list, and nothing else adds
\* any, although clients of one list are given back to the next one and permits
\* of one semaphore are posted to another.
ClientsPerInit == Len(idle) + Cardinality(Users) <= MaxSize * inits

\* A client in use is in no other thread's hands, not in the list, and open, as
\* long as no close_all was cut short by an error.
ClientsUsable ==
    \A t \in Users :
        /\ held[t] \notin Listed
        /\ \A u \in Users : held[u] = held[t] => u = t
        /\ closeErrors = 0 => held[t] \notin closed

\* get_client returns or raises: nobody waits for a permit for ever.
Served == \A t \in Threads : (pc[t] = "acquire") ~> (pc[t] # "acquire")
=============================================================================
