-------------------------- MODULE GarbageCollection --------------------------
(***************************************************************************)
(* Neo4jGCService (registry/services/gc/service.py) beside the writers of  *)
(* GraphStore: collection, and the daemon loop with the callers of         *)
(* start_daemon and stop_daemon, who share the stop event and the          *)
(* attribute _daemon_thread without a lock.                                *)
(***************************************************************************)
EXTENDS GraphStore

CONSTANTS
    Controllers, \* threads that start and stop the daemon
    Threads,     \* bound: Thread objects
    NoThread,    \* _daemon_thread is None
    MaxControls, \* bound: calls of start_daemon and stop_daemon
    MaxErrors    \* bound: queries or pool accesses that fail

ASSUME ControlAssumption == NoThread \notin Threads /\ MaxControls \in Nat /\ MaxErrors \in Nat

VARIABLES
    stopEvent, \* _stop_event
    daemon,    \* _daemon_thread
    loop,      \* loop[t]: where thread t is; "none" is not created yet
    pc,        \* pc[c]: where controller c is
    joining,   \* joining[c]: the thread c joins
    controls,  \* calls so far
    errors,    \* failures so far
    plain,     \* history: no stop_daemon overlapped the start_daemon call of c
    wanted     \* history: a start_daemon call succeeded and nothing undid it

control == <<stopEvent, daemon, pc, joining, controls, plain>>
gcVars == <<store, control, loop, errors, wanted>>

LoopStates == {"none", "new", "check", "ttl", "zero", "wait", "ended"}
Alive(t) == loop[t] \in {"check", "ttl", "zero", "wait"}
IsAlive(d) == d # NoThread /\ Alive(d)

StopSteps == {"set", "join"}
Stopping == \E c \in Controllers : pc[c] \in StopSteps

GcTypeOK ==
    /\ StoreTypeOK
    /\ stopEvent \in BOOLEAN
    /\ daemon \in Threads \cup {NoThread}
    /\ loop \in [Threads -> LoopStates]
    /\ pc \in [Controllers -> {"idle", "check", "clear", "assign", "start"} \cup StopSteps]
    /\ joining \in [Controllers -> Threads \cup {NoThread}]
    /\ controls \in 0 .. MaxControls
    /\ errors \in 0 .. MaxErrors
    /\ plain \in [Controllers -> BOOLEAN]
    /\ wanted \in BOOLEAN
    /\ (daemon = NoThread) => \A t \in Threads : loop[t] = "none"

GcInit ==
    /\ StoreInit
    /\ stopEvent = FALSE
    /\ daemon = NoThread
    /\ loop = [t \in Threads |-> "none"]
    /\ pc = [c \in Controllers |-> "idle"]
    /\ joining = [c \in Controllers |-> NoThread]
    /\ controls = 0
    /\ errors = 0
    /\ plain = [c \in Controllers |-> TRUE]
    /\ wanted = FALSE
-----------------------------------------------------------------------------
(* start_daemon                                                            *)

At(c, from, to) == pc[c] = from /\ pc' = [pc EXCEPT ![c] = to]

CallStart(c) ==
    /\ At(c, "idle", "check")
    /\ controls < MaxControls
    /\ controls' = controls + 1
    /\ plain' = [plain EXCEPT ![c] = ~Stopping]
    /\ UNCHANGED <<store, stopEvent, daemon, joining, loop, errors, wanted>>

\* The daemon is alive: return, also when an earlier stop has told it to end
\* and this start is therefore lost.
AlreadyRunning(c) ==
    /\ At(c, "check", "idle")
    /\ IsAlive(daemon)
    /\ wanted' = (wanted \/ (plain[c] /\ ~stopEvent))
    /\ UNCHANGED <<store, stopEvent, daemon, joining, controls, plain, loop, errors>>

NotRunning(c) ==
    /\ At(c, "check", "clear")
    /\ ~IsAlive(daemon)
    /\ UNCHANGED <<store, stopEvent, daemon, joining, controls, plain, loop, errors, wanted>>

\* The event of the last stop stays set.
ClearEvent_Bug(c) ==
    /\ At(c, "clear", "assign")
    /\ UNCHANGED <<store, stopEvent, daemon, joining, controls, plain, loop, errors, wanted>>

ClearEvent(c) ==
    /\ At(c, "clear", "assign")
    /\ stopEvent' = FALSE
    /\ UNCHANGED <<store, daemon, joining, controls, plain, loop, errors, wanted>>

\* self._daemon_thread = Thread(...)
AssignThread(c) ==
    /\ At(c, "assign", "start")
    /\ \E t \in Threads :
          /\ loop[t] = "none"
          /\ loop' = [loop EXCEPT ![t] = "new"]
          /\ daemon' = t
    /\ UNCHANGED <<store, stopEvent, joining, controls, plain, errors, wanted>>

\* self._daemon_thread.start(), of the thread the attribute names by now; one
\* that was started already raises RuntimeError.
StartThread(c) ==
    /\ At(c, "start", "idle")
    /\ IF loop[daemon] = "new"
       THEN /\ loop' = [loop EXCEPT ![daemon] = "check"]
            /\ wanted' = (wanted \/ plain[c])
       ELSE UNCHANGED <<loop, wanted>>
    /\ UNCHANGED <<store, stopEvent, daemon, joining, controls, plain, errors>>
-----------------------------------------------------------------------------
(* stop_daemon                                                             *)

CallStop(c) ==
    /\ At(c, "idle", "set")
    /\ controls < MaxControls
    /\ controls' = controls + 1
    /\ stopEvent' = TRUE
    /\ plain' = [d \in Controllers |-> FALSE]
    /\ wanted' = FALSE
    /\ UNCHANGED <<store, daemon, joining, loop, errors>>

\* Reads the attribute; None: nothing to join, not started: join raises.
ReadThread(c) ==
    /\ IF daemon # NoThread /\ loop[daemon] # "new"
       THEN At(c, "set", "join") /\ joining' = [joining EXCEPT ![c] = daemon]
       ELSE At(c, "set", "idle") /\ UNCHANGED joining
    /\ UNCHANGED <<store, stopEvent, daemon, controls, plain, loop, errors, wanted>>

Joined(c) ==
    /\ At(c, "join", "idle")
    /\ loop[joining[c]] = "ended"
    /\ joining' = [joining EXCEPT ![c] = NoThread]
    /\ UNCHANGED <<store, stopEvent, daemon, controls, plain, loop, errors, wanted>>
-----------------------------------------------------------------------------
(* The loop: while not stopped, run_gc and wait.                           *)

Goes(t, from, to) == loop[t] = from /\ loop' = [loop EXCEPT ![t] = to]

CheckEvent_Bug(t) ==
    /\ Goes(t, "check", "ttl")
    /\ UNCHANGED <<store, control, errors, wanted>>

CheckEvent(t) ==
    /\ Goes(t, "check", IF stopEvent THEN "ended" ELSE "ttl")
    /\ UNCHANGED <<store, control, errors, wanted>>

\* collect_ttl_expired looks for vertices with a created_at, which create_node
\* never writes: nothing matches.
CollectTtlExpired(t) ==
    /\ Goes(t, "ttl", "zero")
    /\ UNCHANGED <<store, control, errors, wanted>>

\* The vertices without an incoming DEPENDS_ON edge.
ZeroDeps == {v \in vertices : ~\E u \in vertices : <<u, v>> \in dependsOn}

\* Nodes that a strategy version contains are spared.
CollectZeroDeps_Bug(t) ==
    /\ Goes(t, "zero", "wait")
    /\ DetachDelete({v \in ZeroDeps : ~\E s \in Versions : <<s, v>> \in contains})
    /\ UNCHANGED <<unique, call, writes, control, errors, wanted>>

\* collect_zero_deps deletes them, whether or not a version contains them.
CollectZeroDeps(t) ==
    /\ Goes(t, "zero", "wait")
    /\ DetachDelete(ZeroDeps)
    /\ UNCHANGED <<unique, call, writes, control, errors, wanted>>

\* The query fails: the DatabaseError is caught and counts as nothing deleted.
QueryFails(t) ==
    /\ errors < MaxErrors
    /\ errors' = errors + 1
    /\ Goes(t, "ttl", "zero") \/ Goes(t, "zero", "wait")
    /\ UNCHANGED <<store, control, wanted>>

\* pool.client() fails: the exception leaves run_gc and ends the thread.
PoolFails(t) ==
    /\ errors < MaxErrors
    /\ errors' = errors + 1
    /\ Goes(t, "ttl", "ended") \/ Goes(t, "zero", "ended")
    /\ wanted' = FALSE
    /\ UNCHANGED <<store, control>>

\* wait(interval_sec) returns: the time is up or the event is set.
Wake(t) ==
    /\ Goes(t, "wait", "check")
    /\ UNCHANGED <<store, control, errors, wanted>>

Collect(t) ==
    \/ CheckEvent(t) \/ CollectTtlExpired(t) \/ CollectZeroDeps(t)
    \/ QueryFails(t) \/ PoolFails(t) \/ Wake(t)

\* What a controller does after it called.
Control(c) ==
    \/ AlreadyRunning(c) \/ NotRunning(c) \/ ClearEvent(c) \/ AssignThread(c)
    \/ StartThread(c) \/ ReadThread(c) \/ Joined(c)

GcNext ==
    \/ \E c \in Callers : Write(c) /\ UNCHANGED <<control, loop, errors, wanted>>
    \/ \E c \in Controllers : CallStart(c) \/ CallStop(c) \/ Control(c)
    \/ \E t \in Threads : Collect(t)

GcSpec == GcInit /\ [][GcNext]_gcVars

\* Threads run on; a database call and a wait with a time limit return.
Fairness ==
    /\ \A c \in Controllers : WF_gcVars(Control(c))
    /\ \A t \in Threads : WF_gcVars(Collect(t))

FairSpec == GcSpec /\ Fairness
-----------------------------------------------------------------------------
(* Properties.                                                             *)

\* A start_daemon call that succeeded without a stop_daemon call beside it or
\* after it means that a collecting loop runs, whoever else starts the daemon
\* at the same time, unless a loop died of a failing pool.  (A call that found
\* the loop of an earlier start alive but told to stop promises nothing.)
StartTakesEffect == wanted => ~stopEvent /\ \E t \in Threads : Alive(t)

\* A stop reaches every loop, also one that _daemon_thread no longer names:
\* while the event stays set, all of them end.
StopReachesAll == stopEvent ~> (~stopEvent \/ \A t \in Threads : ~Alive(t))

\* Left alone, the collector takes the graph apart: every node goes that is not
\* on a cycle of DEPENDS_ON or below one, contained in a version or not.
Unravels ==
    <>[](WritersDone /\ \E t \in Threads : Alive(t)) => <>[](ZeroDeps = {})
=============================================================================
