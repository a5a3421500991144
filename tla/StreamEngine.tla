---------------------------- MODULE StreamEngine ----------------------------
(***************************************************************************)
(* ParallelExecutionEngine (sdk/execution/parallel_engine.py) with the     *)
(* streams it reads and writes (stream_processor.py, topic.py) and the     *)
(* history it keeps in Redis (state_manager.py).                           *)
(*                                                                         *)
(* Each node is an asyncio task, and an iteration of a task awaits only at *)
(* its end: `active` is the iteration in progress, beside which no other   *)
(* task moves.  Kafka, Redis, stop() from another thread and the death of  *)
(* the process do not wait for it.  What a node computes from a message is *)
(* named by the stamp of the source's result that it comes from, and has   *)
(* the offset (from 1) of the message it was computed from; a source       *)
(* numbers its results itself.                                             *)
(***************************************************************************)
EXTENDS Naturals, SequencesExt

CONSTANTS
    Nodes,
    Upstreams, \* Upstreams[n]: ProcessingNode.upstreams; {} for a source
    MaxItems,  \* max_history of the one interval of every node
    MaxStamp,  \* bound: results of sources
    MaxRuns,   \* bound: calls of execute_pipeline
    MaxErrors, \* bound: calls of Kafka, Redis or a node that fail
    None       \* not assigned; no iteration

ASSUME StreamAssumption ==
    /\ Upstreams \in [Nodes -> SUBSET Nodes]
    /\ MaxItems \in Nat \ {0}
    /\ {MaxStamp, MaxRuns, MaxErrors} \subseteq Nat
    /\ None \notin Nat

VARIABLES
    topic,     \* topic[n]: messages in n's output topic
    position,  \* position[n][u]: next message of u for n's consumer
    committed, \* committed[n][u]: offset of the group qmtl-n
    stored,    \* stored[n]: the list node:n:history, newest item first
    running,   \* self.running
    phase,     \* where execute_pipeline is
    tasks,     \* nodes whose task has not ended
    active,    \* the iteration in progress
    stamp,     \* results of sources so far
    run,       \* runs so far
    errors,    \* failures so far
    lost       \* history: <<n, stamp>> that flush gave up on

kafka == <<topic, committed, lost>>
bounds == <<stamp, run, errors>>
vars == <<kafka, position, stored, running, phase, tasks, active, bounds>>

Stamps == 1 .. MaxStamp
Messages == [stamp : Stamps, from : Nat, run : 0 .. MaxRuns]
Iterations == [node : Nodes, at : {"publish", "save"}, stamp : Stamps, from : Nat]
Offsets == Nat \cup {None}
Links == {l \in Nodes \X Nodes : l[2] \in Upstreams[l[1]]}
Sources == {n \in Nodes : Upstreams[n] = {}}
Unassigned == [l \in Links |-> None]

TypeOK ==
    /\ topic \in [Nodes -> Seq(Messages)]
    /\ position \in [Links -> Offsets] /\ committed \in [Links -> Offsets]
    /\ \A l \in Links : \A offset \in {position[l], committed[l]} \ {None} :
           offset <= Len(topic[l[2]])
    /\ stored \in [Nodes -> Seq(Stamps)]
    /\ \A n \in Nodes : Len(stored[n]) <= MaxItems
    /\ running \in BOOLEAN
    /\ phase \in {"idle", "prepared", "running", "collecting"}
    /\ tasks \in SUBSET Nodes
    /\ active \in Iterations \cup {None}
    /\ stamp \in 0 .. MaxStamp /\ run \in 0 .. MaxRuns /\ errors \in 0 .. MaxErrors
    /\ lost \in SUBSET (Nodes \X Stamps)

Init ==
    /\ topic = [n \in Nodes |-> <<>>]
    /\ position = Unassigned
    /\ committed = Unassigned
    /\ stored = [n \in Nodes |-> <<>>]
    /\ running = FALSE
    /\ phase = "idle"
    /\ tasks = {}
    /\ active = None
    /\ stamp = 0 /\ run = 0 /\ errors = 0
    /\ lost = {}

Fail == errors < MaxErrors /\ errors' = errors + 1
-----------------------------------------------------------------------------
(* execute_pipeline                                                        *)

\* prepare_pipeline: the order is computed and the topics are created.
Prepare ==
    /\ phase = "idle"
    /\ run < MaxRuns
    /\ run' = run + 1
    /\ phase' = "prepared"
    /\ UNCHANGED <<kafka, position, stored, running, tasks, active, stamp, errors>>

\* run_pipeline sets running, whatever stop() did before, and creates a task
\* and a consumer for each node.
StartTasks ==
    /\ phase = "prepared"
    /\ phase' = "running"
    /\ running' = TRUE
    /\ tasks' = Nodes
    /\ UNCHANGED <<kafka, position, stored, active, bounds>>

\* stop()
Stop ==
    /\ running' = FALSE
    /\ UNCHANGED <<kafka, position, stored, phase, tasks, active, bounds>>

\* Sources go on whatever stop() did.
TaskEnds_Bug(n) ==
    /\ n \in tasks \ Sources
    /\ ~running
    /\ active = None
    /\ tasks' = tasks \ {n}
    /\ UNCHANGED <<kafka, position, stored, running, phase, active, bounds>>

\* A task that finds running False leaves its loop.
TaskEnds(n) ==
    /\ n \in tasks
    /\ ~running
    /\ active = None
    /\ tasks' = tasks \ {n}
    /\ UNCHANGED <<kafka, position, stored, running, phase, active, bounds>>

\* gather returns, or wait_for cancels the tasks at the await each is at; their
\* consumers go with them.
TasksDone ==
    /\ phase = "running"
    /\ active = None
    /\ phase' = "collecting"
    /\ tasks' = {}
    /\ running' = FALSE
    /\ position' = Unassigned
    /\ UNCHANGED <<kafka, stored, active, bounds>>

\* The results are collected from node.interval_settings, which only query
\* nodes have: AttributeError, unless the pipeline has no nodes.
Collect ==
    /\ phase = "collecting"
    /\ phase' = "idle"
    /\ UNCHANGED <<kafka, position, stored, running, tasks, active, bounds>>

\* The process dies at any point; the next engine is a new object.
Crash ==
    /\ phase # "idle"
    /\ phase' = "idle"
    /\ running' = FALSE
    /\ tasks' = {}
    /\ active' = None
    /\ position' = Unassigned
    /\ UNCHANGED <<kafka, stored, bounds>>
-----------------------------------------------------------------------------
(* An iteration of _execute_node_async                                     *)

InLoop(n) == n \in tasks /\ running /\ active = None

Goto(at) == active' = [active EXCEPT !.at = at]

\* A source executes.
Execute(n) ==
    /\ InLoop(n)
    /\ n \in Sources
    /\ stamp < MaxStamp
    /\ stamp' = stamp + 1
    /\ active' = [node |-> n, at |-> "publish", stamp |-> stamp', from |-> stamp']
    /\ UNCHANGED <<kafka, position, stored, running, phase, tasks, run, errors>>

\* The group's first assignment starts at the end of the topic ("latest").
Assign(l) ==
    /\ InLoop(l[1])
    /\ position[l] = None
    /\ position' = [position EXCEPT ![l] =
           IF committed[l] = None THEN Len(topic[l[2]]) ELSE committed[l]]
    /\ UNCHANGED <<kafka, stored, running, phase, tasks, active, bounds>>

Consumable(l) == InLoop(l[1]) /\ position[l] # None /\ position[l] < Len(topic[l[2]])

\* The iteration of l[1] with the next message of l[2].
NextMessage(l) ==
    [node |-> l[1], at |-> "publish", stamp |-> topic[l[2]][position[l] + 1].stamp,
     from |-> position[l] + 1]

\* The inputs of other upstreams are not waited for.
Consume_Bug(l) ==
    /\ Consumable(l)
    /\ position' = [position EXCEPT ![l] = @ + 1]
    /\ active' = NextMessage(l)
    /\ UNCHANGED <<kafka, stored, running, phase, tasks, bounds>>

\* Polled again, the consumer gives the same message.
ConsumeAgain_Bug(l) ==
    /\ Consumable(l)
    /\ active' = IF Upstreams[l[1]] = {l[2]} THEN NextMessage(l) ELSE None
    /\ UNCHANGED <<kafka, position, stored, running, phase, tasks, bounds>>

\* consume gives one message, thus the input of one upstream: a node with more
\* than one drops it.
Consume(l) ==
    /\ Consumable(l)
    /\ position' = [position EXCEPT ![l] = @ + 1]
    /\ active' = IF Upstreams[l[1]] = {l[2]} THEN NextMessage(l) ELSE None
    /\ UNCHANGED <<kafka, stored, running, phase, tasks, bounds>>

AtStage(at) == active # None /\ active.at = at

\* produce and flush: delivered.
Publish ==
    /\ AtStage("publish")
    /\ topic' = [topic EXCEPT ![active.node] =
           Append(@, [stamp |-> active.stamp, from |-> active.from, run |-> run])]
    /\ Goto("save")
    /\ UNCHANGED <<committed, lost, position, stored, running, phase, tasks, bounds>>

\* flush gives up after five seconds, and the report is only logged.
PublishLost ==
    /\ AtStage("publish")
    /\ Fail
    /\ lost' = lost \cup {<<active.node, active.stamp>>}
    /\ Goto("save")
    /\ UNCHANGED <<topic, committed, position, stored, running, phase, tasks, stamp, run>>

\* The error is logged and the result still saved.
IterationFails_Bug ==
    /\ AtStage("publish")
    /\ Fail
    /\ Goto("save")
    /\ UNCHANGED <<kafka, position, stored, running, phase, tasks, stamp, run>>

\* The node or publish raises: the message is not seen again.
IterationFails ==
    /\ AtStage("publish")
    /\ Fail
    /\ active' = None
    /\ UNCHANGED <<kafka, position, stored, running, phase, tasks, stamp, run>>

\* save_history: LPUSH and LTRIM in one MULTI.  (The meta key it then sets
\* repeats the length for get_history_metadata, and the expiry of both keys, are
\* left out.)
SaveHistory ==
    /\ AtStage("save")
    /\ stored' = [stored EXCEPT ![active.node] =
           LET s == <<active.stamp>> \o @
           IN  SubSeq(s, 1, IF Len(s) < MaxItems THEN Len(s) ELSE MaxItems)]
    /\ active' = None
    /\ UNCHANGED <<kafka, position, running, phase, tasks, bounds>>

\* Redis fails: save_history logs, returns False, and nobody looks.
SaveFails ==
    /\ AtStage("save")
    /\ Fail
    /\ active' = None
    /\ UNCHANGED <<kafka, position, stored, running, phase, tasks, stamp, run>>
-----------------------------------------------------------------------------
(* Beside the engine                                                       *)

\* The consumer's automatic commit, of what poll has returned.
AutoCommit(l) ==
    /\ phase = "running"
    /\ position[l] # None
    /\ committed' = [committed EXCEPT ![l] = position[l]]
    /\ UNCHANGED <<topic, lost, position, stored, running, phase, tasks, active, bounds>>

Iterate ==
    \/ \E l \in Links : Assign(l) \/ Consume(l)
    \/ Publish \/ SaveHistory

Next ==
    \/ Prepare \/ StartTasks \/ Stop \/ TasksDone \/ Collect \/ Crash
    \/ \E n \in Nodes : TaskEnds(n) \/ Execute(n)
    \/ \E l \in Links : AutoCommit(l)
    \/ Iterate \/ PublishLost \/ IterationFails \/ SaveFails

Spec == Init /\ [][Next]_vars

\* The event loop gives every task its turn, Kafka assigns the partition and
\* calls return.
Fairness ==
    /\ WF_vars(Publish) /\ WF_vars(SaveHistory)
    /\ \A l \in Links : WF_vars(Assign(l)) /\ WF_vars(Consume(l))
    /\ \A n \in Nodes : WF_vars(TaskEnds(n))
    /\ WF_vars(TasksDone /\ tasks = {})

FairSpec == Spec /\ Fairness
-----------------------------------------------------------------------------
(* Properties.                                                             *)

\* Within one run a node works through the topic of its upstream in order and
\* publishes at most one result for each message, whatever fails or is lost on
\* the way.  (A later run may go back to the committed offset.)
OrderedWithinRun ==
    \A n \in Nodes : \A i, j \in DOMAIN topic[n] :
        (i < j /\ topic[n][i].run = topic[n][j].run) => topic[n][i].from < topic[n][j].from

\* What a node has in its history it has published, unless flush gave up on it:
\* an exception or the death of the process between the two never leaves a
\* result that downstream nodes were not sent.
SavedWasPublished ==
    \A n \in Nodes : \A s \in ToSet(stored[n]) :
        \/ <<n, s>> \in lost
        \/ \E m \in ToSet(topic[n]) : m.stamp = s

\* A node with two upstreams never executes: consume hands over one message,
\* and the inputs of an iteration are forgotten with it.
OnlyChainsRun ==
    \A n \in Nodes : Cardinality(Upstreams[n]) > 1 => topic[n] = <<>> /\ stored[n] = <<>>

\* While the engine runs on, every node catches up with its upstream topics.
CatchesUp ==
    <>[](phase = "running" /\ running) =>
        <>[](\A l \in Links : position[l] = Len(topic[l[2]]))

\* stop() during a run ends it.  (A stop() before the tasks are created is lost.)
StopEnds == (phase = "running" /\ ~running) ~> (phase # "running")
=============================================================================
