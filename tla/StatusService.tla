---------------------------- MODULE StatusService ----------------------------
(***************************************************************************)
(* The status service (dag_manager/execution/status_service.py): one       *)
(* process-wide object whose methods each hold one RLock, so that a call   *)
(* of any thread is one step.  A stored message is turned into a dict,     *)
(* changed and parsed back; MessageToDict names its keys in camelCase, the *)
(* updates in snake_case, so ParseDict may see a field twice.  For the     *)
(* optional fields of NodeStatus (a synthetic oneof) that is an error.     *)
(***************************************************************************)
EXTENDS Naturals, FiniteSets, Functions

CONSTANTS
    Pipelines, \* values of pipeline_id
    Nodes,     \* values of node_id
    Own,       \* a key of a result that update_pipeline_status is given
    MaxCalls   \* bound: calls of the service; also the clock

ASSUME StatusAssumption == MaxCalls \in Nat /\ Own \notin Nodes /\ IsFiniteSet(Nodes)

VARIABLES
    pipelines, \* pipelines[p], for the p in the dict
    nodes,     \* nodes[p][n]
    calls,     \* calls so far
    outcome    \* what the last call returned or raised

status == <<pipelines, nodes>>
vars == <<status, calls, outcome>>

Ended == {"COMPLETED", "FAILED"}
Statuses == {"PENDING", "RUNNING"} \cup Ended
Never == 0  \* a time that is not set
Times == 0 .. MaxCalls
now == calls + 1

NodeStatuses == [status : Statuses, start : Times, end : Times]
PipelineStatuses ==
    [status : Statuses, progress : 0 .. 100, end : Times, update : Times,
     result : SUBSET (Nodes \cup {Own})]

\* The stored values; the two dicts have the same keys.
TypeOK ==
    /\ \E P \in SUBSET Pipelines :
          /\ pipelines \in [P -> PipelineStatuses]
          /\ DOMAIN nodes = P
          /\ \A p \in P : \E N \in SUBSET Nodes : nodes[p] \in [N -> NodeStatuses]
    /\ calls \in 0 .. MaxCalls
    /\ outcome \in {"ok", "ValueError", "StatusServiceError", "TypeError"}

Init ==
    /\ pipelines = <<>>
    /\ nodes = <<>>
    /\ calls = 0
    /\ outcome = "ok"
-----------------------------------------------------------------------------
Call(o) == calls < MaxCalls /\ calls' = calls + 1 /\ outcome' = o

Raise(error) == Call(error) /\ UNCHANGED status

Put(f, p, value) == [q \in DOMAIN f \cup {p} |-> IF q = p THEN value ELSE f[q]]
Drop(f, p) == Restrict(f, DOMAIN f \ {p})

PendingNode == [status |-> "PENDING", start |-> Never, end |-> Never]

\* initialize_pipeline, also of an id that is there: everything starts over.
InitializePipeline(p, N) ==
    /\ Call("ok")
    /\ pipelines' = Put(pipelines, p,
           [status |-> "PENDING", progress |-> 0, end |-> Never, update |-> now,
            result |-> {}])
    /\ nodes' = Put(nodes, p, [n \in N |-> PendingNode])

UpdatedPipeline(old, st, result) ==
    [status |-> st, update |-> now, result |-> result,
     end |-> IF st \in Ended THEN now ELSE old.end,
     progress |-> IF st = "COMPLETED" THEN 100 ELSE old.progress]

\* update_pipeline_status; a dict result replaces the one that is stored.
UpdatePipelineStatus(p, st) ==
    /\ p \in DOMAIN pipelines
    /\ Call("ok")
    /\ \E result \in {pipelines[p].result, {Own}} :
          pipelines' = [pipelines EXCEPT ![p] = UpdatedPipeline(@, st, result)]
    /\ UNCHANGED nodes

\* An unknown id is a ValueError; a result that is not a dict cannot be parsed
\* into the map field.
PipelineUpdateRaises(p) ==
    \/ p \notin DOMAIN pipelines /\ Raise("ValueError")
    \/ p \in DOMAIN pipelines /\ Raise("StatusServiceError")
-----------------------------------------------------------------------------
Known(p, n) == p \in DOMAIN nodes /\ n \in DOMAIN nodes[p]

Count(f, S) == Cardinality({n \in DOMAIN f : f[n].status \in S})

\* The share of the nodes that have ended, the running ones counted half.
Progress(f) ==
    (100 * (2 * Count(f, Ended) + Count(f, {"RUNNING"}))) \div (2 * Cardinality(DOMAIN f))

\* The nodes' share as it was before the change.
UpdateProgress_Bug(p) ==
    pipelines' = [pipelines EXCEPT ![p].progress = Progress(nodes[p]), ![p].update = now]

\* _update_pipeline_progress, of a pipeline that has the node just updated.
UpdateProgress(p) ==
    pipelines' = [pipelines EXCEPT ![p].progress = Progress(nodes'[p]), ![p].update = now]

FieldTwice_Bug(old, st) == FALSE

\* A time that is stored and set once more: "startTime" beside "start_time".
FieldTwice(old, st) ==
    \/ st = "RUNNING" /\ old.start # Never
    \/ st \in Ended /\ old.end # Never

UpdatedNode(old, st) ==
    [status |-> st,
     start |-> IF st = "RUNNING" THEN now ELSE old.start,
     end |-> IF st \in Ended THEN now ELSE old.end]

\* update_node_status without a result.
UpdateNodeStatus(p, n, st) ==
    /\ Known(p, n)
    /\ ~FieldTwice(nodes[p][n], st)
    /\ Call("ok")
    /\ nodes' = [nodes EXCEPT ![p][n] = UpdatedNode(@, st)]
    /\ UpdateProgress(p)

\* The node is written before the pipeline's result is parsed.
UpdateNodeText_Bug(p, n, st) ==
    /\ Known(p, n)
    /\ Call("StatusServiceError")
    /\ nodes' = [nodes EXCEPT ![p][n] = UpdatedNode(@, st)]
    /\ pipelines' = [pipelines EXCEPT ![p].result = @ \cup {n}]

\* update_node_status with a result that is not a dict: it is stored in the
\* pipeline's result, then the map field of the node refuses it.
UpdateNodeText(p, n, st) ==
    /\ Known(p, n)
    /\ Call("StatusServiceError")
    /\ pipelines' = [pipelines EXCEPT ![p].result = @ \cup {n}]
    /\ UNCHANGED nodes

\* Unknown ids; a dict result, which is not a value of the pipeline's result
\* map; a time that would be set again.
NodeUpdateRaises(p, n, st) ==
    \/ ~Known(p, n) /\ Raise("ValueError")
    \/ Known(p, n) /\ Raise("StatusServiceError")
-----------------------------------------------------------------------------
\* cleanup_pipeline
CleanupPipeline(p) ==
    /\ Call("ok")
    /\ pipelines' = Drop(pipelines, p)
    /\ nodes' = Drop(nodes, p)

\* cleanup_old_pipelines compares a Timestamp with a datetime.
CleanupOldPipelines ==
    IF DOMAIN pipelines = {} THEN Raise("ok") ELSE Raise("TypeError")

Next ==
    \/ \E p \in Pipelines :
          \/ \E N \in SUBSET Nodes : InitializePipeline(p, N)
          \/ \E st \in Statuses : UpdatePipelineStatus(p, st)
          \/ PipelineUpdateRaises(p)
          \/ \E n \in Nodes, st \in Statuses :
                UpdateNodeStatus(p, n, st) \/ UpdateNodeText(p, n, st)
                                           \/ NodeUpdateRaises(p, n, st)
          \/ CleanupPipeline(p)
    \/ CleanupOldPipelines

Spec == Init /\ [][Next]_vars
-----------------------------------------------------------------------------
(* Properties.                                                             *)

\* Through any sequence of updates, re-initializations and failed calls, the
\* progress a reader sees is the one of the nodes' statuses, or the 100 that
\* update_pipeline_status sets for a COMPLETED pipeline.
ProgressAgrees ==
    \A p \in DOMAIN pipelines :
        \/ pipelines[p].progress = 100
        \/ DOMAIN nodes[p] = {} /\ pipelines[p].progress = 0
        \/ DOMAIN nodes[p] # {} /\ pipelines[p].progress = Progress(nodes[p])

\* The first start and the first end of a node are kept until its pipeline is
\* initialized again or cleaned up: a later report of the same kind is refused.
KeepsTimes(p, n) ==
    LET old == nodes[p][n] new == nodes'[p][n] IN
    /\ old.start = Never \/ new.start = old.start
    /\ old.end = Never \/ new.end = old.end

TimesKept ==
    [][\A p \in DOMAIN nodes \cap DOMAIN nodes' :
          \/ \E N \in SUBSET Nodes : InitializePipeline(p, N)
          \/ \A n \in DOMAIN nodes[p] : KeepsTimes(p, n)]_vars

\* A call that raises leaves every node's status and the progress as they
\* were, though update_node_status fails between its two writes: only the
\* pipeline's result may have moved on.
RaiseChangesNoStatus ==
    [][outcome' = "ok" \/
          /\ nodes' = nodes
          /\ \A p \in DOMAIN pipelines :
                pipelines'[p] = [pipelines[p] EXCEPT !.result = pipelines'[p].result]]_vars
=============================================================================
