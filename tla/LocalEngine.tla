----------------------------- MODULE LocalEngine -----------------------------
(***************************************************************************)
(* Pipeline.execute with the LocalExecutionEngine (sdk/pipeline.py,        *)
(* sdk/execution/local.py).  Every execute makes an engine of its own, yet *)
(* history and _in_memory_cache are attributes of the class: all pipelines *)
(* of the process write them, under the node's name alone.  They hold the  *)
(* same items twice and are updated one after the other.  Before the       *)
(* engine runs, execute computes what the query nodes select.              *)
(* Pipelines run one at a time; what a node computes is the number of the  *)
(* run.  Names of nodes contain no colon.                                  *)
(***************************************************************************)
EXTENDS Naturals, SequencesExt

CONSTANTS
    Pipelines,  \* Pipeline objects
    Names,      \* names of nodes; pipelines may use the same ones
    Upstreams,  \* Upstreams[n]: the names node n names as upstreams
    Intervals,  \* the intervals there are
    Own,        \* Own[n]: the settings that a node named n is made with, by interval
    Defaults,   \* Defaults[p]: default_intervals of p
    Tags,       \* Tags[n]: tags of the node
    Queries,    \* Queries[q]: what the query node named q looks for
    Inputs,     \* the sets of names that callers give inputs for, or None
    Overrides,  \* lists of selectors that a caller passes to execute
    SaveLimit,  \* max_items a run saves with (100)
    MaxStamp,   \* bound: runs and saves from outside a run
    None        \* no run, no node, inputs=None, a query without that condition

QueryNames == DOMAIN Queries

ASSUME EngineAssumption ==
    /\ IsFiniteSet(Names) /\ None \notin Names
    /\ Upstreams \in [Names -> SUBSET Names]
    /\ Inputs \subseteq (SUBSET Names) \cup {None}
    /\ SaveLimit \in Nat \ {0} /\ MaxStamp \in Nat
    /\ DOMAIN Own = Names /\ DOMAIN Defaults = Pipelines
    /\ \A f \in {Own[n] : n \in Names} \cup {Defaults[p] : p \in Pipelines} :
          /\ DOMAIN f \subseteq Intervals
          /\ \A i \in DOMAIN f : f[i] \in [period : Nat, max : Nat \ {0}]

VARIABLES
    nodes,        \* nodes[p]: names in Pipeline.nodes
    queryNodes,   \* queryNodes[p]: names in Pipeline.query_nodes
    order,        \* order[p]: Pipeline.execution_order
    resultsCache, \* resultsCache[p]: results of the last run that succeeded
    history,      \* LocalExecutionEngine.history, newest item first
    cache,        \* LocalExecutionEngine._in_memory_cache
    run,          \* the execute_pipeline call in progress
    results,      \* names in the engine's results
    wrapped,      \* nodes whose fn is the time-checking wrapper
    stamp         \* runs and saves so far

pipes == <<nodes, queryNodes, order>>
stores == <<history, cache>>
vars == <<pipes, resultsCache, stores, run, results, wrapped, stamp>>

Sources == {n \in Names : Upstreams[n] = {}}
Keys == Names \X Intervals
Stamps == 1 .. MaxStamp
Answers == UNION {[N -> Stamps \cup {None}] : N \in SUBSET Names}
Items == [stamp : Stamps, expires : {"never", "later", "past"}]
Runs == [pipe : Pipelines, todo : Seq(Names), inputs : (SUBSET Names) \cup {None},
         timed : BOOLEAN, node : Names \cup {None}, query : [QueryNames -> Answers]]

ASSUME RunAssumption == None \notin Runs

\* An execution order that is kept is one of the nodes there are.
TypeOK ==
    /\ nodes \in [Pipelines -> SUBSET Names]
    /\ queryNodes \in [Pipelines -> SUBSET QueryNames]
    /\ order \in [Pipelines -> Seq(Names)]
    /\ \A p \in Pipelines : order[p] = <<>> \/ ToSet(order[p]) = nodes[p]
    /\ DOMAIN resultsCache = Pipelines
    /\ \A p \in Pipelines : \E N \in SUBSET Names : resultsCache[p] \in [N -> Stamps]
    /\ history \in [Keys -> Seq(Items)]
    /\ cache \in [Keys -> Seq(Items)]
    /\ run \in Runs \cup {None}
    /\ results \in SUBSET Names
    /\ wrapped \in SUBSET Names
    /\ stamp \in 0 .. MaxStamp

Init ==
    /\ nodes = [p \in Pipelines |-> {}]
    /\ queryNodes = [p \in Pipelines |-> {}]
    /\ order = [p \in Pipelines |-> <<>>]
    /\ resultsCache = [p \in Pipelines |-> <<>>]
    /\ history = [k \in Keys |-> <<>>]
    /\ cache = [k \in Keys |-> <<>>]
    /\ run = None
    /\ results = {}
    /\ wrapped = {}
    /\ stamp = 0
-----------------------------------------------------------------------------
(* Pipeline                                                                *)

\* _apply_default_intervals: the settings that a node has in p.  An interval it
\* lacks is taken over, and so is the period where its own is 1.
Applied(p, n) ==
    [i \in DOMAIN Own[n] \cup DOMAIN Defaults[p] |->
        IF i \notin DOMAIN Own[n] THEN Defaults[p][i]
        ELSE IF i \in DOMAIN Defaults[p] /\ Own[n][i].period = 1
             THEN [Own[n][i] EXCEPT !.period = Defaults[p][i].period]
             ELSE Own[n][i]]

\* The order computed before stays.
AddNode_Bug(p, n) ==
    /\ run = None
    /\ n \notin nodes[p]
    /\ DOMAIN Applied(p, n) # {}
    /\ nodes' = [nodes EXCEPT ![p] = @ \cup {n}]
    /\ UNCHANGED <<queryNodes, order, resultsCache, stores, run, results, wrapped, stamp>>

\* add_node; a name that is there raises, and so does a node without intervals.
AddNode(p, n) ==
    /\ run = None
    /\ n \notin nodes[p]
    /\ DOMAIN Applied(p, n) # {}
    /\ nodes' = [nodes EXCEPT ![p] = @ \cup {n}]
    /\ order' = [order EXCEPT ![p] = <<>>]
    /\ UNCHANGED <<queryNodes, resultsCache, stores, run, results, wrapped, stamp>>

\* add_query_node, of a node without intervals of its own.
AddQueryNode(p, q) ==
    /\ run = None
    /\ q \notin nodes[p] \cup queryNodes[p]
    /\ DOMAIN Defaults[p] # {}
    /\ queryNodes' = [queryNodes EXCEPT ![p] = @ \cup {q}]
    /\ order' = [order EXCEPT ![p] = <<>>]
    /\ UNCHANGED <<nodes, resultsCache, stores, run, results, wrapped, stamp>>

\* _topological_sort gives one of these; there is none, and it raises, if an
\* upstream is missing or a cycle exists.
Orders(N) ==
    {s \in SetToSeqs(N) :
        \A i \in 1 .. Len(s) : Upstreams[s[i]] \subseteq {s[j] : j \in 1 .. i - 1}}

\* get_execution_order, and the start of execute.
Ordered(p) ==
    IF order[p] = <<>>
    THEN \E s \in Orders(nodes[p]) : order' = [order EXCEPT ![p] = s]
    ELSE UNCHANGED order

\* find_nodes_by_query: all the tags, and the interval and the period, which may
\* be those of two different settings.
FindNodesByQuery(p, query) ==
    {n \in nodes[p] :
        /\ query.tags \subseteq Tags[n]
        /\ query.interval \in DOMAIN Applied(p, n) \cup {None}
        /\ query.period \in {Applied(p, n)[i].period : i \in DOMAIN Applied(p, n)} \cup {None}}

\* A condition of filter_meta: an attribute with its value, intervals with their
\* periods, or a period that some interval has.
Meets(p, n, condition) ==
    CASE condition.on = "tags" -> Tags[n] = condition.value
      [] condition.on = "stream_settings" ->
            \A i \in DOMAIN condition.value :
                i \in DOMAIN Applied(p, n) /\ Applied(p, n)[i].period = condition.value[i]
      [] condition.on = "interval_settings" ->
            \E i \in DOMAIN Applied(p, n) : Applied(p, n)[i].period = condition.value

\* Conditions count up to the first one about settings: meeting that is enough.
Matches(p, n, meta) ==
    \A k \in DOMAIN meta :
        (\A j \in 1 .. k - 1 : meta[j].on = "tags") => Meets(p, n, meta[k])

\* What apply_selectors may make of the nodes N, one selector after the other.
\* Modes "list" and "batch" leave the list as it is.
ApplySelectors(p, N, selectors) ==
    FoldLeft(LAMBDA possible, selector :
                 CASE selector.mode = "random" ->
                        UNION {kSubset(Min({selector.size, Cardinality(M)}), M) : M \in possible}
                   [] selector.mode = "filter" ->
                        {{n \in M : Matches(p, n, selector.meta)} : M \in possible}
                   [] OTHER -> possible,
             {N}, selectors)

\* Selectors given to execute go before those of the query node.
Selections(p, q, override) ==
    ApplySelectors(p, FindNodesByQuery(p, Queries[q]),
                   IF override = None THEN Queries[q].selectors ELSE override)

\* A selected node's result: the one of the last run that succeeded, or else of
\* an execution for the query, whose exceptions count as None.
QueryResult(p, n) ==
    IF n \in DOMAIN resultsCache[p] THEN {resultsCache[p][n]} ELSE {stamp', None}

Prepared(p, n) == n \in DOMAIN resultsCache[p] \/ Upstreams[n] \subseteq DOMAIN resultsCache[p]

\* execute: the query nodes first.  Results start as a copy of the inputs.
Execute(p, inputs, timed, override) ==
    /\ run = None
    /\ stamp < MaxStamp
    /\ stamp' = stamp + 1
    /\ Ordered(p)
    /\ \E chosen \in [queryNodes[p] -> SUBSET nodes[p]] :
          /\ \A q \in queryNodes[p] :
                chosen[q] \in Selections(p, q, override) /\ \A n \in chosen[q] : Prepared(p, n)
          /\ \E query \in [QueryNames -> Answers] :
                /\ \A q \in QueryNames :
                      /\ DOMAIN query[q] = IF q \in queryNodes[p] THEN chosen[q] ELSE {}
                      /\ \A n \in DOMAIN query[q] : query[q][n] \in QueryResult(p, n)
                /\ run' = [pipe |-> p, todo |-> order'[p], inputs |-> inputs, timed |-> timed,
                           node |-> None, query |-> query]
    /\ results' = IF inputs = None THEN {} ELSE inputs
    /\ UNCHANGED <<nodes, queryNodes, resultsCache, stores, wrapped>>

\* A selected node whose upstreams have no results: execute raises.
QueryRaises(p, override) ==
    /\ run = None
    /\ \E q \in queryNodes[p] : \E N \in Selections(p, q, override) :
          \E n \in N : ~Prepared(p, n)
    /\ Ordered(p)
    /\ UNCHANGED <<nodes, queryNodes, resultsCache, stores, run, results, wrapped, stamp>>
-----------------------------------------------------------------------------
(* execute_pipeline, with the next node of the order                       *)

NextNode == Head(run.todo)
AtNode == run # None /\ run.node = None /\ run.todo # <<>>

\* A node without upstreams is not executed if inputs are given: it is its own
\* result, or has none.
Given(n) == run.inputs # None /\ n \in Sources

PassSource ==
    /\ AtNode
    /\ Given(NextNode)
    /\ run' = [run EXCEPT !.todo = Tail(@)]
    /\ UNCHANGED <<pipes, resultsCache, stores, results, wrapped, stamp>>

\* The inputs are there: with a timeout, fn is replaced by a wrapper.
StartNode ==
    /\ AtNode
    /\ ~Given(NextNode)
    /\ Upstreams[NextNode] \subseteq results
    /\ run' = [run EXCEPT !.node = NextNode]
    /\ wrapped' = IF run.timed THEN wrapped \cup {NextNode} ELSE wrapped
    /\ UNCHANGED <<pipes, resultsCache, stores, results, stamp>>

\* The call ends with an exception; what is saved stays saved, and the
\* pipeline keeps the results of its last success.
Abort == run' = None /\ results' = {}

\* An upstream has no result, or the time is up between two nodes.
StopsBefore ==
    /\ AtNode
    /\ run.timed \/ (~Given(NextNode) /\ ~(Upstreams[NextNode] \subseteq results))
    /\ Abort
    /\ UNCHANGED <<pipes, resultsCache, stores, wrapped, stamp>>

\* fn raised: it is not put back.
NodeRaises_Bug ==
    /\ run # None
    /\ run.node # None
    /\ Abort
    /\ UNCHANGED <<pipes, resultsCache, stores, wrapped, stamp>>

\* fn raised, or returned when the time was up: no history of its result.
NodeRaises ==
    /\ run # None
    /\ run.node # None
    /\ wrapped' = wrapped \ {run.node}
    /\ Abort
    /\ UNCHANGED <<pipes, resultsCache, stores, stamp>>

Item(expires) == [stamp |-> stamp', expires |-> expires]

First(s, k) == SubSeq(s, 1, IF Len(s) < k THEN Len(s) ELSE k)

\* The newest item is put at the end of the list.
Saved_Bug(f, K, item, limit) == [k \in Keys |-> IF k \in K THEN First(Append(f[k], item), limit) ELSE f[k]]

\* What save_interval_data does to one store, for the keys K.
Saved(f, K, item, limit) == [k \in Keys |-> IF k \in K THEN First(<<item>> \o f[k], limit) ELSE f[k]]

Save(K, item, limit) ==
    /\ cache' = Saved(cache, K, item, limit)
    /\ history' = Saved(history, K, item, limit)

\* fn returned: the result is recorded and saved for every interval.
NodeReturns ==
    /\ run # None
    /\ run.node # None
    /\ wrapped' = wrapped \ {run.node}
    /\ results' = results \cup {run.node}
    /\ run' = [run EXCEPT !.todo = Tail(@), !.node = None]
    /\ UNCHANGED <<pipes, resultsCache, stamp>>
    /\ Save({run.node} \X DOMAIN Applied(run.pipe, run.node), Item("never"), SaveLimit)

\* max_history, applied to the nodes of the pipeline when the run is over.
Truncated(f) ==
    [k \in Keys |-> IF k[1] \in nodes[run.pipe] /\ k[2] \in DOMAIN Applied(run.pipe, k[1])
                    THEN First(f[k], Applied(run.pipe, k[1])[k[2]].max) ELSE f[k]]

\* The results are added to those of earlier runs.
Finish_Bug ==
    /\ run # None
    /\ run.todo = <<>>
    /\ history' = Truncated(history)
    /\ cache' = Truncated(cache)
    /\ resultsCache' = [resultsCache EXCEPT ![run.pipe] = [n \in results |-> stamp] @@ @]
    /\ Abort
    /\ UNCHANGED <<pipes, wrapped, stamp>>

\* The results replace those of the last run; the query nodes' go to the caller.
Finish ==
    /\ run # None
    /\ run.todo = <<>>
    /\ history' = Truncated(history)
    /\ cache' = Truncated(cache)
    /\ resultsCache' = [resultsCache EXCEPT ![run.pipe] = [n \in results |-> stamp]]
    /\ Abort
    /\ UNCHANGED <<pipes, wrapped, stamp>>
-----------------------------------------------------------------------------
(* The class-level stores, between runs                                    *)

Idle == run = None /\ UNCHANGED <<pipes, resultsCache, run, results, wrapped>>

\* save_interval_data called with a time to live.
SaveIntervalData(k) ==
    /\ Idle
    /\ stamp < MaxStamp
    /\ stamp' = stamp + 1
    /\ \E limit \in 1 .. SaveLimit : Save({k}, Item("later"), limit)

\* Time goes on.
Expire ==
    LET Older(s) == [i \in DOMAIN s |->
                        [s[i] EXCEPT !.expires = IF @ = "later" THEN "past" ELSE @]]
    IN  /\ Idle
        /\ history' = [k \in Keys |-> Older(history[k])]
        /\ cache' = [k \in Keys |-> Older(cache[k])]
        /\ UNCHANGED stamp

\* The places of the items in s that have not expired.
Unexpired(s) == {i \in DOMAIN s : s[i].expires # "past"}

\* Those items, in their order: the k-th one is the one with k places up to its own.
Live(s) ==
    [k \in 1 .. Cardinality(Unexpired(s)) |->
        s[CHOOSE i \in Unexpired(s) : Cardinality({j \in Unexpired(s) : j <= i}) = k]]

\* _cleanup_expired_data
CleanupExpiredData ==
    /\ Idle
    /\ history' = [k \in Keys |-> Live(history[k])]
    /\ cache' = [k \in Keys |-> Live(cache[k])]
    /\ UNCHANGED stamp

\* Clearing one interval of all nodes leaves the history alone.
ClearCache_Bug(N, I) ==
    /\ Idle
    /\ cache' = [k \in Keys |-> IF k \in N \X I THEN <<>> ELSE cache[k]]
    /\ history' = IF N = Names /\ I # Intervals THEN history
                  ELSE [k \in Keys |-> IF k \in N \X I THEN <<>> ELSE history[k]]
    /\ UNCHANGED stamp

\* clear_cache of one node or all, one interval or all.
ClearCache(N, I) ==
    /\ Idle
    /\ history' = [k \in Keys |-> IF k \in N \X I THEN <<>> ELSE history[k]]
    /\ cache' = [k \in Keys |-> IF k \in N \X I THEN <<>> ELSE cache[k]]
    /\ UNCHANGED stamp

Next ==
    \/ \E p \in Pipelines :
          \/ \E n \in Names : AddNode(p, n)
          \/ \E q \in QueryNames : AddQueryNode(p, q)
          \/ \E override \in Overrides \cup {None} :
                \/ \E inputs \in Inputs, timed \in BOOLEAN :
                      Execute(p, inputs, timed, override)
                \/ QueryRaises(p, override)
    \/ PassSource \/ StartNode \/ StopsBefore \/ NodeRaises \/ NodeReturns \/ Finish
    \/ \E k \in Keys : SaveIntervalData(k)
    \/ Expire
    \/ CleanupExpiredData
    \/ \E N \in {Names} \cup {{n} : n \in Names}, I \in {Intervals} \cup {{i} : i \in Intervals} :
          ClearCache(N, I)

Spec == Init /\ [][Next]_vars
-----------------------------------------------------------------------------
(* Reads                                                                   *)

\* get_interval_data: the history, or the cache if it has none.
GetIntervalData(k, limit) ==
    First(Live(IF history[k] # <<>> THEN history[k] ELSE cache[k]), limit)

\* get_node_metadata: per interval with items their number and the times of the
\* newest and the oldest, expired ones included.
GetNodeMetadata(n) ==
    LET Kept(i) == IF history[<<n, i>>] # <<>> THEN history[<<n, i>>] ELSE cache[<<n, i>>]
    IN  [i \in {j \in Intervals : Kept(j) # <<>>} |->
            [count |-> Len(Kept(i)), latest |-> Head(Kept(i)).stamp,
             oldest |-> Last(Kept(i)).stamp]]
-----------------------------------------------------------------------------
(* Properties.                                                             *)

\* The two stores agree on every node and interval, whatever runs fail midway,
\* are truncated, expire or are cleared: get_interval_data and get_node_metadata
\* read one of them and fall back on the other.
StoresAgree == history = cache

\* What is read is in the order it was saved, the newest first, although several
\* pipelines and callers save under one name and clean-ups drop items between;
\* and it lies within the times and the number that the metadata tell.
NewestFirst ==
    \A n \in Names, i \in Intervals, limit \in 1 .. SaveLimit :
        LET s == GetIntervalData(<<n, i>>, limit)
            m == GetNodeMetadata(n)
        IN  /\ \A j, k \in DOMAIN s : j < k => s[j].stamp > s[k].stamp
            /\ s # <<>> => /\ i \in DOMAIN m /\ Len(s) <= m[i].count
                           /\ Head(s).stamp <= m[i].latest /\ m[i].oldest <= Last(s).stamp

\* What a query node tells of another node is the result of the pipeline's last
\* run that succeeded, or was computed for this call, never of a run before.
QueryOneRunBehind ==
    run # None =>
        \A q \in QueryNames : \A n \in DOMAIN run.query[q] :
            LET cached == resultsCache[run.pipe]
            IN  run.query[q][n] \in {stamp, None} \cup
                    (IF cached = <<>> THEN {} ELSE {Max({cached[m] : m \in DOMAIN cached})})

\* Outside a node's execution no node has the time-checking wrapper as its fn,
\* however the execution ended: a later run would check a clock of the past.
FnRestored == wrapped = IF run = None THEN {} ELSE wrapped \cap {run.node}

\* A run that succeeds has a result for every node with upstreams, also for the
\* nodes added since the execution order was last computed.
CompleteResults ==
    [][\A p \in Pipelines : resultsCache'[p] # resultsCache[p] =>
          nodes[p] \ Sources \subseteq DOMAIN resultsCache'[p]]_vars
=============================================================================
