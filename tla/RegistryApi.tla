----------------------------- MODULE RegistryApi -----------------------------
(***************************************************************************)
(* The Registry API (dag_manager/registry/api.py, api_callback.py) over    *)
(* the in-memory node service and the callback service, and its callers:   *)
(* RegistryClient (registry_client.py) and other HTTP clients.             *)
(*                                                                         *)
(* A handler is a coroutine without an await once it runs, so it is one    *)
(* step of the event loop.  unregister_callback is a plain function: it    *)
(* runs in a worker thread beside the loop and other such threads.  A call *)
(* may be handled late, after its caller gave up, or never.                *)
(***************************************************************************)
EXTENDS NodeRegistry

CONSTANTS
    KnownStrategies, \* versions that the strategy service in use knows; the one
                     \* in the repository knows none, tests put in one that does
    Urls,            \* callback targets
    Requests,        \* the requests that are made, a set of RequestType
    MaxCalls,        \* bound: calls in a behaviour
    MaxWaiting,      \* bound: callers that wait at the same time
    MaxTimeouts,     \* bound: callers that give up
    NoRequest        \* a call that was not made yet

Calls == 1 .. MaxCalls

RequestType ==
    [op : {"create"}, node : NodeIds, arg : Seq(NodeIds)]
        \cup [op : {"malformed", "delete"}, node : NodeIds, arg : {NoRequest}]
        \cup [op : {"link", "unlink"}, node : NodeIds, arg : Strategies]
        \cup [op : {"dep", "undep"}, node : NodeIds, arg : NodeIds]
        \cup [op : {"status"}, node : NodeIds, arg : Statuses]
        \cup [op : {"register", "unregister"}, node : NodeIds, arg : Urls]

ASSUME ApiAssumption ==
    /\ KnownStrategies \subseteq Strategies
    /\ Requests \subseteq RequestType
    /\ NoRequest \notin RequestType
    /\ MaxCalls \in Nat
    /\ MaxTimeouts \in Nat

VARIABLES
    callbacks, \* _callbacks: registrations, each named by the call that made it
    request,   \* request[i]: what call i asks for
    served,    \* served[i]: "no", in a worker "thread", or "done"
    held,      \* held[i]: the filtered list a worker thread has not stored yet
    code,      \* code[i]: the HTTP status of the answer to call i
    result,    \* result[i]: what the caller of call i got
    timeouts,  \* callers that gave up so far
    clean      \* history: call i was done with no conflicting call under way since

callers == <<request, served, held, code, result, timeouts, clean>>
vars == <<registry, callbacks, callers>>

Codes == {0, 200, 201, 404, 422, 500}

TypeOK ==
    /\ RegistryTypeOK
    /\ callbacks \in SUBSET Calls
    /\ request \in [Calls -> RequestType \cup {NoRequest}]
    /\ served \in [Calls -> {"no", "thread", "done"}]
    /\ held \in [Calls -> SUBSET Calls]
    /\ code \in [Calls -> Codes]
    /\ result \in [Calls -> {"none", "waiting", "ok", "false", "raised"}]
    /\ timeouts \in 0 .. MaxTimeouts
    /\ clean \in [Calls -> BOOLEAN]
    /\ \A i \in callbacks : request[i] # NoRequest /\ request[i].op = "register"

Init ==
    /\ RegistryInit
    /\ callbacks = {}
    /\ request = [i \in Calls |-> NoRequest]
    /\ served = [i \in Calls |-> "no"]
    /\ held = [i \in Calls |-> {}]
    /\ code = [i \in Calls |-> 0]
    /\ result = [i \in Calls |-> "none"]
    /\ timeouts = 0
    /\ clean = [i \in Calls |-> FALSE]
-----------------------------------------------------------------------------
(* Which calls may undo what which other call did.                         *)

\* r asks for the end of something that the request q established.
Undoes(r, q) ==
    \/ /\ r.node = q.node
       /\ \/ q.op = "create" /\ r.op = "delete"
          \/ q.op = "delete" /\ r.op = "create"
          \/ q.op = "link" /\ (r.op = "delete" \/ r = [q EXCEPT !.op = "unlink"])
          \/ q.op = "unlink" /\ r = [q EXCEPT !.op = "link"]
          \/ q.op = "dep" /\ (r.op \in {"create", "delete"} \/ r = [q EXCEPT !.op = "undep"])
          \/ q.op = "status" /\ r.op = "status" /\ r # q
          \/ q.op = "register" /\ r = [q EXCEPT !.op = "unregister"]
          \/ q.op = "unregister" /\ r = [q EXCEPT !.op = "register"]

\* While r is under way it may swallow what q does: unregister_callback stores
\* a list it filtered before.
Races(r, q) ==
    Undoes(r, q) \/ (r.op = "unregister" /\ q.op \in {"register", "unregister"} /\ r.node = q.node)

UnderWay(i) == request[i] # NoRequest /\ served[i] # "done"

\* Call i is done: from now on its effect should last.
Done(i, status) ==
    /\ served' = [served EXCEPT ![i] = "done"]
    /\ code' = [code EXCEPT ![i] = status]
    /\ clean' = [clean EXCEPT ![i] =
           ~\E j \in Calls \ {i} : UnderWay(j) /\ Races(request[j], request[i])]
    /\ UNCHANGED <<request, result, timeouts>>

Unread(i, op) == request[i] # NoRequest /\ request[i].op = op /\ served[i] = "no"

\* The handler of call i runs on the event loop and answers with `status`.
Answered(i, status) == Done(i, status) /\ UNCHANGED <<callbacks, held>>
-----------------------------------------------------------------------------
(* The handlers.                                                           *)

Create(i) ==
    /\ Unread(i, "create")
    /\ request[i].arg = <<>>
    /\ CreateNode(request[i].node, request[i].arg)
    /\ Answered(i, 201)

\* A body that ParseDict or validate_node refuses, among them every one with
\* dependencies: the repeated field of a message is no list.  And every body of
\* the internal route, whose DataNode objects are no dicts.
Refuse(i) ==
    /\ \/ Unread(i, "malformed") /\ \E status \in {422, 500} : Answered(i, status)
       \/ Unread(i, "create") /\ request[i].arg # <<>> /\ Answered(i, 422)
    /\ UNCHANGED registry

\* The handlers that look the node up first answer 404 and do nothing else.
Missing(i) ==
    /\ request[i] # NoRequest
    /\ served[i] = "no"
    /\ LET r == request[i]
       IN  \/ r.op \in {"delete", "link", "dep", "undep"} /\ r.node \notin nodes
           \/ r.op = "link" /\ r.arg \notin KnownStrategies
           \/ r.op \in {"dep", "undep"} /\ r.arg \notin nodes
    /\ Answered(i, 404)
    /\ UNCHANGED registry

Delete(i) ==
    /\ Unread(i, "delete")
    /\ request[i].node \in nodes
    /\ DeleteNode(request[i].node)
    /\ Answered(i, 200)

AddNodeToStrategy(i) ==
    /\ Unread(i, "link")
    /\ request[i].node \in nodes
    /\ request[i].arg \in KnownStrategies
    /\ AddContains(request[i].arg, request[i].node)
    /\ Answered(i, 200)

\* Nothing is looked up: it answers 200 whatever there was.
RemoveNodeFromStrategy(i) ==
    /\ Unread(i, "unlink")
    /\ RemoveContains(request[i].arg, request[i].node)
    /\ Answered(i, 200)

UpdateStatus(i) ==
    /\ Unread(i, "status")
    /\ UpdateNodeStatus(request[i].node, request[i].arg)
    /\ Answered(i, 200)

AddNodeDependency(i) ==
    /\ Unread(i, "dep")
    /\ {request[i].node, request[i].arg} \subseteq nodes
    /\ AddDependency(request[i].node, request[i].arg)
    /\ Answered(i, 200)

RemoveNodeDependency(i) ==
    /\ Unread(i, "undep")
    /\ {request[i].node, request[i].arg} \subseteq nodes
    /\ RemoveDependency(request[i].node, request[i].arg)
    /\ Answered(i, 200)

\* register_callback appends to the list that is there.
RegisterCallback(i) ==
    /\ Unread(i, "register")
    /\ callbacks' = callbacks \cup {i}
    /\ Done(i, 200)
    /\ UNCHANGED <<registry, held>>

\* Registrations of the same node; there is one callback type.
ListOf(n) == {j \in callbacks : request[j].node = n}

\* unregister_callback, first half: the list without the url, a new object.
FilterCallbacks(i) ==
    /\ Unread(i, "unregister")
    /\ held' = [held EXCEPT ![i] =
           {j \in ListOf(request[i].node) : request[j].arg # request[i].arg}]
    /\ served' = [served EXCEPT ![i] = "thread"]
    /\ UNCHANGED <<registry, callbacks, request, code, result, timeouts, clean>>

\* unregister_callback, second half: that object replaces the list, and what
\* other calls did to the list in between is gone.
StoreCallbacks(i) ==
    /\ served[i] = "thread"
    /\ callbacks' = (callbacks \ ListOf(request[i].node)) \cup held[i]
    /\ Done(i, 200)
    /\ held' = [held EXCEPT ![i] = {}]
    /\ UNCHANGED registry

Handle(i) ==
    \/ Create(i) \/ Refuse(i) \/ Missing(i) \/ Delete(i)
    \/ AddNodeToStrategy(i) \/ RemoveNodeFromStrategy(i) \/ UpdateStatus(i)
    \/ AddNodeDependency(i) \/ RemoveNodeDependency(i)
    \/ RegisterCallback(i) \/ FilterCallbacks(i) \/ StoreCallbacks(i)
-----------------------------------------------------------------------------
(* The callers.                                                            *)

Call(i, r) ==
    /\ request[i] = NoRequest
    /\ \A j \in 1 .. i - 1 : request[j] # NoRequest
    /\ Cardinality({j \in Calls : result[j] = "waiting"}) < MaxWaiting
    /\ request' = [request EXCEPT ![i] = r]
    /\ result' = [result EXCEPT ![i] = "waiting"]
    /\ clean' = [j \in Calls |->
           clean[j] /\ ~(request[j] # NoRequest /\ Undoes(r, request[j]))]
    /\ UNCHANGED <<registry, callbacks, served, held, code, timeouts>>

\* RegistryClient._handle_response
HandleResponse(status, expected) == IF status = expected THEN "ok" ELSE "raised"

\* What the methods of RegistryClient make of the status of the answer.
RegisterNodeResult(status) == HandleResponse(status, 201)

DeleteNodeResult(status) ==
    IF status = 404 THEN "false" ELSE HandleResponse(status, 200)

AddContainsResult(status) == IF status \in {200, 201} THEN "ok" ELSE "false"

RemoveContainsResult(status) == IF status = 404 THEN "false" ELSE "ok"

\* The other routes have no method in RegistryClient; their callers look at the
\* status.
ClientResult(op, status) ==
    CASE op \in {"create", "malformed"} -> RegisterNodeResult(status)
      [] op = "delete" -> DeleteNodeResult(status)
      [] op = "link" -> AddContainsResult(status)
      [] op = "unlink" -> RemoveContainsResult(status)
      [] OTHER -> HandleResponse(status, 200)

Return(i) ==
    /\ result[i] = "waiting"
    /\ served[i] = "done"
    /\ result' = [result EXCEPT ![i] = ClientResult(request[i].op, code[i])]
    /\ UNCHANGED <<registry, callbacks, request, served, held, code, timeouts, clean>>

\* httpx raises: the connection failed or timed out, before or after the call
\* was handled, or long before it will be.
GiveUp(i) ==
    /\ result[i] = "waiting"
    /\ timeouts < MaxTimeouts
    /\ timeouts' = timeouts + 1
    /\ result' = [result EXCEPT ![i] = "raised"]
    /\ UNCHANGED <<registry, callbacks, request, served, held, code, clean>>

Next ==
    \E i \in Calls :
        \/ Handle(i)
        \/ \E r \in Requests : Call(i, r)
        \/ Return(i)
        \/ GiveUp(i)

Spec == Init /\ [][Next]_vars
-----------------------------------------------------------------------------
(* Reads: the answer of a route, and what RegistryClient returns for it.   *)

Found(body) == [code |-> 200, body |-> body]
NotFound == [code |-> 404, body |-> {}]

GetNodeRefStrategies(n) == IF n \in nodes THEN Found(RefStrategies(n)) ELSE NotFound

ClientRefStrategies(n) ==
    LET answer == GetNodeRefStrategies(n)
    IN  IF answer.code = 404 THEN {} ELSE answer.body

GetNodeRefCount(n) == IF n \in nodes THEN Found(RefCount(n)) ELSE NotFound

ClientRefCount(n) ==
    LET answer == GetNodeRefCount(n)
    IN  IF answer.code = 404 THEN 0 ELSE answer.body

GetStrategyNodes(s) ==
    IF s \in KnownStrategies THEN Found(StrategyNodes(s)) ELSE NotFound
-----------------------------------------------------------------------------
(* Properties.                                                             *)

\* What clients read about the relation from its two ends agrees: a node's
\* reference strategies are those whose node list has the node, its reference
\* count is their number, and the answers for an unknown node or strategy say
\* the same.
ReadsAgree ==
    \A n \in NodeIds :
        /\ ClientRefStrategies(n) = {s \in Strategies : n \in GetStrategyNodes(s).body}
        /\ ClientRefCount(n) = Cardinality({s \in Strategies : n \in GetStrategyNodes(s).body})

\* What the request r asked for is so.
Holds(r) ==
    CASE r.op = "create" -> r.node \in nodes
      [] r.op = "delete" -> r.node \notin nodes
      [] r.op = "link" -> r.arg \in nodeStrategies[r.node]
      [] r.op = "unlink" -> r.arg \notin nodeStrategies[r.node]
      [] r.op = "dep" -> InList(r.arg, dependencies[r.node])
      [] r.op = "status" -> statuses[r.node] = r.arg
      [] r.op = "register" -> \E j \in callbacks : request[j] = r
      [] r.op = "unregister" -> \A j \in ListOf(r.node) : request[j].arg # r.arg
      [] OTHER -> TRUE

\* A caller that was told of success can rely on it until somebody asks for the
\* opposite: late calls, calls of callers that gave up and calls about other
\* nodes, strategies or targets do not undo it.  (Callbacks count only if no
\* other unregistration of the node was under way when they were handled.)
AcknowledgedLasts ==
    \A i \in Calls : result[i] = "ok" /\ clean[i] => Holds(request[i])
=============================================================================
