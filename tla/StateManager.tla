---------------------------- MODULE StateManager ----------------------------
(***************************************************************************)
(* StateManager (sdk/execution/state_manager.py): several processes keep   *)
(* the history of one node and interval in Redis, as a list and a meta key *)
(* that describes it.  Each Redis command is one step; only LPUSH, LTRIM   *)
(* and EXPIRE of a save go together in one MULTI.  The connections are     *)
(* made with retry_on_timeout, so a MULTI that times out is sent again,    *)
(* and Redis may execute both.                                             *)
(***************************************************************************)
EXTENDS Naturals, SequencesExt

CONSTANTS
    Clients,     \* processes, each with a StateManager
    Limits,      \* values of max_items
    MaxSaves,    \* bound: calls of save_history
    MaxCalls,    \* bound: calls of the other methods
    MaxFaults,   \* bound: commands that time out or fail
    None         \* no key; no call

ASSUME ManagerAssumption ==
    /\ Limits \subseteq Nat \ {0}
    /\ \E m \in Limits : \A l \in Limits : l <= m
    /\ MaxSaves \in Nat /\ MaxCalls \in Nat /\ MaxFaults \in Nat

VARIABLES
    history,     \* the list node:<id>:history:<interval>, newest item first
    mortal,      \* that key has a time to live
    meta,        \* node:<id>:meta:<interval>, or None
    metaMortal,
    call,        \* call[c]: the call client c is in, or None
    delayed,     \* MULTIs without an answer that Redis may still execute
    saves, calls, faults, \* so far
    acked,       \* history: the saves that returned True
    prior,       \* history: prior[s], the saves that returned True before s began
    slow,        \* history: the saves whose MULTI timed out
    undisturbed  \* history: calls never overlapped, failed or met an expiry

list == <<history, mortal>>
metadata == <<meta, metaMortal>>
bounds == <<saves, calls, faults>>
ghosts == <<acked, prior, slow, undisturbed>>
vars == <<list, metadata, call, delayed, bounds, ghosts>>

Saves == 1 .. MaxSaves
MaxLimit == CHOOSE m \in Limits : \A l \in Limits : l <= m
Keys == {"history", "meta"}
Pushes == [save : Saves, limit : Limits, ttl : BOOLEAN]
Metas == [count : 0 .. MaxLimit, last : Saves \cup {None}, ttl : BOOLEAN]

CallStates ==
    [at : {"push"}, push : Pushes, again : BOOLEAN]
        \cup [at : {"count"}, push : Pushes]
        \cup [at : {"describe"}, push : Pushes, count : 0 .. MaxLimit]
        \cup [at : {"expire", "expireMeta", "readMeta"}]
        \cup [at : {"writeMeta"}, meta : Metas]
        \cup [at : {"scan", "ttl", "delete"}, lazy : BOOLEAN, seen : SUBSET Keys, key : Keys \cup {None}]
        \cup [at : {"deleteAll"}, todo : SUBSET Keys]

ASSUME NoneAssumption == None \notin CallStates \cup Metas

\* No list is longer than the longest that a caller asked for, and a key that is
\* not there has no time to live.
KeysOK ==
    /\ history \in Seq(Saves) /\ Len(history) <= MaxLimit
    /\ mortal \in BOOLEAN /\ metaMortal \in BOOLEAN
    /\ (history = <<>>) => ~mortal
    /\ (meta = None) => ~metaMortal
    /\ meta \in Metas \cup {None}

TypeOK ==
    /\ KeysOK
    /\ call \in [Clients -> CallStates \cup {None}]
    /\ delayed \in SUBSET [push : Pushes, again : BOOLEAN]
    /\ saves \in 0 .. MaxSaves /\ calls \in 0 .. MaxCalls
    /\ faults \in 0 .. MaxFaults
    /\ acked \in SUBSET Saves /\ slow \in SUBSET Saves
    /\ prior \in [Saves -> SUBSET Saves]
    /\ undisturbed \in BOOLEAN

Init ==
    /\ history = <<>> /\ mortal = FALSE
    /\ meta = None /\ metaMortal = FALSE
    /\ call = [c \in Clients |-> None]
    /\ delayed = {}
    /\ saves = 0 /\ calls = 0 /\ faults = 0
    /\ acked = {} /\ slow = {}
    /\ prior = [s \in Saves |-> {}]
    /\ undisturbed = TRUE
-----------------------------------------------------------------------------
At(c, at) == call[c] # None /\ call[c].at = at

Goto(c, state) == call' = [call EXCEPT ![c] = state]

\* A call begins.
Begin(c, state) ==
    /\ call[c] = None
    /\ Goto(c, state)
    /\ undisturbed' = (undisturbed /\ \A d \in Clients : call[d] = None)

Exists(k) == IF k = "history" THEN history # <<>> ELSE meta # None

\* The keys K are gone.
Vanish(K) ==
    /\ IF "history" \in K THEN history' = <<>> /\ mortal' = FALSE ELSE UNCHANGED list
    /\ IF "meta" \in K THEN meta' = None /\ metaMortal' = FALSE ELSE UNCHANGED metadata

\* SET with a time to live, or without: then a former one is gone.
SetMeta(value, ttl) == meta' = value /\ metaMortal' = ttl
-----------------------------------------------------------------------------
(* save_history                                                            *)

Save(c, limit, ttl) ==
    /\ saves < MaxSaves
    /\ saves' = saves + 1
    /\ Begin(c, [at |-> "push", again |-> TRUE,
                 push |-> [save |-> saves', limit |-> limit, ttl |-> ttl]])
    /\ prior' = [prior EXCEPT ![saves'] = acked]
    /\ UNCHANGED <<list, metadata, delayed, calls, faults, acked, slow>>

\* LTRIM keeps the wrong end.
Multi_Bug(push) ==
    /\ history' = LET h == <<push.save>> \o history
                  IN  IF Len(h) > push.limit THEN SubSeq(h, Len(h) - push.limit + 1, Len(h)) ELSE h
    /\ mortal' = (mortal \/ push.ttl)

\* The list is not trimmed.
MultiLong_Bug(push) ==
    /\ history' = <<push.save>> \o history
    /\ mortal' = (mortal \/ push.ttl)

\* LPUSH, LTRIM and, with a time to live, EXPIRE.
Multi(push) ==
    /\ history' = LET h == <<push.save>> \o history
                  IN  SubSeq(h, 1, IF Len(h) < push.limit THEN Len(h) ELSE push.limit)
    /\ mortal' = (mortal \/ push.ttl)

Push(c) ==
    /\ At(c, "push")
    /\ Multi(call[c].push)
    /\ Goto(c, [at |-> "count", push |-> call[c].push])
    /\ UNCHANGED <<metadata, delayed, bounds, ghosts>>

Unanswered(c) == [push |-> call[c].push, again |-> call[c].again]

\* No answer in time: the MULTI is sent once more, then the call gives up.  The
\* one that was sent is executed by and by, or was lost.
PushTimeout(c) ==
    /\ At(c, "push")
    /\ faults < MaxFaults
    /\ faults' = faults + 1
    /\ slow' = slow \cup {call[c].push.save}
    /\ delayed' = delayed \cup {Unanswered(c)}
    /\ Goto(c, IF call[c].again THEN [call[c] EXCEPT !.again = FALSE] ELSE None)
    /\ UNCHANGED <<list, metadata, saves, calls, acked, prior, undisturbed>>

\* Redis gets to a MULTI that nobody waits for.
Late(multi) ==
    /\ delayed' = delayed \ {multi}
    /\ undisturbed' = FALSE
    /\ Multi(multi.push)
    /\ UNCHANGED <<metadata, call, bounds, acked, prior, slow>>

Count(c) ==
    /\ At(c, "count")
    /\ LET limit == call[c].push.limit
       IN  Goto(c, [at |-> "describe", push |-> call[c].push,
                    count |-> IF Len(history) < limit THEN Len(history) ELSE limit])
    /\ UNCHANGED <<list, metadata, delayed, bounds, ghosts>>

\* The count is that of the list before the save.
Describe_Bug(c) ==
    /\ At(c, "describe")
    /\ LET push == call[c].push
       IN  /\ SetMeta([count |-> call[c].count - 1, last |-> push.save, ttl |-> push.ttl], push.ttl)
           /\ acked' = acked \cup {push.save}
    /\ Goto(c, None)
    /\ UNCHANGED <<list, delayed, bounds, prior, slow, undisturbed>>

\* SET of the meta key; the save returns True.
Describe(c) ==
    /\ At(c, "describe")
    /\ LET push == call[c].push
       IN  /\ SetMeta([count |-> call[c].count, last |-> push.save, ttl |-> push.ttl], push.ttl)
           /\ acked' = acked \cup {push.save}
    /\ Goto(c, None)
    /\ UNCHANGED <<list, delayed, bounds, prior, slow, undisturbed>>

Fail(c) ==
    /\ faults < MaxFaults
    /\ faults' = faults + 1
    /\ undisturbed' = FALSE

\* A broken connection is a reason to send the MULTI again.
SaveFails_Bug(c) ==
    /\ \/ At(c, "push") /\ delayed' \in {delayed, delayed \cup {Unanswered(c)}} /\ UNCHANGED call
       \/ At(c, "count") /\ UNCHANGED delayed /\ Goto(c, None)
    /\ Fail(c)
    /\ UNCHANGED <<list, metadata, saves, calls, acked, prior, slow>>

\* The MULTI or LLEN fails: False is returned, with or without the item saved.
SaveFails(c) ==
    /\ \/ At(c, "push") /\ delayed' \in {delayed, delayed \cup {Unanswered(c)}}
       \/ At(c, "count") /\ UNCHANGED delayed
    /\ Fail(c)
    /\ Goto(c, None)
    /\ UNCHANGED <<list, metadata, saves, calls, acked, prior, slow>>

\* set() logs the error and returns False, which save_history ignores.
DescribeFails(c) ==
    /\ At(c, "describe")
    /\ Fail(c)
    /\ acked' = acked \cup {call[c].push.save}
    /\ Goto(c, None)
    /\ UNCHANGED <<list, metadata, delayed, saves, calls, prior, slow>>
-----------------------------------------------------------------------------
(* update_ttl                                                              *)

Ask(c, state) ==
    /\ calls < MaxCalls
    /\ calls' = calls + 1
    /\ Begin(c, state)
    /\ UNCHANGED <<list, metadata, delayed, saves, faults, acked, prior, slow>>

UpdateTtl(c) == Ask(c, [at |-> "expire"])

Expires(c) ==
    /\ At(c, "expire")
    /\ mortal' = (history # <<>>)
    /\ Goto(c, [at |-> "expireMeta"])
    /\ UNCHANGED <<history, metadata, delayed, bounds, ghosts>>

ExpiresMeta(c) ==
    /\ At(c, "expireMeta")
    /\ metaMortal' = (meta # None)
    /\ Goto(c, [at |-> "readMeta"])
    /\ UNCHANGED <<list, meta, delayed, bounds, ghosts>>

\* A key that is not there, or get() that fails, reads as {}.
ReadMeta(c) ==
    /\ At(c, "readMeta")
    /\ Goto(c, [at |-> "writeMeta",
                meta |-> IF meta = None THEN [count |-> 0, last |-> None, ttl |-> TRUE]
                         ELSE [meta EXCEPT !.ttl = TRUE]])
    /\ UNCHANGED <<list, metadata, delayed, bounds, ghosts>>

\* What was read goes back, whatever was saved since.
WriteMeta(c) ==
    /\ At(c, "writeMeta")
    /\ SetMeta(call[c].meta, TRUE)
    /\ Goto(c, None)
    /\ UNCHANGED <<list, delayed, bounds, ghosts>>
-----------------------------------------------------------------------------
(* clean_expired_data, clear_all and clear                                 *)

CleanExpiredData(c) == Ask(c, [at |-> "scan", lazy |-> TRUE, seen |-> {}, key |-> None])

ClearAll(c) == Ask(c, [at |-> "scan", lazy |-> FALSE, seen |-> {}, key |-> None])

\* SCAN gets to the place of each key once, in any order.
Scan(c) ==
    /\ At(c, "scan")
    /\ \E k \in Keys \ call[c].seen :
          Goto(c, [call[c] EXCEPT !.seen = @ \cup {k}, !.key = k,
                       !.at = IF ~Exists(k) THEN "scan" ELSE IF call[c].lazy THEN "ttl" ELSE "delete"])
    /\ UNCHANGED <<list, metadata, delayed, bounds, ghosts>>

ScanEnds(c) ==
    /\ At(c, "scan")
    /\ call[c].seen = Keys
    /\ Goto(c, None)
    /\ UNCHANGED <<list, metadata, delayed, bounds, ghosts>>

\* TTL: only a key that is gone by now is to be deleted.
ReadTtl(c) ==
    /\ At(c, "ttl")
    /\ Goto(c, [call[c] EXCEPT !.at = IF Exists(call[c].key) THEN "scan" ELSE "delete"])
    /\ UNCHANGED <<list, metadata, delayed, bounds, ghosts>>

\* DEL, also of a key that somebody has stored again.
Delete(c) ==
    /\ At(c, "delete")
    /\ Vanish({call[c].key})
    /\ Goto(c, [call[c] EXCEPT !.at = "scan"])
    /\ UNCHANGED <<delayed, bounds, ghosts>>

\* clear: KEYS, then one DEL of them all.
Clear(c) == Ask(c, [at |-> "deleteAll", todo |-> {k \in Keys : Exists(k)}])

DeleteAll(c) ==
    /\ At(c, "deleteAll")
    /\ Vanish(call[c].todo)
    /\ Goto(c, None)
    /\ UNCHANGED <<delayed, bounds, ghosts>>

\* Any of these commands fails: the method logs it and returns 0 or False.
CallFails(c) ==
    /\ call[c] # None
    /\ call[c].at \notin {"push", "count", "describe"}
    /\ Fail(c)
    /\ Goto(c, None)
    /\ UNCHANGED <<list, metadata, delayed, saves, calls, acked, prior, slow>>

\* A time to live is over.
Expire(k) ==
    /\ IF k = "history" THEN mortal ELSE metaMortal
    /\ Vanish({k})
    /\ undisturbed' = FALSE
    /\ UNCHANGED <<call, delayed, bounds, acked, prior, slow>>

Step(c) ==
    \/ Push(c) \/ PushTimeout(c) \/ Count(c) \/ Describe(c) \/ SaveFails(c) \/ DescribeFails(c)
    \/ Expires(c) \/ ExpiresMeta(c) \/ ReadMeta(c) \/ WriteMeta(c)
    \/ Scan(c) \/ ScanEnds(c) \/ ReadTtl(c) \/ Delete(c) \/ DeleteAll(c) \/ CallFails(c)

Next ==
    \/ \E c \in Clients :
          \/ \E limit \in Limits, ttl \in BOOLEAN : Save(c, limit, ttl)
          \/ UpdateTtl(c) \/ CleanExpiredData(c) \/ ClearAll(c) \/ Clear(c)
          \/ Step(c)
    \/ \E multi \in delayed : Late(multi)
    \/ \E k \in Keys : Expire(k)

Spec == Init /\ [][Next]_vars
-----------------------------------------------------------------------------
(* Reads                                                                   *)

\* get_history and get_interval_data without a range of times: LRANGE.
GetHistory(count) == SubSeq(history, 1, IF Len(history) < count THEN Len(history) ELSE count)

\* get_history_metadata: what the meta key says, and LLEN.
GetHistoryMetadata == [says |-> meta, actual |-> Len(history)]
-----------------------------------------------------------------------------
(* Properties.                                                             *)

\* A reader who is given a result is also given every result that another
\* process began to save after that one was acknowledged, and in front of it:
\* whatever is trimmed, expires or is deleted, by whom and between which
\* commands.  (The MULTI of a save that timed out may come late.)
NewestFirst ==
    \A b \in acked : \A a \in prior[b] \ slow : \A count \in 1 .. MaxLimit :
        a \in ToSet(GetHistory(count)) =>
            \E i, j \in DOMAIN GetHistory(count) :
                i < j /\ GetHistory(count)[i] = b /\ GetHistory(count)[j] = a

\* A result is in the history once, or twice if its MULTI timed out: the
\* connection sends it again once and then gives up, and a connection that breaks
\* is no reason to send it again.
CopiesBounded ==
    \A s \in Saves :
        Cardinality({i \in DOMAIN history : history[i] = s}) <= IF s \in slow THEN 2 ELSE 1

\* As long as calls do not overlap and nothing fails or expires, the meta key
\* describes the list: update and count are those of the list, and it does not
\* expire while the list stays.  (The list may expire while the meta key stays: a
\* save without a time to live takes away that of the meta key alone.)
MetaAgrees ==
    (undisturbed /\ \A c \in Clients : call[c] = None) =>
        LET m == GetHistoryMetadata
        IN  /\ m.actual > 0 => /\ m.says # None
                               /\ m.says.count = m.actual
                               /\ m.says.last = Head(history)
                               /\ metaMortal => mortal
            /\ m.says # None /\ m.actual = 0 => m.says.count = 0
=============================================================================
