-------------------------- MODULE StateManagerProofs --------------------------
(***************************************************************************)
(* Proofs about StateManager for any number of processes, limits, calls    *)
(* and failures.                                                           *)
(***************************************************************************)
EXTENDS StateManager, SequenceTheorems, FiniteSetTheorems, TLAPS

LEMMA LimitBounds ==
    /\ MaxLimit \in Limits /\ MaxLimit \in Nat \ {0}
    /\ \A l \in Limits : l \in Nat \ {0} /\ l <= MaxLimit
BY ManagerAssumption DEF ManagerAssumption, MaxLimit

\* What LPUSH and LTRIM leave: the item, and behind it the former items, in their
\* order, as far as the limit allows.
LEMMA MultiList ==
    ASSUME history \in Seq(Saves), NEW push \in Pushes, Multi(push)
    PROVE  /\ history' \in Seq(Saves) /\ Len(history') \in Nat \ {0}
           /\ Len(history') = IF Len(history) + 1 < push.limit THEN Len(history) + 1 ELSE push.limit
           /\ history'[1] = push.save
           /\ \A i \in 2 .. Len(history') : i - 1 \in 1 .. Len(history) /\ history'[i] = history[i - 1]
<1> DEFINE h == <<push.save>> \o history
           n == IF Len(h) < push.limit THEN Len(h) ELSE push.limit
<1>1. push.save \in Saves /\ push.limit \in Nat \ {0}
  BY LimitBounds DEF Pushes
<1>2. /\ h \in Seq(Saves) /\ Len(h) = Len(history) + 1 /\ Len(history) \in Nat
      /\ h[1] = push.save /\ \A i \in 2 .. Len(h) : h[i] = history[i - 1]
  <2>1. <<push.save>> \in Seq(Saves) /\ Len(<<push.save>>) = 1 /\ <<push.save>>[1] = push.save
    BY <1>1
  <2>2. /\ h \in Seq(Saves) /\ Len(h) = 1 + Len(history) /\ Len(history) \in Nat
        /\ \A i \in 1 .. 1 + Len(history) : h[i] = IF i <= 1 THEN <<push.save>>[i] ELSE history[i - 1]
    BY <2>1, ConcatProperties
  <2> HIDE DEF h
  <2>3. QED BY <2>1, <2>2
<1>3. history' = SubSeq(h, 1, n)
  BY DEF Multi
<1> HIDE DEF h
<1>4. n \in 1 .. Len(h)
  BY <1>1, <1>2
<1>5. \A i \in 1 .. n : h[i] \in Saves
  BY <1>2, <1>4
<1>6. /\ history' \in Seq(Saves) /\ Len(history') = n
      /\ \A i \in 1 .. n : history'[i] = h[i]
  <2> HIDE DEF n
  <2>1. 1 \in Int /\ n \in Int /\ 1 <= n
    BY <1>2, <1>4
  <2>2. /\ SubSeq(h, 1, n) \in Seq(Saves)
        /\ Len(SubSeq(h, 1, n)) = n - 1 + 1
        /\ \A i \in 1 .. n - 1 + 1 : SubSeq(h, 1, n)[i] = h[1 + i - 1]
    BY <1>5, <2>1, SubSeqProperties
  <2>3. n - 1 + 1 = n /\ \A i \in 1 .. n : 1 + i - 1 = i
    BY <2>1
  <2>4. QED BY <1>3, <2>2, <2>3
<1>7. QED BY <1>1, <1>2, <1>4, <1>6

-----------------------------------------------------------------------------
(* Types                                                                   *)

\* What a call has in hand, by the command it is at.
LEMMA CallShape ==
    ASSUME TypeOK, NEW c \in Clients, call[c] # None
    PROVE  /\ call[c] \in CallStates
           /\ At(c, "push") => call[c] \in [at : {"push"}, push : Pushes, again : BOOLEAN]
           /\ At(c, "count") => call[c] \in [at : {"count"}, push : Pushes]
           /\ At(c, "describe") => call[c] \in [at : {"describe"}, push : Pushes, count : 0 .. MaxLimit]
           /\ At(c, "writeMeta") => call[c] \in [at : {"writeMeta"}, meta : Metas]
           /\ call[c].at \in {"scan", "ttl", "delete"} =>
                  call[c] \in [at : {"scan", "ttl", "delete"}, lazy : BOOLEAN, seen : SUBSET Keys,
                               key : Keys \cup {None}]
           /\ At(c, "deleteAll") => call[c] \in [at : {"deleteAll"}, todo : SUBSET Keys]
<1>1. call[c] \in CallStates
  BY DEF TypeOK
<1>2. QED BY <1>1 DEF CallStates, At

LEMMA TypeInit == Init => TypeOK
<1> SUFFICES ASSUME Init PROVE TypeOK
  OBVIOUS
<1>1. history \in Seq(Saves) /\ Len(history) <= MaxLimit
  BY LimitBounds DEF Init
<1>2. 0 \in 0 .. MaxSaves /\ 0 \in 0 .. MaxCalls /\ 0 \in 0 .. MaxFaults
  BY ManagerAssumption DEF ManagerAssumption
<1>3. QED BY <1>1, <1>2 DEF Init, TypeOK, KeysOK

\* A step that changes no more than the calls.
LEMMA OnlyCall ==
    ASSUME TypeOK, UNCHANGED <<list, metadata, delayed, bounds, ghosts>>,
           call' \in [Clients -> CallStates \cup {None}]
    PROVE  TypeOK'
BY DEF TypeOK, KeysOK, list, metadata, bounds, ghosts

LEMMA GotoType ==
    ASSUME TypeOK, NEW c \in Clients, NEW s \in CallStates \cup {None}, Goto(c, s)
    PROVE  call' \in [Clients -> CallStates \cup {None}]
BY DEF TypeOK, Goto

LEMMA MultiType ==
    ASSUME TypeOK, NEW push \in Pushes, Multi(push)
    PROVE  /\ history' \in Seq(Saves) /\ Len(history') <= MaxLimit /\ history' # <<>>
           /\ mortal' \in BOOLEAN
<1>0. history \in Seq(Saves) /\ push.limit \in Nat
  BY LimitBounds DEF TypeOK, KeysOK, Pushes
<1>1. /\ history' \in Seq(Saves) /\ Len(history') \in Nat \ {0}
      /\ Len(history') <= push.limit
  BY <1>0, MultiList
<1>2. push.limit <= MaxLimit /\ push.limit \in Nat /\ MaxLimit \in Nat /\ push.ttl \in BOOLEAN
  BY LimitBounds DEF Pushes
<1>3. Len(history') <= MaxLimit
  BY <1>1, <1>2
<1>4. mortal' \in BOOLEAN
  BY <1>2 DEF Multi, TypeOK, KeysOK
<1>5. QED BY <1>1, <1>3, <1>4

LEMMA VanishType ==
    ASSUME KeysOK, NEW K, Vanish(K)
    PROVE  KeysOK'
<1>0. <<>> \in Seq(Saves) /\ Len(<<>>) <= MaxLimit
  BY LimitBounds
<1> USE <1>0 DEF KeysOK, Vanish, list, metadata
<1>1. CASE "history" \in K /\ "meta" \in K
  BY <1>1
<1>2. CASE "history" \in K /\ "meta" \notin K
  BY <1>2
<1>3. CASE "history" \notin K /\ "meta" \in K
  BY <1>3
<1>4. CASE "history" \notin K /\ "meta" \notin K
  BY <1>4
<1>5. QED BY <1>1, <1>2, <1>3, <1>4

LEMMA VanishStep ==
    ASSUME TypeOK, NEW K, Vanish(K), call' \in [Clients -> CallStates \cup {None}],
           UNCHANGED <<delayed, bounds, acked, prior, slow>>, undisturbed' \in BOOLEAN
    PROVE  TypeOK'
<1>1. KeysOK'
  BY VanishType DEF TypeOK
<1>2. QED BY <1>1 DEF TypeOK, bounds

\* An idle process begins a call.
LEMMA BeginType ==
    ASSUME TypeOK, NEW c \in Clients, NEW s \in CallStates, Begin(c, s)
    PROVE  call' \in [Clients -> CallStates \cup {None}] /\ undisturbed' \in BOOLEAN
BY GotoType DEF Begin, TypeOK

LEMMA TypeStep == TypeOK /\ [Next]_vars => TypeOK'
<1> SUFFICES ASSUME TypeOK, [Next]_vars PROVE TypeOK'
  OBVIOUS
<1> USE DEF list, metadata, bounds, ghosts
<1>0. ASSUME UNCHANGED <<list, metadata>> PROVE KeysOK'
  BY <1>0 DEF TypeOK, KeysOK
<1>1. ASSUME NEW c \in Clients, NEW limit \in Limits, NEW ttl \in BOOLEAN, Save(c, limit, ttl)
      PROVE  TypeOK'
  <2> DEFINE s == [at |-> "push", again |-> TRUE,
                   push |-> [save |-> saves', limit |-> limit, ttl |-> ttl]]
  <2>1. saves' \in Saves /\ saves' \in 0 .. MaxSaves
    BY <1>1, ManagerAssumption DEF ManagerAssumption, Save, TypeOK, Saves
  <2>2. s \in CallStates
    BY <2>1 DEF CallStates, Pushes
  <2>3. call' \in [Clients -> CallStates \cup {None}] /\ undisturbed' \in BOOLEAN
    BY <1>1, <2>2, BeginType DEF Save
  <2>4. prior' \in [Saves -> SUBSET Saves]
    BY <1>1, <2>1 DEF Save, TypeOK
  <2>5. QED BY <1>1, <2>1, <2>3, <2>4, <1>0 DEF Save, TypeOK
<1>2. ASSUME NEW c \in Clients, NEW s \in CallStates, Ask(c, s)
      PROVE  TypeOK'
  <2>1. calls' \in 0 .. MaxCalls
    BY <1>2, ManagerAssumption DEF ManagerAssumption, Ask, TypeOK
  <2>2. call' \in [Clients -> CallStates \cup {None}] /\ undisturbed' \in BOOLEAN
    BY <1>2, BeginType DEF Ask
  <2>3. QED BY <1>2, <2>1, <2>2, <1>0 DEF Ask, TypeOK
<1>3. ASSUME NEW c \in Clients, UpdateTtl(c) \/ CleanExpiredData(c) \/ ClearAll(c) \/ Clear(c)
      PROVE  TypeOK'
  <2>1. /\ [at |-> "expire"] \in CallStates
        /\ [at |-> "scan", lazy |-> TRUE, seen |-> {}, key |-> None] \in CallStates
        /\ [at |-> "scan", lazy |-> FALSE, seen |-> {}, key |-> None] \in CallStates
        /\ [at |-> "deleteAll", todo |-> {k \in Keys : Exists(k)}] \in CallStates
    BY DEF CallStates
  <2>2. QED BY <1>2, <1>3, <2>1 DEF UpdateTtl, CleanExpiredData, ClearAll, Clear
<1>4. ASSUME NEW c \in Clients, Push(c) PROVE TypeOK'
  <2>1. call[c] \in [at : {"push"}, push : Pushes, again : BOOLEAN]
    BY <1>4, CallShape DEF Push, At
  <2>2. [at |-> "count", push |-> call[c].push] \in CallStates
    BY <2>1 DEF CallStates
  <2>3. call' \in [Clients -> CallStates \cup {None}]
    BY <1>4, <2>2, GotoType DEF Push
  <2>4. /\ history' \in Seq(Saves) /\ Len(history') <= MaxLimit /\ history' # <<>>
        /\ mortal' \in BOOLEAN
    BY <1>4, <2>1, MultiType DEF Push
  <2>5. QED BY <1>4, <2>3, <2>4 DEF Push, TypeOK, KeysOK
<1>5. ASSUME NEW c \in Clients, At(c, "push")
      PROVE  /\ Unanswered(c) \in [push : Pushes, again : BOOLEAN]
             /\ [call[c] EXCEPT !.again = FALSE] \in CallStates
             /\ call[c].push.save \in Saves
  <2>1. call[c] \in [at : {"push"}, push : Pushes, again : BOOLEAN]
    BY <1>5, CallShape DEF At
  <2>2. [call[c] EXCEPT !.again = FALSE] \in [at : {"push"}, push : Pushes, again : BOOLEAN]
    BY <2>1
  <2>3. QED BY <2>1, <2>2 DEF Unanswered, CallStates, Pushes
<1>6. ASSUME NEW c \in Clients, PushTimeout(c) PROVE TypeOK'
  <2>1. At(c, "push") /\ faults' \in 0 .. MaxFaults
    BY <1>6, ManagerAssumption DEF ManagerAssumption, PushTimeout, TypeOK
  <2>2. call' \in [Clients -> CallStates \cup {None}]
    BY <1>5, <1>6, <2>1, GotoType DEF PushTimeout
  <2>3. delayed' \in SUBSET [push : Pushes, again : BOOLEAN] /\ slow' \in SUBSET Saves
    BY <1>5, <1>6, <2>1 DEF PushTimeout, TypeOK
  <2>4. QED BY <1>6, <2>1, <2>2, <2>3, <1>0 DEF PushTimeout, TypeOK
<1>7. ASSUME NEW multi \in delayed, Late(multi) PROVE TypeOK'
  <2>1. multi.push \in Pushes
    BY DEF TypeOK
  <2>2. /\ history' \in Seq(Saves) /\ Len(history') <= MaxLimit /\ history' # <<>>
        /\ mortal' \in BOOLEAN
    BY <1>7, <2>1, MultiType DEF Late
  <2>3. QED BY <1>7, <2>2 DEF Late, TypeOK, KeysOK
<1>8. ASSUME NEW c \in Clients, Count(c) PROVE TypeOK'
  <2> DEFINE limit == call[c].push.limit
             n == IF Len(history) < limit THEN Len(history) ELSE limit
             s == [at |-> "describe", push |-> call[c].push, count |-> n]
  <2>1. call[c] \in [at : {"count"}, push : Pushes]
    BY <1>8, CallShape DEF Count, At
  <2>2. n \in 0 .. MaxLimit
    <3>1. limit \in Nat /\ limit <= MaxLimit /\ MaxLimit \in Nat
      BY <2>1, LimitBounds DEF Pushes
    <3>2. Len(history) \in Nat
      BY DEF TypeOK, KeysOK
    <3> HIDE DEF limit
    <3>3. QED BY <3>1, <3>2
  <2>3. s \in CallStates
    BY <2>1, <2>2 DEF CallStates
  <2>4. call' \in [Clients -> CallStates \cup {None}]
    BY <1>8, <2>3, GotoType DEF Count
  <2>5. QED BY <1>8, <2>4, <1>0 DEF Count, TypeOK
<1>9. ASSUME NEW c \in Clients, Describe(c) PROVE TypeOK'
  <2> DEFINE push == call[c].push
             m == [count |-> call[c].count, last |-> push.save, ttl |-> push.ttl]
  <2>1. call[c] \in [at : {"describe"}, push : Pushes, count : 0 .. MaxLimit]
    BY <1>9, CallShape DEF Describe, At
  <2>2. m \in Metas /\ push.save \in Saves /\ push.ttl \in BOOLEAN
    BY <2>1 DEF Metas, Pushes
  <2>3. call' \in [Clients -> CallStates \cup {None}]
    BY <1>9, GotoType DEF Describe
  <2>4. meta' = m /\ metaMortal' = push.ttl /\ acked' = acked \cup {push.save}
    BY <1>9 DEF Describe, SetMeta
  <2>5. m # None
    BY <2>2, NoneAssumption DEF NoneAssumption
  <2>6. QED BY <1>9, <2>2, <2>3, <2>4, <2>5 DEF Describe, TypeOK, KeysOK
<1>10. ASSUME NEW c \in Clients, SaveFails(c) PROVE TypeOK'
  <2>1. faults' \in 0 .. MaxFaults /\ undisturbed' = FALSE
    BY <1>10, ManagerAssumption DEF ManagerAssumption, SaveFails, Fail, TypeOK
  <2>2. call' \in [Clients -> CallStates \cup {None}]
    BY <1>10, GotoType DEF SaveFails
  <2>3. delayed' \in SUBSET [push : Pushes, again : BOOLEAN]
    BY <1>5, <1>10 DEF SaveFails, TypeOK
  <2>4. QED BY <1>10, <2>1, <2>2, <2>3, <1>0 DEF SaveFails, TypeOK
<1>11. ASSUME NEW c \in Clients, DescribeFails(c) PROVE TypeOK'
  <2>1. faults' \in 0 .. MaxFaults /\ undisturbed' = FALSE
    BY <1>11, ManagerAssumption DEF ManagerAssumption, DescribeFails, Fail, TypeOK
  <2>2. call' \in [Clients -> CallStates \cup {None}]
    BY <1>11, GotoType DEF DescribeFails
  <2>3. call[c].push.save \in Saves
    BY <1>11, CallShape DEF DescribeFails, At, Pushes
  <2>4. QED BY <1>11, <2>1, <2>2, <2>3, <1>0 DEF DescribeFails, TypeOK
<1>12. ASSUME NEW c \in Clients, Expires(c) \/ ExpiresMeta(c) PROVE TypeOK'
  <2>1. [at |-> "expireMeta"] \in CallStates /\ [at |-> "readMeta"] \in CallStates
    BY DEF CallStates
  <2>2. call' \in [Clients -> CallStates \cup {None}]
    BY <1>12, <2>1, GotoType DEF Expires, ExpiresMeta
  <2>3. CASE Expires(c)
    BY <2>2, <2>3 DEF Expires, TypeOK, KeysOK
  <2>4. CASE ExpiresMeta(c)
    BY <2>2, <2>4 DEF ExpiresMeta, TypeOK, KeysOK
  <2>5. QED BY <1>12, <2>3, <2>4
<1>13. ASSUME NEW c \in Clients, ReadMeta(c) PROVE TypeOK'
  <2> DEFINE m == IF meta = None THEN [count |-> 0, last |-> None, ttl |-> TRUE]
                  ELSE [meta EXCEPT !.ttl = TRUE]
  <2>1. m \in Metas
    <3>1. CASE meta = None
      BY <3>1, LimitBounds DEF Metas
    <3>2. CASE meta # None
      <4>1. meta \in Metas
        BY <3>2 DEF TypeOK, KeysOK
      <4>2. QED BY <3>2, <4>1 DEF Metas
    <3>3. QED BY <3>1, <3>2
  <2>2. [at |-> "writeMeta", meta |-> m] \in CallStates
    BY <2>1 DEF CallStates
  <2>3. call' \in [Clients -> CallStates \cup {None}]
    BY <1>13, <2>2, GotoType DEF ReadMeta
  <2>4. QED BY <1>13, <2>3, <1>0 DEF ReadMeta, TypeOK
<1>14. ASSUME NEW c \in Clients, WriteMeta(c) PROVE TypeOK'
  <2>1. call[c].meta \in Metas /\ call[c].meta # None
    BY <1>14, CallShape, NoneAssumption DEF NoneAssumption, WriteMeta, At
  <2>2. call' \in [Clients -> CallStates \cup {None}]
    BY <1>14, GotoType DEF WriteMeta
  <2>3. QED BY <1>14, <2>1, <2>2 DEF WriteMeta, SetMeta, TypeOK, KeysOK
<1>15. ASSUME NEW c \in Clients, Scan(c) \/ ReadTtl(c) PROVE TypeOK'
  <2> DEFINE Walks == [at : {"scan", "ttl", "delete"}, lazy : BOOLEAN, seen : SUBSET Keys,
                       key : Keys \cup {None}]
  <2>1. call[c] \in Walks
    BY <1>15, CallShape DEF Scan, ReadTtl, At
  <2>2. \E s \in Walks : Goto(c, s)
    <3>1. CASE Scan(c)
      BY <2>1, <3>1 DEF Scan
    <3>2. CASE ReadTtl(c)
      BY <2>1, <3>2 DEF ReadTtl
    <3>3. QED BY <1>15, <3>1, <3>2
  <2>3. call' \in [Clients -> CallStates \cup {None}]
    BY <2>2, GotoType DEF CallStates
  <2>4. UNCHANGED <<list, metadata, delayed, bounds, ghosts>>
    BY <1>15 DEF Scan, ReadTtl
  <2>5. QED BY <2>3, <2>4, OnlyCall
<1>16. ASSUME NEW c \in Clients, Delete(c) PROVE TypeOK'
  <2> DEFINE s == [call[c] EXCEPT !.at = "scan"]
  <2>1. s \in CallStates
    BY <1>16, CallShape DEF Delete, At, CallStates
  <2>2. call' \in [Clients -> CallStates \cup {None}]
    BY <1>16, <2>1, GotoType DEF Delete
  <2>3. PICK K : Vanish(K)
    BY <1>16 DEF Delete
  <2>4. UNCHANGED <<delayed, bounds, acked, prior, slow>> /\ undisturbed' \in BOOLEAN
    BY <1>16 DEF Delete, TypeOK
  <2>5. QED BY <2>2, <2>3, <2>4, VanishStep
<1>17. ASSUME NEW c \in Clients, DeleteAll(c) PROVE TypeOK'
  <2>1. call' \in [Clients -> CallStates \cup {None}]
    BY <1>17, GotoType DEF DeleteAll
  <2>2. PICK K : Vanish(K)
    BY <1>17 DEF DeleteAll
  <2>3. UNCHANGED <<delayed, bounds, acked, prior, slow>> /\ undisturbed' \in BOOLEAN
    BY <1>17 DEF DeleteAll, TypeOK
  <2>4. QED BY <2>1, <2>2, <2>3, VanishStep
<1>18. ASSUME NEW c \in Clients, ScanEnds(c) PROVE TypeOK'
  BY <1>18, <1>0, GotoType DEF ScanEnds, TypeOK
<1>19. ASSUME NEW c \in Clients, CallFails(c) PROVE TypeOK'
  <2>1. faults' \in 0 .. MaxFaults /\ undisturbed' = FALSE
    BY <1>19, ManagerAssumption DEF ManagerAssumption, CallFails, Fail, TypeOK
  <2>2. call' \in [Clients -> CallStates \cup {None}]
    BY <1>19, GotoType DEF CallFails
  <2>3. QED BY <1>19, <2>1, <2>2, <1>0 DEF CallFails, TypeOK
<1>20. ASSUME NEW k \in Keys, Expire(k) PROVE TypeOK'
  <2>1. PICK K : Vanish(K)
    BY <1>20 DEF Expire
  <2>2. /\ UNCHANGED <<delayed, bounds, acked, prior, slow>> /\ undisturbed' \in BOOLEAN
        /\ call' \in [Clients -> CallStates \cup {None}]
    BY <1>20 DEF Expire, TypeOK
  <2>3. QED BY <2>1, <2>2, VanishStep
<1>21. CASE UNCHANGED vars
  BY <1>21 DEF vars, TypeOK, KeysOK
<1>22. QED
  BY <1>1, <1>3, <1>4, <1>6, <1>7, <1>8, <1>9, <1>10, <1>11, <1>12, <1>13, <1>14, <1>15, <1>16,
     <1>17, <1>18, <1>19, <1>20, <1>21
     DEF Next, Step

\* TypeOK of StateManager: whatever processes do at once, the list is no longer
\* than the longest that a caller asked for, and an absent key has no time to live.
THEOREM TypeCorrect == Spec => []TypeOK
<1>1. QED BY TypeInit, TypeStep, PTL DEF Spec
-----------------------------------------------------------------------------
(* CopiesBounded and NewestFirst                                           *)

Saving(c) == call[c] # None /\ call[c].at \in {"push", "count", "describe"}
SaveOf(c) == call[c].push.save

\* The MULTIs of save s that Redis may still execute, and the places of its copies.
Pending(s) == {m \in delayed : m.push.save = s}
Copies(s) == {i \in 1 .. Len(history) : history[i] = s}
Total(s) == Cardinality(Copies(s)) + Cardinality(Pending(s))

\* A save has a number of its own, that no call, item or MULTI had before.
Numbered ==
    /\ \A i \in 1 .. Len(history) : history[i] <= saves
    /\ \A m \in delayed : m.push.save <= saves
    /\ \A s \in acked : s <= saves
    /\ \A c \in Clients : Saving(c) => SaveOf(c) <= saves /\ SaveOf(c) \notin acked
    /\ \A c, d \in Clients : Saving(c) /\ Saving(d) /\ SaveOf(c) = SaveOf(d) => c = d

\* At its first attempt nothing of a save was sent; at the second, one MULTI was,
\* and it timed out.
Attempts ==
    \A c \in Clients, s \in Saves : At(c, "push") /\ SaveOf(c) = s =>
        IF call[c].again THEN Total(s) = 0 ELSE Total(s) <= 1 /\ s \in slow

\* The copies in the list and those that may still come are within the bound.
Bounded ==
    /\ IsFiniteSet(delayed)
    /\ \A s \in Saves : Total(s) <= IF s \in slow THEN 2 ELSE 1

\* Save s is in the list, or was.
Listed(s) == s \in acked \/ \E c \in Clients : Saving(c) /\ ~At(c, "push") /\ SaveOf(c) = s

\* No MULTI is on its way of a save that was answered at the first attempt.
Settled == \A s \in Saves : Listed(s) /\ s \notin slow => Pending(s) = {}

CopyInv == Numbered /\ Attempts /\ Bounded /\ Settled

\* Every a in the list has b in front of it.
Behind(b, a) == \A j \in 1 .. Len(history) : history[j] = a => \E i \in 1 .. j - 1 : history[i] = b

OrderInv ==
    /\ \A b \in Saves : prior[b] \subseteq acked
    /\ \A b \in Saves : Listed(b) => \A a \in prior[b] \ slow : Behind(b, a)

\* A call of one process is no matter of the others.
LEMMA Others ==
    ASSUME TypeOK, NEW c \in Clients, NEW s, Goto(c, s)
    PROVE  /\ call'[c] = s
           /\ \A d \in Clients \ {c} :
                 /\ Saving(d)' <=> Saving(d)
                 /\ SaveOf(d)' = SaveOf(d)
                 /\ At(d, "push")' <=> At(d, "push")
                 /\ call'[d] = call[d]
BY DEF TypeOK, Goto, Saving, SaveOf, At

LEMMA SaveType ==
    ASSUME TypeOK, NEW c \in Clients, Saving(c)
    PROVE  call[c].push \in Pushes /\ SaveOf(c) \in Saves
<1>1. call[c] # None /\ (At(c, "push") \/ At(c, "count") \/ At(c, "describe"))
  BY DEF Saving, At
<1>2. call[c].push \in Pushes
  BY <1>1, CallShape
<1>3. QED BY <1>2 DEF SaveOf, Pushes

LEMMA Finite ==
    ASSUME TypeOK, IsFiniteSet(delayed), NEW s
    PROVE  /\ IsFiniteSet(Copies(s)) /\ Cardinality(Copies(s)) \in Nat
           /\ IsFiniteSet(Pending(s)) /\ Cardinality(Pending(s)) \in Nat
           /\ Total(s) \in Nat
<1>1. Len(history) \in Nat
  BY DEF TypeOK, KeysOK
<1>2. IsFiniteSet(1 .. Len(history))
  BY <1>1, FS_Interval
<1>3. IsFiniteSet(Copies(s)) /\ IsFiniteSet(Pending(s))
  <2>1. Copies(s) \in SUBSET (1 .. Len(history)) /\ Pending(s) \in SUBSET delayed
    BY DEF Copies, Pending
  <2>2. QED BY <1>2, <2>1, FS_Subset
<1>4. QED BY <1>3, FS_CardinalityType DEF Total

\* LPUSH and LTRIM make one copy of the item more, at most, and none of another.
LEMMA CopiesMulti ==
    ASSUME TypeOK, NEW push \in Pushes, Multi(push), NEW s
    PROVE  /\ Cardinality(Copies(s)') \in Nat /\ Cardinality(Copies(s)) \in Nat
           /\ Cardinality(Copies(s)') <= Cardinality(Copies(s)) + (IF s = push.save THEN 1 ELSE 0)
<1> DEFINE A == Copies(s)
           B == Copies(s)'
           D == B \ {1}
           f == [i \in D |-> i - 1]
<1>0. history \in Seq(Saves) /\ Len(history) \in Nat
  BY DEF TypeOK, KeysOK
<1>1. /\ Len(history') \in Nat \ {0}
      /\ history'[1] = push.save
      /\ \A i \in 2 .. Len(history') : i - 1 \in 1 .. Len(history) /\ history'[i] = history[i - 1]
  BY <1>0, MultiList
<1>2. B = {i \in 1 .. Len(history') : history'[i] = s} /\ A = {i \in 1 .. Len(history) : history[i] = s}
  BY DEF Copies
<1>3. IsFiniteSet(A) /\ IsFiniteSet(B)
  <2>1. IsFiniteSet(1 .. Len(history)) /\ IsFiniteSet(1 .. Len(history'))
    BY <1>0, <1>1, FS_Interval
  <2>2. A \in SUBSET (1 .. Len(history)) /\ B \in SUBSET (1 .. Len(history'))
    BY <1>2
  <2>3. QED BY <2>1, <2>2, FS_Subset
<1>4. f \in Injection(D, A)
  <2>1. \A i \in D : i - 1 \in A /\ i \in Int
    <3>1. \A i \in D : i \in 2 .. Len(history') /\ history'[i] = s
      BY <1>1, <1>2
    <3>2. QED BY <1>1, <1>2, <3>1
  <2> HIDE DEF D, A
  <2>2. f \in [D -> A]
    BY <2>1
  <2>3. \A i, j \in D : f[i] = f[j] => i = j
    BY <2>1
  <2>4. QED BY <2>2, <2>3 DEF Injection, IsInjective
<1>5. Cardinality(D) <= Cardinality(A)
  <2> HIDE DEF D, A, f
  <2>1. QED BY <1>3, <1>4, FS_Injection
<1>6. /\ Cardinality(D) = IF 1 \in B THEN Cardinality(B) - 1 ELSE Cardinality(B)
      /\ Cardinality(A) \in Nat /\ Cardinality(B) \in Nat
  <2> HIDE DEF A, B
  <2>1. QED BY <1>3, FS_RemoveElement, FS_CardinalityType
<1>7. 1 \in B => s = push.save
  BY <1>1, <1>2
<1>8. QED
  <2> HIDE DEF A, B, D
  <2>1. Cardinality(B) <= Cardinality(A) + (IF s = push.save THEN 1 ELSE 0)
    BY <1>5, <1>6, <1>7
  <2>2. QED BY <1>6, <2>1 DEF A, B

\* Behind LPUSH and LTRIM: the item is in front of all that is left, and what was
\* in front of an item that is left still is.
LEMMA BehindMulti ==
    ASSUME TypeOK, NEW push \in Pushes, Multi(push), NEW a, a # push.save
    PROVE  /\ Behind(push.save, a)'
           /\ \A b : Behind(b, a) => Behind(b, a)'
<1>0. history \in Seq(Saves) /\ Len(history) \in Nat
  BY DEF TypeOK, KeysOK
<1>1. /\ Len(history') \in Nat \ {0}
      /\ history'[1] = push.save
      /\ \A i \in 2 .. Len(history') : i - 1 \in 1 .. Len(history) /\ history'[i] = history[i - 1]
  BY <1>0, MultiList
<1>2. ASSUME NEW j \in 1 .. Len(history'), history'[j] = a
      PROVE  1 \in 1 .. j - 1 /\ j \in 2 .. Len(history')
  BY <1>1, <1>2
<1>3. Behind(push.save, a)'
  BY <1>1, <1>2 DEF Behind
<1>4. ASSUME NEW b, Behind(b, a), NEW j \in 1 .. Len(history'), history'[j] = a
      PROVE  \E i \in 1 .. j - 1 : history'[i] = b
  <2>1. j \in 2 .. Len(history') /\ j - 1 \in 1 .. Len(history) /\ history[j - 1] = a
    BY <1>1, <1>2, <1>4
  <2>2. PICK i \in 1 .. j - 1 - 1 : history[i] = b
    BY <1>4, <2>1 DEF Behind
  <2>3. i + 1 \in 1 .. j - 1 /\ i + 1 \in 2 .. Len(history') /\ i + 1 - 1 = i
    BY <1>1, <2>1
  <2>4. history'[i + 1] = b
    BY <1>1, <2>2, <2>3
  <2>5. QED BY <2>3, <2>4
<1>5. QED BY <1>3, <1>4 DEF Behind

\* A MULTI more that may come late, or one less.
LEMMA PendingMore ==
    ASSUME IsFiniteSet(delayed), NEW m, delayed' = delayed \cup {m}, NEW s
    PROVE  /\ IsFiniteSet(delayed')
           /\ Cardinality(Pending(s)') \in Nat /\ Cardinality(Pending(s)) \in Nat
           /\ Cardinality(Pending(s)')
                <= Cardinality(Pending(s)) + (IF s = m.push.save THEN 1 ELSE 0)
           /\ s # m.push.save => Pending(s)' = Pending(s)
<1>1. IsFiniteSet(delayed') /\ IsFiniteSet(Pending(s))
  <2>1. Pending(s) \in SUBSET delayed
    BY DEF Pending
  <2>2. QED BY <2>1, FS_Subset, FS_AddElement
<1>2. Cardinality(Pending(s)) \in Nat
  BY <1>1, FS_CardinalityType
<1>3. CASE s = m.push.save
  <2>1. Pending(s)' = Pending(s) \cup {m}
    BY <1>3 DEF Pending
  <2>2. Cardinality(Pending(s) \cup {m}) \in {Cardinality(Pending(s)), Cardinality(Pending(s)) + 1}
    BY <1>1, FS_AddElement
  <2>3. QED BY <1>1, <1>2, <1>3, <2>1, <2>2
<1>4. CASE s # m.push.save
  <2>1. Pending(s)' = Pending(s)
    BY <1>4 DEF Pending
  <2>2. QED BY <1>1, <1>2, <1>4, <2>1
<1>5. QED BY <1>3, <1>4

LEMMA PendingLess ==
    ASSUME IsFiniteSet(delayed), NEW m \in delayed, delayed' = delayed \ {m}, NEW s
    PROVE  /\ IsFiniteSet(delayed')
           /\ Cardinality(Pending(s)') \in Nat /\ Cardinality(Pending(s)) \in Nat
           /\ Cardinality(Pending(s)')
                = Cardinality(Pending(s)) - (IF s = m.push.save THEN 1 ELSE 0)
           /\ Pending(s)' \subseteq Pending(s)
<1>1. IsFiniteSet(delayed') /\ IsFiniteSet(Pending(s)) /\ IsFiniteSet(Pending(s)')
  <2>1. Pending(s) \in SUBSET delayed /\ Pending(s)' \in SUBSET delayed'
    BY DEF Pending
  <2>2. IsFiniteSet(delayed')
    BY FS_RemoveElement
  <2>3. QED BY <2>1, <2>2, FS_Subset
<1>2. Cardinality(Pending(s)) \in Nat /\ Cardinality(Pending(s)') \in Nat
  BY <1>1, FS_CardinalityType
<1>3. Pending(s)' = Pending(s) \ {m} /\ (m \in Pending(s) <=> s = m.push.save)
  BY DEF Pending
<1>4. Cardinality(Pending(s) \ {m})
        = IF m \in Pending(s) THEN Cardinality(Pending(s)) - 1 ELSE Cardinality(Pending(s))
  BY <1>1, FS_RemoveElement
<1>5. QED BY <1>1, <1>2, <1>3, <1>4

\* A step that puts nothing into the list, sends nothing and answers no save.
LEMMA Quiet ==
    ASSUME TypeOK, CopyInv, OrderInv,
           UNCHANGED <<delayed, saves, acked, prior, slow>>,
           history' = history \/ history' = <<>>,
           \A c \in Clients : Saving(c)' =>
               Saving(c) /\ SaveOf(c)' = SaveOf(c) /\ (At(c, "push")' <=> At(c, "push"))
                         /\ (At(c, "push") => call'[c] = call[c])
    PROVE  CopyInv' /\ OrderInv'
<1>0. IsFiniteSet(delayed)
  BY DEF CopyInv, Bounded
<1>1. ASSUME NEW s
      PROVE  Total(s)' \in Nat /\ Total(s)' <= Total(s) /\ Total(s) \in Nat /\ Pending(s)' = Pending(s)
  <2>1. Pending(s)' = Pending(s)
    BY DEF Pending
  <2>2. CASE history' = history
    <3>1. Copies(s)' = Copies(s)
      BY <2>2 DEF Copies
    <3>2. Total(s)' = Total(s) /\ Total(s) \in Nat
      BY <1>0, <2>1, <3>1, Finite DEF Total
    <3>3. QED BY <2>1, <3>2
  <2>3. CASE history' = <<>>
    <3>1. Copies(s)' = {}
      BY <2>3 DEF Copies
    <3>2. Cardinality(Copies(s)') = 0
      BY <3>1, FS_EmptySet
    <3>3. Cardinality(Copies(s)) \in Nat /\ Cardinality(Pending(s)) \in Nat
      BY <1>0, Finite
    <3>4. QED BY <2>1, <3>2, <3>3 DEF Total
  <2>4. QED BY <2>2, <2>3
<1>2. Numbered'
  <2>1. \A i \in 1 .. Len(history') : history'[i] <= saves
    BY DEF CopyInv, Numbered
  <2>2. QED BY <2>1 DEF CopyInv, Numbered
<1>3. Attempts'
  <2>1. ASSUME NEW c \in Clients, NEW s \in Saves, At(c, "push")', SaveOf(c)' = s
        PROVE  IF call'[c].again THEN Total(s)' = 0 ELSE Total(s)' <= 1 /\ s \in slow'
    <3>1. Saving(c)'
      BY <2>1 DEF Saving, At
    <3>2. At(c, "push") /\ call'[c] = call[c] /\ SaveOf(c) = s
      BY <2>1, <3>1
    <3>3. IF call[c].again THEN Total(s) = 0 ELSE Total(s) <= 1 /\ s \in slow
      BY <3>2 DEF CopyInv, Attempts
    <3>4. QED BY <1>1, <3>2, <3>3
  <2>2. QED BY <2>1 DEF Attempts
<1>4. Bounded'
  <2>1. ASSUME NEW s \in Saves PROVE Total(s)' <= IF s \in slow' THEN 2 ELSE 1
    BY <1>1 DEF CopyInv, Bounded
  <2>2. QED BY <1>0, <2>1 DEF Bounded
<1>5. ASSUME NEW b, Listed(b)' PROVE Listed(b)
  BY <1>5 DEF Listed
<1>6. Settled'
  BY <1>1, <1>5 DEF CopyInv, Settled
<1>7. OrderInv'
  <2>1. ASSUME NEW b, NEW a, Behind(b, a) PROVE Behind(b, a)'
    BY <2>1 DEF Behind
  <2>2. QED BY <1>5, <2>1 DEF OrderInv
<1>8. QED BY <1>2, <1>3, <1>4, <1>6, <1>7 DEF CopyInv

\* What a step does to the number of copies that are or may come in the list.
LEMMA Totals ==
    ASSUME TypeOK, IsFiniteSet(delayed)
    PROVE  /\ UNCHANGED <<history, delayed>> => \A s : Total(s)' = Total(s)
           /\ \A m : UNCHANGED history /\ delayed' = delayed \cup {m} =>
                 \A s : /\ Total(s)' \in Nat
                        /\ Total(s)' <= Total(s) + (IF s = m.push.save THEN 1 ELSE 0)
           /\ \A push \in Pushes : UNCHANGED delayed /\ Multi(push) =>
                 \A s : /\ Total(s)' \in Nat
                        /\ Total(s)' <= Total(s) + (IF s = push.save THEN 1 ELSE 0)
           /\ \A m \in delayed : delayed' = delayed \ {m} /\ m.push \in Pushes /\ Multi(m.push) =>
                 \A s : Total(s)' \in Nat /\ Total(s)' <= Total(s)
<1>1. UNCHANGED <<history, delayed>> => \A s : Total(s)' = Total(s)
  BY DEF Total, Copies, Pending
<1>2. ASSUME NEW m, UNCHANGED history, delayed' = delayed \cup {m}, NEW s
      PROVE  /\ Total(s)' \in Nat
             /\ Total(s)' <= Total(s) + (IF s = m.push.save THEN 1 ELSE 0)
  <2>1. Copies(s)' = Copies(s)
    BY <1>2 DEF Copies
  <2>2. Cardinality(Copies(s)) \in Nat
    BY Finite
  <2>3. /\ Cardinality(Pending(s)') \in Nat /\ Cardinality(Pending(s)) \in Nat
        /\ Cardinality(Pending(s)')
             <= Cardinality(Pending(s)) + (IF s = m.push.save THEN 1 ELSE 0)
    BY <1>2, PendingMore
  <2>4. QED BY <2>1, <2>2, <2>3 DEF Total
<1>3. ASSUME NEW push \in Pushes, UNCHANGED delayed, Multi(push), NEW s
      PROVE  /\ Total(s)' \in Nat
             /\ Total(s)' <= Total(s) + (IF s = push.save THEN 1 ELSE 0)
  <2>1. Pending(s)' = Pending(s)
    BY <1>3 DEF Pending
  <2>2. Cardinality(Pending(s)) \in Nat
    BY Finite
  <2>3. /\ Cardinality(Copies(s)') \in Nat /\ Cardinality(Copies(s)) \in Nat
        /\ Cardinality(Copies(s)') <= Cardinality(Copies(s)) + (IF s = push.save THEN 1 ELSE 0)
    BY <1>3, CopiesMulti
  <2>4. QED BY <2>1, <2>2, <2>3 DEF Total
<1>4. ASSUME NEW m \in delayed, delayed' = delayed \ {m}, m.push \in Pushes, Multi(m.push), NEW s
      PROVE  Total(s)' \in Nat /\ Total(s)' <= Total(s)
  <2>1. /\ Cardinality(Pending(s)') \in Nat /\ Cardinality(Pending(s)) \in Nat
        /\ Cardinality(Pending(s)')
             = Cardinality(Pending(s)) - (IF s = m.push.save THEN 1 ELSE 0)
    BY <1>4, PendingLess
  <2>2. /\ Cardinality(Copies(s)') \in Nat /\ Cardinality(Copies(s)) \in Nat
        /\ Cardinality(Copies(s)') <= Cardinality(Copies(s)) + (IF s = m.push.save THEN 1 ELSE 0)
    BY <1>4, CopiesMulti
  <2>3. QED BY <2>1, <2>2 DEF Total
<1>5. QED BY <1>1, <1>2, <1>3, <1>4

LEMMA CopyInit == Init => CopyInv /\ OrderInv
<1> SUFFICES ASSUME Init PROVE CopyInv /\ OrderInv
  OBVIOUS
<1>1. /\ \A c \in Clients : ~Saving(c) /\ ~At(c, "push")
      /\ \A s : ~Listed(s)
  BY DEF Init, Saving, At, Listed
<1>2. Len(history) = 0 /\ 1 .. Len(history) = {}
  BY DEF Init
<1>3. \A s : Copies(s) = {} /\ Pending(s) = {}
  BY <1>2 DEF Init, Copies, Pending
<1>4. \A s : Total(s) = 0
  <2>1. Cardinality({}) = 0
    BY FS_EmptySet
  <2>2. QED BY <1>3, <2>1 DEF Total
<1>5. Numbered
  BY <1>1, <1>2 DEF Numbered, Init
<1>6. Attempts /\ Bounded /\ Settled
  BY <1>1, <1>4, FS_EmptySet DEF Attempts, Bounded, Settled, Init
<1>7. OrderInv
  BY <1>1 DEF OrderInv, Init
<1>8. QED BY <1>5, <1>6, <1>7 DEF CopyInv

\* A save begins: its number is a new one, and what was acknowledged before it is
\* in the list before it.
LEMMA SaveStep ==
    ASSUME TypeOK, CopyInv, OrderInv, NEW c \in Clients, NEW limit \in Limits, NEW ttl \in BOOLEAN,
           Save(c, limit, ttl)
    PROVE  CopyInv' /\ OrderInv'
<1> DEFINE n == saves + 1
           st == [at |-> "push", again |-> TRUE,
                  push |-> [save |-> saves', limit |-> limit, ttl |-> ttl]]
<1>1. /\ saves \in Nat /\ saves' = n /\ n \in Nat /\ n > saves /\ n \in Saves
      /\ UNCHANGED <<history, delayed, acked, slow>> /\ Goto(c, st)
      /\ prior' = [prior EXCEPT ![n] = acked] /\ call[c] = None
  BY ManagerAssumption DEF ManagerAssumption, Save, Begin, TypeOK, Saves, list
<1>2. /\ call'[c] = st
      /\ \A d \in Clients \ {c} :
            /\ Saving(d)' <=> Saving(d)
            /\ SaveOf(d)' = SaveOf(d)
            /\ At(d, "push")' <=> At(d, "push")
            /\ call'[d] = call[d]
  BY <1>1, Others
<1>3. SaveOf(c)' = n /\ st.at = "push" /\ st.again = TRUE
  BY <1>1, <1>2 DEF SaveOf
<1>4. st # None
  <2>1. st \in CallStates
    BY <1>1 DEF CallStates, Pushes
  <2>2. QED BY <2>1, NoneAssumption DEF NoneAssumption
<1>5. Saving(c)' /\ At(c, "push")' /\ ~Saving(c)
  BY <1>1, <1>2, <1>3, <1>4 DEF Saving, At
<1> HIDE DEF st, n
<1>6. \A i \in 1 .. Len(history) : history[i] \in Nat /\ history[i] < n
  <2>1. \A i \in 1 .. Len(history) : history[i] \in Saves
    BY DEF TypeOK, KeysOK
  <2>2. \A i \in 1 .. Len(history) : history[i] <= saves
    BY DEF CopyInv, Numbered
  <2>3. QED BY <1>1, <2>1, <2>2 DEF Saves
<1>7. \A s \in acked : s \in Nat /\ s < n
  BY <1>1 DEF CopyInv, Numbered, TypeOK, Saves
<1>8. \A d \in Clients : Saving(d) => SaveOf(d) \in Nat /\ SaveOf(d) < n
  BY <1>1, SaveType DEF CopyInv, Numbered, Saves
<1>9. Copies(n) = {} /\ Pending(n) = {} /\ n \notin acked
  <2>1. \A m \in delayed : m.push.save \in Nat /\ m.push.save < n
    BY <1>1 DEF CopyInv, Numbered, TypeOK, Pushes, Saves
  <2>2. QED BY <1>1, <1>6, <1>7, <2>1 DEF Copies, Pending
<1>10. \A s : Total(s)' = Total(s) /\ Pending(s)' = Pending(s)
  BY <1>1 DEF Total, Copies, Pending
<1>11. Total(n) = 0
  <2>1. Cardinality({}) = 0
    BY FS_EmptySet
  <2>2. QED BY <1>9, <2>1 DEF Total
<1>12. Numbered'
  <2>1. /\ \A i \in 1 .. Len(history') : history'[i] <= saves'
        /\ \A s \in acked' : s <= saves'
        /\ \A m \in delayed' : m.push.save <= saves'
    <3>1. \A m \in delayed : m.push.save \in Nat
      BY DEF TypeOK, Pushes, Saves
    <3>2. QED BY <1>1, <1>6, <1>7, <3>1 DEF CopyInv, Numbered
  <2>2. \A d \in Clients : Saving(d)' => SaveOf(d)' <= saves' /\ SaveOf(d)' \notin acked'
    BY <1>1, <1>2, <1>3, <1>8, <1>9 DEF CopyInv, Numbered
  <2>3. \A d, e \in Clients : Saving(d)' /\ Saving(e)' /\ SaveOf(d)' = SaveOf(e)' => d = e
    BY <1>1, <1>2, <1>3, <1>8 DEF CopyInv, Numbered
  <2>4. QED BY <2>1, <2>2, <2>3 DEF Numbered
<1>13. Attempts'
  BY <1>1, <1>2, <1>3, <1>10, <1>11 DEF CopyInv, Attempts
<1>14. Bounded'
  BY <1>1, <1>10 DEF CopyInv, Bounded
<1>15. \A s : Listed(s)' <=> Listed(s)
  BY <1>1, <1>2, <1>5 DEF Listed
<1>16. Settled'
  BY <1>1, <1>10, <1>15 DEF CopyInv, Settled
<1>17. OrderInv'
  <2>1. ~Listed(n)
    BY <1>1, <1>8, <1>9 DEF Listed
  <2>2. \A b \in Saves : b # n => prior'[b] = prior[b]
    BY <1>1 DEF TypeOK
  <2>3. prior'[n] = acked
    BY <1>1 DEF TypeOK
  <2>4. \A b, a : Behind(b, a)' <=> Behind(b, a)
    BY <1>1 DEF Behind
  <2>5. QED BY <1>1, <1>15, <2>1, <2>2, <2>3, <2>4 DEF OrderInv
<1>18. QED BY <1>12, <1>13, <1>14, <1>16, <1>17 DEF CopyInv

\* The MULTI is answered.
LEMMA PushStep ==
    ASSUME TypeOK, CopyInv, OrderInv, NEW c \in Clients, Push(c)
    PROVE  CopyInv' /\ OrderInv'
<1> DEFINE st == [at |-> "count", push |-> call[c].push]
<1>1. /\ At(c, "push") /\ Saving(c) /\ Multi(call[c].push) /\ Goto(c, st)
      /\ UNCHANGED <<delayed, saves, acked, slow, prior>>
  BY DEF Push, Saving, At, bounds, ghosts
<1>2. /\ call'[c] = st
      /\ \A d \in Clients \ {c} :
            /\ Saving(d)' <=> Saving(d)
            /\ SaveOf(d)' = SaveOf(d)
            /\ At(d, "push")' <=> At(d, "push")
            /\ call'[d] = call[d]
  BY <1>1, Others
<1>3. call[c].push \in Pushes /\ SaveOf(c) \in Saves
  BY <1>1, SaveType
<1>4. PICK push \in Pushes, s \in Saves : call[c].push = push /\ SaveOf(c) = s /\ push.save = s
  BY <1>3 DEF SaveOf
<1>5. st \in CallStates
  BY <1>3 DEF CallStates
<1>6. Saving(c)' /\ SaveOf(c)' = s /\ ~At(c, "push")'
  BY <1>2, <1>4, <1>5, NoneAssumption DEF NoneAssumption, Saving, SaveOf, At
<1> HIDE DEF st
<1>7. IF call[c].again THEN Total(s) = 0 ELSE Total(s) <= 1 /\ s \in slow
  BY <1>1, <1>4 DEF CopyInv, Attempts
<1>8. IsFiniteSet(delayed)
  BY DEF CopyInv, Bounded
<1>9. \A t : /\ Total(t)' \in Nat /\ Total(t) \in Nat
             /\ Total(t)' <= Total(t) + (IF t = s THEN 1 ELSE 0)
  <2>1. \A t : Total(t) \in Nat
    BY <1>8, Finite
  <2>2. Multi(push)
    BY <1>1, <1>4
  <2>3. QED BY <1>1, <1>4, <1>8, <2>1, <2>2, Totals
<1>10. s \notin acked /\ s <= saves /\ \A d \in Clients \ {c} : Saving(d) => SaveOf(d) # s
  BY <1>1, <1>4 DEF CopyInv, Numbered
<1>11. history \in Seq(Saves) /\ /\ Len(history') \in Nat \ {0}
       /\ history'[1] = push.save
       /\ \A i \in 2 .. Len(history') : i - 1 \in 1 .. Len(history) /\ history'[i] = history[i - 1]
  BY <1>1, <1>4, MultiList DEF TypeOK, KeysOK
<1>12. Numbered'
  <2>1. \A i \in 1 .. Len(history') : i = 1 \/ i \in 2 .. Len(history')
    BY <1>11
  <2>2. \A i \in 1 .. Len(history') : history'[i] <= saves'
    BY <1>1, <1>4, <1>10, <1>11, <2>1 DEF CopyInv, Numbered
  <2>3. \A d \in Clients : Saving(d)' => SaveOf(d)' <= saves' /\ SaveOf(d)' \notin acked'
    BY <1>1, <1>2, <1>6, <1>10 DEF CopyInv, Numbered
  <2>4. \A d, e \in Clients : Saving(d)' /\ Saving(e)' /\ SaveOf(d)' = SaveOf(e)' => d = e
    BY <1>1, <1>2, <1>4, <1>6 DEF CopyInv, Numbered
  <2>5. QED BY <1>1, <2>2, <2>3, <2>4 DEF CopyInv, Numbered
<1>13. Attempts'
  <2>1. ASSUME NEW d \in Clients, NEW t \in Saves, At(d, "push")', SaveOf(d)' = t
        PROVE  IF call'[d].again THEN Total(t)' = 0 ELSE Total(t)' <= 1 /\ t \in slow'
    <3>1. d # c /\ At(d, "push") /\ SaveOf(d) = t /\ call'[d] = call[d] /\ Saving(d)
      BY <1>2, <1>6, <2>1 DEF Saving, At
    <3>2. t # s
      BY <1>10, <3>1
    <3>3. IF call[d].again THEN Total(t) = 0 ELSE Total(t) <= 1 /\ t \in slow
      BY <3>1 DEF CopyInv, Attempts
    <3>4. QED BY <1>1, <1>9, <3>1, <3>2, <3>3
  <2>2. QED BY <2>1 DEF Attempts
<1>14. Bounded'
  <2>1. ASSUME NEW t \in Saves PROVE Total(t)' <= IF t \in slow' THEN 2 ELSE 1
    <3>1. Total(t) <= IF t \in slow THEN 2 ELSE 1
      BY DEF CopyInv, Bounded
    <3>2. QED BY <1>1, <1>7, <1>9, <3>1
  <2>2. QED BY <1>1, <1>8, <2>1 DEF Bounded
<1>15. \A t : Listed(t)' => Listed(t) \/ t = s
  BY <1>1, <1>2, <1>6 DEF Listed
<1>16. Settled'
  <2>1. \A t : Pending(t)' = Pending(t)
    BY <1>1 DEF Pending
  <2>2. s \notin slow => Pending(s) = {}
    <3>1. ASSUME s \notin slow PROVE Pending(s) = {}
      <4>1. Total(s) = 0
        BY <1>7, <3>1
      <4>2. Cardinality(Copies(s)) \in Nat /\ Cardinality(Pending(s)) \in Nat /\ IsFiniteSet(Pending(s))
        BY <1>8, Finite
      <4>3. Cardinality(Pending(s)) = 0
        BY <4>1, <4>2 DEF Total
      <4>4. QED BY <4>2, <4>3, FS_EmptySet
    <3>2. QED BY <3>1
  <2>3. QED BY <1>1, <1>15, <2>1, <2>2 DEF CopyInv, Settled
<1>17. OrderInv'
  <2>1. ASSUME NEW b \in Saves, Listed(b)', NEW a \in prior[b] \ slow PROVE Behind(b, a)'
    <3>1. a # push.save
      BY <1>4, <1>10 DEF OrderInv
    <3>2. Behind(push.save, a)' /\ (Behind(b, a) => Behind(b, a)')
      BY <1>1, <1>4, <3>1, BehindMulti
    <3>3. CASE Listed(b)
      BY <3>2, <3>3 DEF OrderInv
    <3>4. CASE b = s
      BY <1>4, <3>2, <3>4
    <3>5. QED BY <1>15, <2>1, <3>3, <3>4
  <2>2. QED BY <1>1, <2>1 DEF OrderInv
<1>18. QED BY <1>12, <1>13, <1>14, <1>16, <1>17 DEF CopyInv

\* No answer in time: the MULTI may come late, and is sent again or given up.
LEMMA TimeoutStep ==
    ASSUME TypeOK, CopyInv, OrderInv, NEW c \in Clients, PushTimeout(c)
    PROVE  CopyInv' /\ OrderInv'
<1> DEFINE st == IF call[c].again THEN [call[c] EXCEPT !.again = FALSE] ELSE None
<1>1. /\ At(c, "push") /\ Saving(c) /\ Goto(c, st)
      /\ UNCHANGED <<history, saves, acked, prior>>
      /\ slow' = slow \cup {SaveOf(c)} /\ delayed' = delayed \cup {Unanswered(c)}
  BY DEF PushTimeout, Saving, At, SaveOf, list
<1>2. /\ call'[c] = st
      /\ \A d \in Clients \ {c} :
            /\ Saving(d)' <=> Saving(d)
            /\ SaveOf(d)' = SaveOf(d)
            /\ At(d, "push")' <=> At(d, "push")
            /\ call'[d] = call[d]
  BY <1>1, Others
<1>3. PICK s \in Saves : SaveOf(c) = s /\ Unanswered(c).push.save = s
  BY <1>1, SaveType DEF SaveOf, Unanswered
<1>4. /\ Saving(c)' => call[c].again /\ At(c, "push")' /\ call'[c].again = FALSE /\ SaveOf(c)' = s
      /\ At(c, "push")' => Saving(c)'
  <2>1. call[c] \in [at : {"push"}, push : Pushes, again : BOOLEAN]
    BY <1>1, CallShape DEF At
  <2>2. CASE call[c].again
    <3>1. st = [call[c] EXCEPT !.again = FALSE] /\ st \in CallStates
      BY <2>1, <2>2 DEF CallStates
    <3>2. st # None /\ st.at = "push" /\ st.again = FALSE /\ st.push.save = s
      BY <1>3, <2>1, <3>1, NoneAssumption DEF NoneAssumption, SaveOf
    <3>3. QED BY <1>2, <2>2, <3>2 DEF Saving, At, SaveOf
  <2>3. CASE ~call[c].again
    BY <1>2, <2>3 DEF Saving, At
  <2>4. QED BY <2>2, <2>3
<1> HIDE DEF st
<1>5. IF call[c].again THEN Total(s) = 0 ELSE Total(s) <= 1 /\ s \in slow
  BY <1>1, <1>3 DEF CopyInv, Attempts
<1>6. IsFiniteSet(delayed) /\ IsFiniteSet(delayed')
  BY <1>1, PendingMore DEF CopyInv, Bounded
<1>7. \A t : /\ Total(t)' \in Nat /\ Total(t) \in Nat
             /\ Total(t)' <= Total(t) + (IF t = s THEN 1 ELSE 0)
  <2>1. \A t : Total(t) \in Nat
    BY <1>6, Finite
  <2>2. QED BY <1>1, <1>3, <1>6, <2>1, Totals
<1>8. s \notin acked /\ s <= saves /\ \A d \in Clients \ {c} : Saving(d) => SaveOf(d) # s
  BY <1>1, <1>3 DEF CopyInv, Numbered
<1>9. Numbered'
  BY <1>1, <1>2, <1>3, <1>4, <1>8 DEF CopyInv, Numbered
<1>10. Attempts'
  <2>1. ASSUME NEW d \in Clients, NEW t \in Saves, At(d, "push")', SaveOf(d)' = t
        PROVE  IF call'[d].again THEN Total(t)' = 0 ELSE Total(t)' <= 1 /\ t \in slow'
    <3>1. CASE d = c
      <4>1. t = s /\ call[c].again /\ call'[c].again = FALSE
        BY <1>4, <2>1, <3>1
      <4>2. QED BY <1>1, <1>3, <1>5, <1>7, <3>1, <4>1
    <3>2. CASE d # c
      <4>1. At(d, "push") /\ SaveOf(d) = t /\ call'[d] = call[d] /\ Saving(d)
        BY <1>2, <2>1, <3>2 DEF Saving, At
      <4>2. IF call[d].again THEN Total(t) = 0 ELSE Total(t) <= 1 /\ t \in slow
        BY <4>1 DEF CopyInv, Attempts
      <4>3. QED BY <1>1, <1>7, <1>8, <3>2, <4>1, <4>2
    <3>3. QED BY <3>1, <3>2
  <2>2. QED BY <2>1 DEF Attempts
<1>11. Bounded'
  <2>1. ASSUME NEW t \in Saves PROVE Total(t)' <= IF t \in slow' THEN 2 ELSE 1
    <3>1. Total(t) <= IF t \in slow THEN 2 ELSE 1
      BY DEF CopyInv, Bounded
    <3>2. CASE t = s
      BY <1>1, <1>3, <1>5, <1>7, <3>2
    <3>3. CASE t # s
      <4>1. (t \in slow' <=> t \in slow) /\ Total(t)' <= Total(t)
        BY <1>1, <1>3, <1>7, <3>3
      <4>2. QED BY <1>7, <3>1, <4>1
    <3>4. QED BY <3>2, <3>3
  <2>2. QED BY <1>6, <2>1 DEF Bounded
<1>12. \A t : Listed(t)' => Listed(t) /\ t # s
  BY <1>1, <1>2, <1>4, <1>8 DEF Listed
<1>13. Settled'
  <2>1. \A t : t # s => Pending(t)' = Pending(t)
    BY <1>1, <1>3, PendingMore DEF CopyInv, Bounded
  <2>2. QED BY <1>1, <1>12, <2>1 DEF CopyInv, Settled
<1>14. OrderInv'
  <2>1. \A b, a : Behind(b, a)' <=> Behind(b, a)
    BY <1>1 DEF Behind
  <2>2. QED BY <1>1, <1>12, <2>1 DEF OrderInv
<1>15. QED BY <1>9, <1>10, <1>11, <1>13, <1>14 DEF CopyInv

\* A MULTI that timed out is executed.
LEMMA LateStep ==
    ASSUME TypeOK, CopyInv, OrderInv, NEW m \in delayed, Late(m)
    PROVE  CopyInv' /\ OrderInv'
<1>1. /\ Multi(m.push) /\ UNCHANGED <<call, saves, acked, prior, slow>>
      /\ delayed' = delayed \ {m}
  BY DEF Late, bounds
<1>2. m.push \in Pushes
  BY DEF TypeOK
<1>3. PICK push \in Pushes, s \in Saves : m.push = push /\ push.save = s
  BY <1>2 DEF Pushes
<1>4. IsFiniteSet(delayed) /\ IsFiniteSet(delayed')
  BY <1>1, PendingLess DEF CopyInv, Bounded
<1>5. \A t : Total(t)' \in Nat /\ Total(t) \in Nat /\ Total(t)' <= Total(t)
  <2>1. \A t : Total(t) \in Nat
    BY <1>4, Finite
  <2>2. QED BY <1>1, <1>2, <1>4, <2>1, Totals
<1>6. \A t : Pending(t)' \subseteq Pending(t)
  BY <1>1 DEF Pending
<1>7. \A d \in Clients : (Saving(d)' <=> Saving(d)) /\ SaveOf(d)' = SaveOf(d) /\ (At(d, "push")' <=> At(d, "push"))
  BY <1>1 DEF Saving, SaveOf, At
<1>8. /\ Len(history') \in Nat \ {0}
      /\ history'[1] = push.save
      /\ \A i \in 2 .. Len(history') : i - 1 \in 1 .. Len(history) /\ history'[i] = history[i - 1]
  BY <1>1, <1>3, MultiList DEF TypeOK, KeysOK
<1>9. Numbered'
  <2>1. \A i \in 1 .. Len(history') : i = 1 \/ i \in 2 .. Len(history')
    BY <1>8
  <2>2. s <= saves
    BY <1>3 DEF CopyInv, Numbered
  <2>3. \A i \in 1 .. Len(history') : history'[i] <= saves'
    BY <1>1, <1>3, <1>8, <2>1, <2>2 DEF CopyInv, Numbered
  <2>4. QED BY <1>1, <1>7, <2>3 DEF CopyInv, Numbered
<1>10. Attempts'
  <2>1. ASSUME NEW d \in Clients, NEW t \in Saves, At(d, "push")', SaveOf(d)' = t
        PROVE  IF call'[d].again THEN Total(t)' = 0 ELSE Total(t)' <= 1 /\ t \in slow'
    <3>1. IF call[d].again THEN Total(t) = 0 ELSE Total(t) <= 1 /\ t \in slow
      BY <1>7, <2>1 DEF CopyInv, Attempts
    <3>2. QED BY <1>1, <1>5, <3>1
  <2>2. QED BY <2>1 DEF Attempts
<1>11. Bounded'
  <2>1. ASSUME NEW t \in Saves PROVE Total(t)' <= IF t \in slow' THEN 2 ELSE 1
    <3>1. Total(t) <= IF t \in slow THEN 2 ELSE 1
      BY DEF CopyInv, Bounded
    <3>2. QED BY <1>1, <1>5, <3>1
  <2>2. QED BY <1>4, <2>1 DEF Bounded
<1>12. \A t : Listed(t)' <=> Listed(t)
  BY <1>1, <1>7 DEF Listed
<1>13. Settled'
  BY <1>1, <1>6, <1>12 DEF CopyInv, Settled
<1>14. OrderInv'
  <2>1. ASSUME NEW b \in Saves, Listed(b), NEW a \in prior[b] \ slow PROVE Behind(b, a)'
    <3>1. a \in acked /\ a \notin slow /\ a \in Saves /\ Behind(b, a)
      BY <2>1 DEF OrderInv, TypeOK
    <3>2. Pending(a) = {}
      BY <3>1 DEF CopyInv, Settled, Listed
    <3>3. a # push.save
      BY <1>3, <3>2 DEF Pending
    <3>4. QED BY <1>1, <1>3, <3>1, <3>3, BehindMulti
  <2>2. QED BY <1>1, <1>12, <2>1 DEF OrderInv
<1>15. QED BY <1>9, <1>10, <1>11, <1>13, <1>14 DEF CopyInv

\* A save that came through ends, with its meta key or without.
LEMMA AnswerStep ==
    ASSUME TypeOK, CopyInv, OrderInv, NEW c \in Clients, Describe(c) \/ DescribeFails(c)
    PROVE  CopyInv' /\ OrderInv'
<1>1. /\ At(c, "describe") /\ Saving(c) /\ ~At(c, "push") /\ Goto(c, None)
      /\ UNCHANGED <<history, delayed, saves, prior, slow>>
      /\ acked' = acked \cup {SaveOf(c)}
  BY DEF Describe, DescribeFails, Saving, At, SaveOf, list, bounds
<1>2. /\ call'[c] = None
      /\ \A d \in Clients \ {c} :
            /\ Saving(d)' <=> Saving(d)
            /\ SaveOf(d)' = SaveOf(d)
            /\ At(d, "push")' <=> At(d, "push")
            /\ call'[d] = call[d]
  BY <1>1, Others
<1>3. ~Saving(c)' /\ ~At(c, "push")'
  BY <1>2 DEF Saving, At
<1>4. SaveOf(c) \in Saves /\ SaveOf(c) <= saves /\ \A d \in Clients \ {c} : Saving(d) => SaveOf(d) # SaveOf(c)
  BY <1>1, SaveType DEF CopyInv, Numbered
<1>5. \A t : Total(t)' = Total(t) /\ Pending(t)' = Pending(t)
  BY <1>1 DEF Total, Copies, Pending
<1>6. Numbered'
  BY <1>1, <1>2, <1>3, <1>4 DEF CopyInv, Numbered
<1>7. Attempts'
  BY <1>1, <1>2, <1>3, <1>5 DEF CopyInv, Attempts
<1>8. Bounded'
  BY <1>1, <1>5 DEF CopyInv, Bounded
<1>9. \A t : Listed(t)' => Listed(t)
  BY <1>1, <1>2, <1>3 DEF Listed
<1>10. Settled'
  BY <1>1, <1>5, <1>9 DEF CopyInv, Settled
<1>11. OrderInv'
  <2>1. \A b, a : Behind(b, a)' <=> Behind(b, a)
    BY <1>1 DEF Behind
  <2>2. QED BY <1>1, <1>9, <2>1 DEF OrderInv
<1>12. QED BY <1>6, <1>7, <1>8, <1>10, <1>11 DEF CopyInv

\* A save fails: its MULTI may still come, once.
LEMMA SaveFailsStep ==
    ASSUME TypeOK, CopyInv, OrderInv, NEW c \in Clients, SaveFails(c)
    PROVE  CopyInv' /\ OrderInv'
<1>1. /\ Saving(c) /\ Goto(c, None)
      /\ UNCHANGED <<history, saves, acked, prior, slow>>
      /\ delayed' # delayed => At(c, "push") /\ delayed' = delayed \cup {Unanswered(c)}
  BY DEF SaveFails, Saving, At, list
<1>2. /\ call'[c] = None
      /\ \A d \in Clients \ {c} :
            /\ Saving(d)' <=> Saving(d)
            /\ SaveOf(d)' = SaveOf(d)
            /\ At(d, "push")' <=> At(d, "push")
            /\ call'[d] = call[d]
  BY <1>1, Others
<1>3. ~Saving(c)' /\ ~At(c, "push")'
  BY <1>2 DEF Saving, At
<1>4. delayed' = delayed => CopyInv' /\ OrderInv'
  <2>1. \A d \in Clients : Saving(d)' => d # c
    BY <1>3
  <2>2. QED BY <1>1, <1>2, <2>1, Quiet
<1>5. CASE delayed' # delayed
  <2>1. At(c, "push") /\ delayed' = delayed \cup {Unanswered(c)}
    BY <1>1, <1>5
  <2>2. PICK s \in Saves : SaveOf(c) = s /\ Unanswered(c).push.save = s
    BY <1>1, SaveType DEF SaveOf, Unanswered
  <2>3. IF call[c].again THEN Total(s) = 0 ELSE Total(s) <= 1 /\ s \in slow
    BY <2>1, <2>2 DEF CopyInv, Attempts
  <2>4. IsFiniteSet(delayed) /\ IsFiniteSet(delayed')
    BY <2>1, PendingMore DEF CopyInv, Bounded
  <2>5. \A t : /\ Total(t)' \in Nat /\ Total(t) \in Nat
               /\ Total(t)' <= Total(t) + (IF t = s THEN 1 ELSE 0)
    <3>1. \A t : Total(t) \in Nat
      BY <2>4, Finite
    <3>2. QED BY <1>1, <2>1, <2>2, <2>4, <3>1, Totals
  <2>6. s \notin acked /\ s <= saves /\ \A d \in Clients \ {c} : Saving(d) => SaveOf(d) # s
    BY <1>1, <2>2 DEF CopyInv, Numbered
  <2>7. Numbered'
    BY <1>1, <1>2, <1>3, <2>1, <2>2, <2>6 DEF CopyInv, Numbered
  <2>8. Attempts'
    <3>1. ASSUME NEW d \in Clients, NEW t \in Saves, At(d, "push")', SaveOf(d)' = t
          PROVE  IF call'[d].again THEN Total(t)' = 0 ELSE Total(t)' <= 1 /\ t \in slow'
      <4>1. At(d, "push") /\ SaveOf(d) = t /\ call'[d] = call[d] /\ Saving(d) /\ d # c
        BY <1>2, <1>3, <3>1 DEF Saving, At
      <4>2. IF call[d].again THEN Total(t) = 0 ELSE Total(t) <= 1 /\ t \in slow
        BY <4>1 DEF CopyInv, Attempts
      <4>3. QED BY <1>1, <2>5, <2>6, <4>1, <4>2
    <3>2. QED BY <3>1 DEF Attempts
  <2>9. Bounded'
    <3>1. ASSUME NEW t \in Saves PROVE Total(t)' <= IF t \in slow' THEN 2 ELSE 1
      <4>1. Total(t) <= IF t \in slow THEN 2 ELSE 1
        BY DEF CopyInv, Bounded
      <4>2. QED BY <1>1, <2>3, <2>5, <4>1
    <3>2. QED BY <2>4, <3>1 DEF Bounded
  <2>10. \A t : Listed(t)' => Listed(t) /\ t # s
    BY <1>1, <1>2, <1>3, <2>6 DEF Listed
  <2>11. Settled'
    <3>1. \A t : t # s => Pending(t)' = Pending(t)
      BY <2>1, <2>2, <2>4, PendingMore
    <3>2. QED BY <1>1, <2>10, <3>1 DEF CopyInv, Settled
  <2>12. OrderInv'
    <3>1. \A b, a : Behind(b, a)' <=> Behind(b, a)
      BY <1>1 DEF Behind
    <3>2. QED BY <1>1, <2>10, <3>1 DEF OrderInv
  <2>13. QED BY <2>7, <2>8, <2>9, <2>11, <2>12 DEF CopyInv
<1>6. QED BY <1>4, <1>5

LEMMA CopyStep == TypeOK /\ CopyInv /\ OrderInv /\ [Next]_vars => CopyInv' /\ OrderInv'
<1> SUFFICES ASSUME TypeOK, CopyInv, OrderInv, [Next]_vars PROVE CopyInv' /\ OrderInv'
  OBVIOUS
<1> USE DEF list, bounds, ghosts
<1>1. ASSUME NEW c \in Clients, NEW s, Goto(c, s), s # None => s.at \notin {"push", "count", "describe"},
             UNCHANGED <<delayed, saves, acked, prior, slow>>,
             history' = history \/ history' = <<>>
      PROVE  CopyInv' /\ OrderInv'
  <2>1. ~Saving(c)'
    BY <1>1, Others DEF Saving
  <2>2. \A d \in Clients : Saving(d)' =>
            Saving(d) /\ SaveOf(d)' = SaveOf(d) /\ (At(d, "push")' <=> At(d, "push"))
                      /\ (At(d, "push") => call'[d] = call[d])
    BY <1>1, <2>1, Others
  <2>3. QED BY <1>1, <2>2, Quiet
<1>2. ASSUME NEW c \in Clients, UpdateTtl(c) \/ CleanExpiredData(c) \/ ClearAll(c) \/ Clear(c)
      PROVE  CopyInv' /\ OrderInv'
  <2>1. \E s : Goto(c, s) /\ s.at \notin {"push", "count", "describe"}
    BY <1>2 DEF UpdateTtl, CleanExpiredData, ClearAll, Clear, Ask, Begin
  <2>2. UNCHANGED <<history, delayed, saves, acked, prior, slow>>
    BY <1>2 DEF UpdateTtl, CleanExpiredData, ClearAll, Clear, Ask
  <2>3. QED BY <1>1, <2>1, <2>2
<1>3. ASSUME NEW c \in Clients, Count(c) PROVE CopyInv' /\ OrderInv'
  <2> DEFINE st == [at |-> "describe", push |-> call[c].push,
                    count |-> IF Len(history) < call[c].push.limit THEN Len(history)
                              ELSE call[c].push.limit]
  <2>1. /\ Goto(c, st) /\ Saving(c) /\ ~At(c, "push")
        /\ UNCHANGED <<history, delayed, saves, acked, prior, slow>>
    BY <1>3 DEF Count, Saving, At
  <2>2. st.push = call[c].push /\ st.at = "describe"
    OBVIOUS
  <2> HIDE DEF st
  <2>3. SaveOf(c)' = SaveOf(c) /\ ~At(c, "push")'
    BY <2>1, <2>2, Others DEF SaveOf, At
  <2>4. \A d \in Clients : Saving(d)' =>
            Saving(d) /\ SaveOf(d)' = SaveOf(d) /\ (At(d, "push")' <=> At(d, "push"))
                      /\ (At(d, "push") => call'[d] = call[d])
    BY <2>1, <2>3, Others
  <2>5. QED BY <2>1, <2>4, Quiet
<1>4. ASSUME NEW c \in Clients,
             Expires(c) \/ ExpiresMeta(c) \/ ReadMeta(c) \/ WriteMeta(c) \/ ScanEnds(c) \/ CallFails(c)
      PROVE  CopyInv' /\ OrderInv'
  <2>1. \E s : Goto(c, s) /\ (s # None => s.at \notin {"push", "count", "describe"})
    <3>1. CASE Expires(c)
      BY <3>1 DEF Expires
    <3>2. CASE ExpiresMeta(c)
      BY <3>2 DEF ExpiresMeta
    <3>3. CASE ReadMeta(c)
      BY <3>3 DEF ReadMeta
    <3>4. CASE WriteMeta(c) \/ ScanEnds(c) \/ CallFails(c)
      BY <3>4 DEF WriteMeta, ScanEnds, CallFails
    <3>5. QED BY <1>4, <3>1, <3>2, <3>3, <3>4
  <2>2. UNCHANGED <<history, delayed, saves, acked, prior, slow>>
    BY <1>4 DEF Expires, ExpiresMeta, ReadMeta, WriteMeta, ScanEnds, CallFails
  <2>3. QED BY <1>1, <2>1, <2>2
<1>5. ASSUME NEW c \in Clients, Scan(c) \/ ReadTtl(c) \/ Delete(c)
      PROVE  CopyInv' /\ OrderInv'
  <2>1. /\ call[c] \in [at : {"scan", "ttl", "delete"}, lazy : BOOLEAN, seen : SUBSET Keys,
                        key : Keys \cup {None}]
    BY <1>5, CallShape DEF Scan, ReadTtl, Delete, At
  <2>2. \E s : Goto(c, s) /\ s.at \notin {"push", "count", "describe"}
    <3>1. CASE Scan(c)
      <4>1. PICK k \in Keys \ call[c].seen :
                Goto(c, [call[c] EXCEPT !.seen = @ \cup {k}, !.key = k,
                       !.at = IF ~Exists(k) THEN "scan" ELSE IF call[c].lazy THEN "ttl" ELSE "delete"])
        BY <3>1 DEF Scan
      <4>2. [call[c] EXCEPT !.seen = @ \cup {k}, !.key = k,
                       !.at = IF ~Exists(k) THEN "scan" ELSE IF call[c].lazy THEN "ttl" ELSE "delete"].at
              \notin {"push", "count", "describe"}
        BY <2>1
      <4>3. QED BY <4>1, <4>2
    <3>2. CASE ReadTtl(c)
      BY <2>1, <3>2 DEF ReadTtl
    <3>3. CASE Delete(c)
      BY <2>1, <3>3 DEF Delete
    <3>4. QED BY <1>5, <3>1, <3>2, <3>3
  <2>3. UNCHANGED <<delayed, saves, acked, prior, slow>> /\ (history' = history \/ history' = <<>>)
    BY <1>5 DEF Scan, ReadTtl, Delete, Vanish
  <2>4. QED BY <1>1, <2>2, <2>3
<1>6. ASSUME NEW c \in Clients, DeleteAll(c) PROVE CopyInv' /\ OrderInv'
  <2>1. Goto(c, None) /\ UNCHANGED <<delayed, saves, acked, prior, slow>>
        /\ (history' = history \/ history' = <<>>)
    BY <1>6 DEF DeleteAll, Vanish
  <2>2. QED BY <1>1, <2>1
<1>7. ASSUME UNCHANGED <<call, delayed, saves, acked, prior, slow>>,
             history' = history \/ history' = <<>>
      PROVE  CopyInv' /\ OrderInv'
  <2>1. \A d \in Clients : Saving(d)' =>
            Saving(d) /\ SaveOf(d)' = SaveOf(d) /\ (At(d, "push")' <=> At(d, "push"))
                      /\ (At(d, "push") => call'[d] = call[d])
    BY <1>7 DEF Saving, SaveOf, At
  <2>2. QED BY <1>7, <2>1, Quiet
<1>8. ASSUME NEW k \in Keys, Expire(k) PROVE CopyInv' /\ OrderInv'
  BY <1>7, <1>8 DEF Expire, Vanish
<1>9. CASE UNCHANGED vars
  BY <1>7, <1>9 DEF vars
<1>10. QED
  BY <1>2, <1>3, <1>4, <1>5, <1>6, <1>8, <1>9, SaveStep, PushStep, TimeoutStep, LateStep, AnswerStep,
     SaveFailsStep
     DEF Next, Step

LEMMA OrderHolds == Spec => [](TypeOK /\ CopyInv /\ OrderInv)
<1>1. QED BY TypeInit, TypeStep, CopyInit, CopyStep, PTL DEF Spec

\* CopiesBounded of StateManager: a save that is sent again because it timed out is
\* in the history twice at most, and any other once.
THEOREM CopiesBoundedHolds == Spec => []CopiesBounded
<1>1. TypeOK /\ CopyInv /\ OrderInv => CopiesBounded
  <2> SUFFICES ASSUME TypeOK, CopyInv, NEW s \in Saves
               PROVE  Cardinality({i \in DOMAIN history : history[i] = s})
                        <= IF s \in slow THEN 2 ELSE 1
    BY DEF CopiesBounded
  <2>1. {i \in DOMAIN history : history[i] = s} = Copies(s)
    BY DEF Copies, TypeOK, KeysOK
  <2>2. Cardinality(Copies(s)) \in Nat /\ Cardinality(Pending(s)) \in Nat
    BY Finite DEF CopyInv, Bounded
  <2>3. Cardinality(Copies(s)) + Cardinality(Pending(s)) <= IF s \in slow THEN 2 ELSE 1
    BY DEF CopyInv, Bounded, Total
  <2>4. QED BY <2>1, <2>2, <2>3
<1>2. QED BY <1>1, OrderHolds, PTL

\* NewestFirst of StateManager: a save that began after another one was answered is in
\* front of it in whatever get_history returns, though MULTIs are sent again, come
\* late or race with those of other processes, keys expire and are deleted.
THEOREM NewestFirstHolds == Spec => []NewestFirst
<1>1. TypeOK /\ CopyInv /\ OrderInv => NewestFirst
  <2> SUFFICES ASSUME TypeOK, OrderInv,
                      NEW b \in acked, NEW a \in prior[b] \ slow, NEW count \in 1 .. MaxLimit,
                      a \in ToSet(GetHistory(count))
               PROVE  \E i, j \in DOMAIN GetHistory(count) :
                         i < j /\ GetHistory(count)[i] = b /\ GetHistory(count)[j] = a
    BY DEF NewestFirst
  <2> DEFINE n == IF Len(history) < count THEN Len(history) ELSE count
             g == GetHistory(count)
  <2>1. history \in Seq(Saves) /\ Len(history) \in Nat /\ count \in Nat
    BY LimitBounds DEF TypeOK, KeysOK
  <2>2. n \in 0 .. Len(history) /\ n \in Int
    BY <2>1
  <2>3. g = SubSeq(history, 1, n)
    BY DEF GetHistory
  <2> HIDE DEF n, g
  <2>4. DOMAIN g = 1 .. n /\ \A i \in 1 .. n : g[i] = history[i] /\ i \in 1 .. Len(history)
    <3>1. \A i \in 1 .. n : history[i] \in Saves /\ i \in 1 .. Len(history)
      BY <2>1, <2>2
    <3>2. /\ g \in Seq(Saves) /\ Len(g) = IF 1 <= n THEN n - 1 + 1 ELSE 0
          /\ \A i \in 1 .. n - 1 + 1 : g[i] = history[1 + i - 1]
      BY <2>2, <2>3, <3>1, SubSeqProperties
    <3>3. Len(g) = n /\ n - 1 + 1 = n /\ \A i \in 1 .. n : 1 + i - 1 = i
      BY <2>2, <3>2
    <3>4. QED BY <3>1, <3>2, <3>3
  <2>5. PICK j \in 1 .. n : g[j] = a
    BY <2>4 DEF ToSet, g
  <2>6. Behind(b, a)
    BY DEF OrderInv, TypeOK, Listed
  <2>7. PICK i \in 1 .. j - 1 : history[i] = b
    BY <2>4, <2>5, <2>6 DEF Behind
  <2>8. i \in 1 .. n /\ i < j
    BY <2>2, <2>5, <2>7
  <2>9. QED BY <2>4, <2>5, <2>7, <2>8 DEF g
<1>2. QED BY <1>1, OrderHolds, PTL
-----------------------------------------------------------------------------
(* MetaAgrees                                                              *)

\* m says of the list what is so.
Describes(m) ==
    /\ history # <<>> => m.count = Len(history) /\ m.last = Head(history)
    /\ history = <<>> => m.count = 0

Agree ==
    /\ history # <<>> => meta # None /\ (metaMortal => mortal)
    /\ meta # None => Describes(meta)

\* What a call that nothing disturbs has behind it, at each of its commands.
SaveAgrees(c) ==
    /\ call[c].at = "push" => Agree
    /\ call[c].at \in {"count", "describe"} =>
           /\ history # <<>> /\ Head(history) = SaveOf(c)
           /\ Len(history) <= call[c].push.limit
           /\ call[c].push.ttl => mortal
    /\ call[c].at = "describe" => call[c].count = Len(history)

TtlAgrees(c) ==
    /\ call[c].at \in {"expire", "expireMeta", "readMeta", "writeMeta"} => Agree
    /\ call[c].at \in {"expireMeta", "readMeta", "writeMeta"} => (history # <<>> => mortal)
    /\ call[c].at = "writeMeta" => Describes(call[c].meta)

CleanAgrees(c) ==
    /\ call[c].at \in {"scan", "ttl", "delete"} =>
           IF call[c].lazy
           THEN /\ Agree /\ call[c].at # "delete"
                /\ call[c].at = "ttl" => Exists(call[c].key)
           ELSE /\ call[c].at # "ttl"
                /\ \A k \in call[c].seen : Exists(k) => call[c].at = "delete" /\ k = call[c].key
    /\ call[c].at = "deleteAll" => \A k \in Keys : Exists(k) => k \in call[c].todo

AgreeInv ==
    undisturbed =>
        /\ \A c, d \in Clients : call[c] # None /\ call[d] # None => c = d
        /\ (\A c \in Clients : call[c] = None) => Agree
        /\ \A c \in Clients : call[c] # None => SaveAgrees(c) /\ TtlAgrees(c) /\ CleanAgrees(c)

\* Only the call of c was on, and it goes to s.
LEMMA AgreeGoto ==
    ASSUME TypeOK, AgreeInv, NEW c \in Clients, NEW s, Goto(c, s),
           undisturbed' => undisturbed,
           undisturbed' => call[c] # None \/ \A d \in Clients : call[d] = None,
           undisturbed' /\ s = None => Agree',
           undisturbed' /\ s # None => SaveAgrees(c)' /\ TtlAgrees(c)' /\ CleanAgrees(c)'
    PROVE  AgreeInv'
<1> SUFFICES ASSUME undisturbed'
             PROVE  /\ \A d, e \in Clients : call'[d] # None /\ call'[e] # None => d = e
                    /\ (\A d \in Clients : call'[d] = None) => Agree'
                    /\ \A d \in Clients : call'[d] # None =>
                          SaveAgrees(d)' /\ TtlAgrees(d)' /\ CleanAgrees(d)'
  BY DEF AgreeInv
<1>1. call'[c] = s /\ \A d \in Clients \ {c} : call'[d] = None
  BY DEF Goto, TypeOK, AgreeInv
<1>2. QED BY <1>1

\* A call begins while no other is on.
LEMMA AgreeBegin ==
    ASSUME TypeOK, AgreeInv, NEW c \in Clients, NEW s \in CallStates, Begin(c, s),
           UNCHANGED <<list, metadata>>,
           undisturbed' /\ Agree' => SaveAgrees(c)' /\ TtlAgrees(c)' /\ CleanAgrees(c)'
    PROVE  AgreeInv'
<1>1. undisturbed' => undisturbed /\ (\A d \in Clients : call[d] = None) /\ Agree
  BY DEF Begin, AgreeInv
<1>2. Agree => Agree'
  BY DEF Agree, Describes, list, metadata
<1>3. s # None
  BY NoneAssumption DEF NoneAssumption
<1>4. QED BY <1>1, <1>2, <1>3, AgreeGoto DEF Begin

LEMMA AgreeStep == TypeOK /\ AgreeInv /\ [Next]_vars => AgreeInv'
<1> SUFFICES ASSUME TypeOK, AgreeInv, [Next]_vars PROVE AgreeInv'
  OBVIOUS
<1> USE DEF list, metadata, bounds, ghosts
<1>0. CASE ~undisturbed'
  BY <1>0 DEF AgreeInv
<1>1. ASSUME NEW c \in Clients, NEW limit \in Limits, NEW ttl \in BOOLEAN, Save(c, limit, ttl)
      PROVE  AgreeInv'
  <2> DEFINE st == [at |-> "push", again |-> TRUE,
                    push |-> [save |-> saves', limit |-> limit, ttl |-> ttl]]
  <2>1. st \in CallStates
    <3>1. saves' \in Saves
      BY <1>1, ManagerAssumption DEF ManagerAssumption, Save, TypeOK, Saves
    <3>2. QED BY <3>1 DEF CallStates, Pushes
  <2>2. Begin(c, st) /\ UNCHANGED <<list, metadata>>
    BY <1>1 DEF Save
  <2>3. call'[c] = st
    BY <2>2 DEF Begin, Goto, TypeOK
  <2>4. call'[c].at = "push"
    BY <2>3
  <2>5. Agree' => SaveAgrees(c)' /\ TtlAgrees(c)' /\ CleanAgrees(c)'
    BY <2>4 DEF SaveAgrees, TtlAgrees, CleanAgrees
  <2>6. QED BY <2>1, <2>2, <2>5, AgreeBegin
<1>2. ASSUME NEW c \in Clients, UpdateTtl(c) PROVE AgreeInv'
  <2>1. /\ Begin(c, [at |-> "expire"]) /\ UNCHANGED <<list, metadata>> /\ [at |-> "expire"] \in CallStates
    BY <1>2 DEF UpdateTtl, Ask, CallStates
  <2>2. call'[c].at = "expire"
    BY <2>1 DEF Begin, Goto, TypeOK
  <2>3. Agree' => SaveAgrees(c)' /\ TtlAgrees(c)' /\ CleanAgrees(c)'
    BY <2>2 DEF SaveAgrees, TtlAgrees, CleanAgrees
  <2>4. QED BY <2>1, <2>3, AgreeBegin
<1>3. ASSUME NEW c \in Clients, NEW lazy \in BOOLEAN,
             Ask(c, [at |-> "scan", lazy |-> lazy, seen |-> {}, key |-> None])
      PROVE  AgreeInv'
  <2> DEFINE st == [at |-> "scan", lazy |-> lazy, seen |-> {}, key |-> None]
  <2>1. Begin(c, st) /\ UNCHANGED <<list, metadata>> /\ st \in CallStates
    BY <1>3 DEF Ask, CallStates
  <2>2. call'[c] = st
    BY <2>1 DEF Begin, Goto, TypeOK
  <2>3. call'[c].at = "scan" /\ call'[c].seen = {}
    BY <2>2
  <2>4. Agree' => SaveAgrees(c)' /\ TtlAgrees(c)' /\ CleanAgrees(c)'
    BY <2>3 DEF SaveAgrees, TtlAgrees, CleanAgrees
  <2>5. QED BY <2>1, <2>4, AgreeBegin
<1>4. ASSUME NEW c \in Clients, Clear(c) PROVE AgreeInv'
  <2> DEFINE st == [at |-> "deleteAll", todo |-> {k \in Keys : Exists(k)}]
  <2>1. Begin(c, st) /\ UNCHANGED <<list, metadata>> /\ st \in CallStates
    BY <1>4 DEF Clear, Ask, CallStates
  <2>2. call'[c] = st
    BY <2>1 DEF Begin, Goto, TypeOK
  <2>3. call'[c].at = "deleteAll" /\ call'[c].todo = {k \in Keys : Exists(k)}
    BY <2>2
  <2>4. \A k \in Keys : Exists(k)' <=> Exists(k)
    BY <2>1 DEF Exists
  <2>5. Agree' => SaveAgrees(c)' /\ TtlAgrees(c)' /\ CleanAgrees(c)'
    BY <2>3, <2>4 DEF SaveAgrees, TtlAgrees, CleanAgrees
  <2>6. QED BY <2>1, <2>5, AgreeBegin
<1>5. ASSUME NEW c \in Clients, call[c] # None, undisturbed
      PROVE  SaveAgrees(c) /\ TtlAgrees(c) /\ CleanAgrees(c)
  BY <1>5 DEF AgreeInv
<1>6. ASSUME NEW c \in Clients, Push(c), undisturbed' PROVE AgreeInv'
  <2> DEFINE st == [at |-> "count", push |-> call[c].push]
  <2>1. At(c, "push") /\ Multi(call[c].push) /\ Goto(c, st) /\ undisturbed /\ call[c] # None
    BY <1>6 DEF Push, At
  <2>2. call[c].push \in Pushes /\ history \in Seq(Saves)
    BY <2>1, CallShape DEF TypeOK, KeysOK
  <2>3. /\ call'[c] = st /\ call'[c].at = "count" /\ call'[c].push = call[c].push
        /\ SaveOf(c)' = call[c].push.save
    BY <2>1, Others DEF SaveOf
  <2>4. /\ Len(history') \in Nat \ {0} /\ history' \in Seq(Saves)
        /\ Len(history') <= call[c].push.limit
        /\ history'[1] = call[c].push.save
    <3>1. Len(history) \in Nat /\ call[c].push.limit \in Nat
      BY <2>2, LimitBounds DEF Pushes
    <3>2. QED BY <2>1, <2>2, <3>1, MultiList
  <2>5. history' # <<>> /\ Head(history') = call[c].push.save
    BY <2>4
  <2>6. call[c].push.ttl => mortal'
    BY <2>1 DEF Multi
  <2>7. SaveAgrees(c)' /\ TtlAgrees(c)' /\ CleanAgrees(c)'
    BY <2>3, <2>4, <2>5, <2>6 DEF SaveAgrees, TtlAgrees, CleanAgrees
  <2>8. st # None
    <3>1. st \in CallStates
      BY <2>2 DEF CallStates
    <3>2. QED BY <3>1, NoneAssumption DEF NoneAssumption
  <2>9. QED BY <2>1, <2>7, <2>8, AgreeGoto
<1>7. ASSUME NEW c \in Clients, PushTimeout(c), undisturbed' PROVE AgreeInv'
  <2> DEFINE st == IF call[c].again THEN [call[c] EXCEPT !.again = FALSE] ELSE None
  <2>1. At(c, "push") /\ Goto(c, st) /\ undisturbed /\ call[c] # None /\ UNCHANGED <<list, metadata>>
    BY <1>7 DEF PushTimeout, At
  <2>2. Agree
    BY <1>5, <2>1 DEF SaveAgrees, At
  <2>3. Agree'
    BY <2>1, <2>2 DEF Agree, Describes
  <2>4. st # None => st.at = "push"
    <3>1. call[c] \in [at : {"push"}, push : Pushes, again : BOOLEAN]
      BY <2>1, CallShape
    <3>2. QED BY <3>1
  <2>5. call'[c] = st
    BY <2>1, Others
  <2> HIDE DEF st
  <2>6. st # None => SaveAgrees(c)' /\ TtlAgrees(c)' /\ CleanAgrees(c)'
    BY <2>3, <2>4, <2>5 DEF SaveAgrees, TtlAgrees, CleanAgrees
  <2>7. QED BY <2>1, <2>3, <2>6, AgreeGoto
<1>8. ASSUME NEW c \in Clients, Count(c), undisturbed' PROVE AgreeInv'
  <2> DEFINE n == IF Len(history) < call[c].push.limit THEN Len(history) ELSE call[c].push.limit
             st == [at |-> "describe", push |-> call[c].push, count |-> n]
  <2>1. /\ At(c, "count") /\ call[c].at = "count" /\ Goto(c, st) /\ undisturbed /\ call[c] # None
        /\ UNCHANGED <<list, metadata>>
    BY <1>8 DEF Count, At
  <2>2. /\ history # <<>> /\ Head(history) = SaveOf(c)
        /\ Len(history) <= call[c].push.limit
        /\ call[c].push.ttl => mortal
    BY <1>5, <2>1 DEF SaveAgrees
  <2>3. call[c].push \in Pushes /\ Len(history) \in Nat /\ call[c].push.limit \in Nat
    BY <2>1, CallShape, LimitBounds DEF TypeOK, KeysOK, Pushes
  <2>4. n = Len(history)
    <3>1. ASSUME NEW a \in Nat, NEW b \in Nat, a <= b PROVE (IF a < b THEN a ELSE b) = a
      BY <3>1
    <3>2. QED BY <2>2, <2>3, <3>1
  <2> HIDE DEF n
  <2>5. /\ call'[c] = st /\ call'[c].at = "describe" /\ call'[c].push = call[c].push
        /\ call'[c].count = n
    BY <2>1, Others
  <2>6. SaveAgrees(c)' /\ TtlAgrees(c)' /\ CleanAgrees(c)'
    BY <2>1, <2>2, <2>4, <2>5 DEF SaveAgrees, TtlAgrees, CleanAgrees, SaveOf
  <2>7. st # None
    <3>1. n \in 0 .. MaxLimit
      BY <2>3, <2>4 DEF TypeOK, KeysOK
    <3>2. st \in CallStates
      BY <2>3, <3>1 DEF CallStates
    <3>3. QED BY <3>2, NoneAssumption DEF NoneAssumption
  <2>8. QED BY <2>1, <2>6, <2>7, AgreeGoto
<1>9. ASSUME NEW c \in Clients, Describe(c), undisturbed' PROVE AgreeInv'
  <2> DEFINE m == [count |-> call[c].count, last |-> call[c].push.save, ttl |-> call[c].push.ttl]
  <2>1. /\ At(c, "describe") /\ call[c].at = "describe" /\ Goto(c, None) /\ undisturbed /\ call[c] # None
        /\ UNCHANGED <<list>> /\ meta' = m /\ metaMortal' = call[c].push.ttl
    BY <1>9 DEF Describe, At, SetMeta
  <2>2. /\ history # <<>> /\ Head(history) = SaveOf(c)
        /\ call[c].push.ttl => mortal
        /\ call[c].count = Len(history)
    BY <1>5, <2>1 DEF SaveAgrees
  <2>3. m # None
    <3>1. call[c] \in [at : {"describe"}, push : Pushes, count : 0 .. MaxLimit]
      BY <2>1, CallShape
    <3>2. m \in Metas
      BY <3>1 DEF Metas, Pushes
    <3>3. QED BY <3>2, NoneAssumption DEF NoneAssumption
  <2>4. m.count = Len(history) /\ m.last = Head(history)
    BY <2>2 DEF SaveOf
  <2> HIDE DEF m
  <2>5. Agree'
    BY <2>1, <2>2, <2>3, <2>4 DEF Agree, Describes
  <2>6. QED BY <2>1, <2>5, AgreeGoto
<1>10. ASSUME NEW c \in Clients, Expires(c), undisturbed' PROVE AgreeInv'
  <2>1. /\ call[c].at = "expire" /\ Goto(c, [at |-> "expireMeta"]) /\ undisturbed /\ call[c] # None
        /\ UNCHANGED <<history, metadata>> /\ mortal' = (history # <<>>)
    BY <1>10 DEF Expires, At
  <2>2. Agree
    BY <1>5, <2>1 DEF TtlAgrees
  <2>3. Agree' /\ (history' # <<>> => mortal')
    BY <2>1, <2>2 DEF Agree, Describes
  <2>4. call'[c].at = "expireMeta" /\ [at |-> "expireMeta"] # None
    BY <2>1, Others, NoneAssumption DEF NoneAssumption, CallStates
  <2>5. SaveAgrees(c)' /\ TtlAgrees(c)' /\ CleanAgrees(c)'
    BY <2>3, <2>4 DEF SaveAgrees, TtlAgrees, CleanAgrees
  <2>6. QED BY <2>1, <2>4, <2>5, AgreeGoto
<1>11. ASSUME NEW c \in Clients, ExpiresMeta(c), undisturbed' PROVE AgreeInv'
  <2>1. /\ call[c].at = "expireMeta" /\ Goto(c, [at |-> "readMeta"]) /\ undisturbed /\ call[c] # None
        /\ UNCHANGED <<list, meta>>
    BY <1>11 DEF ExpiresMeta, At
  <2>2. Agree /\ (history # <<>> => mortal)
    BY <1>5, <2>1 DEF TtlAgrees
  <2>3. Agree' /\ (history' # <<>> => mortal')
    BY <2>1, <2>2 DEF Agree, Describes
  <2>4. call'[c].at = "readMeta" /\ [at |-> "readMeta"] # None
    BY <2>1, Others, NoneAssumption DEF NoneAssumption, CallStates
  <2>5. SaveAgrees(c)' /\ TtlAgrees(c)' /\ CleanAgrees(c)'
    BY <2>3, <2>4 DEF SaveAgrees, TtlAgrees, CleanAgrees
  <2>6. QED BY <2>1, <2>4, <2>5, AgreeGoto
<1>12. ASSUME NEW c \in Clients, ReadMeta(c), undisturbed' PROVE AgreeInv'
  <2> DEFINE m == IF meta = None THEN [count |-> 0, last |-> None, ttl |-> TRUE]
                  ELSE [meta EXCEPT !.ttl = TRUE]
             st == [at |-> "writeMeta", meta |-> m]
  <2>1. /\ call[c].at = "readMeta" /\ Goto(c, st) /\ undisturbed /\ call[c] # None
        /\ UNCHANGED <<list, metadata>>
    BY <1>12 DEF ReadMeta, At
  <2>2. Agree /\ (history # <<>> => mortal)
    BY <1>5, <2>1 DEF TtlAgrees
  <2>3. m \in Metas /\ Describes(m)
    <3>1. CASE meta = None
      <4>1. m = [count |-> 0, last |-> None, ttl |-> TRUE] /\ history = <<>>
        BY <2>2, <3>1 DEF Agree
      <4>2. [count |-> 0, last |-> None, ttl |-> TRUE] \in Metas
        BY LimitBounds DEF Metas
      <4> HIDE DEF m
      <4>3. QED BY <4>1, <4>2 DEF Describes
    <3>2. CASE meta # None
      <4>1. meta \in Metas /\ m = [meta EXCEPT !.ttl = TRUE]
        BY <3>2 DEF TypeOK, KeysOK
      <4>2. m \in Metas /\ m.count = meta.count /\ m.last = meta.last
        BY <4>1 DEF Metas
      <4>3. QED BY <2>2, <3>2, <4>2 DEF Agree, Describes
    <3>3. QED BY <3>1, <3>2
  <2> HIDE DEF m
  <2>4. st # None
    <3>1. st \in CallStates
      BY <2>3 DEF CallStates
    <3>2. QED BY <3>1, NoneAssumption DEF NoneAssumption
  <2>5. call'[c].at = "writeMeta" /\ call'[c].meta = m
    BY <2>1, Others
  <2>6. Agree' /\ (history' # <<>> => mortal') /\ Describes(call[c].meta)'
    BY <2>1, <2>2, <2>3, <2>5 DEF Agree, Describes
  <2>7. SaveAgrees(c)' /\ TtlAgrees(c)' /\ CleanAgrees(c)'
    BY <2>5, <2>6 DEF SaveAgrees, TtlAgrees, CleanAgrees
  <2>8. QED BY <2>1, <2>4, <2>7, AgreeGoto
<1>13. ASSUME NEW c \in Clients, WriteMeta(c), undisturbed' PROVE AgreeInv'
  <2>1. /\ At(c, "writeMeta") /\ call[c].at = "writeMeta" /\ Goto(c, None) /\ undisturbed /\ call[c] # None
        /\ UNCHANGED <<list>> /\ meta' = call[c].meta /\ metaMortal' = TRUE
    BY <1>13 DEF WriteMeta, At, SetMeta
  <2>2. (history # <<>> => mortal) /\ Describes(call[c].meta)
    BY <1>5, <2>1 DEF TtlAgrees
  <2>3. meta' # None
    BY <2>1, CallShape, NoneAssumption DEF NoneAssumption
  <2>4. Agree'
    BY <2>1, <2>2, <2>3 DEF Agree, Describes
  <2>5. QED BY <2>1, <2>4, AgreeGoto
<1>14. ASSUME NEW c \in Clients, call[c] # None, call[c].at \in {"scan", "ttl", "delete"}
       PROVE  /\ call[c] \in [at : {"scan", "ttl", "delete"}, lazy : BOOLEAN, seen : SUBSET Keys,
                              key : Keys \cup {None}]
              /\ call[c].lazy \in BOOLEAN
  BY <1>14, CallShape
<1>15. \A s \in [at : {"scan", "ttl", "delete"}, lazy : BOOLEAN, seen : SUBSET Keys,
                 key : Keys \cup {None}] : s # None
  BY NoneAssumption DEF NoneAssumption, CallStates
<1>16. ASSUME NEW c \in Clients, Scan(c), undisturbed' PROVE AgreeInv'
  <2>1. /\ call[c].at = "scan" /\ undisturbed /\ call[c] # None /\ UNCHANGED <<list, metadata>>
    BY <1>16 DEF Scan, At
  <2>2. PICK k \in Keys \ call[c].seen :
            Goto(c, [call[c] EXCEPT !.seen = @ \cup {k}, !.key = k,
                       !.at = IF ~Exists(k) THEN "scan" ELSE IF call[c].lazy THEN "ttl" ELSE "delete"])
    BY <1>16 DEF Scan
  <2> DEFINE to == IF ~Exists(k) THEN "scan" ELSE IF call[c].lazy THEN "ttl" ELSE "delete"
             st == [call[c] EXCEPT !.seen = @ \cup {k}, !.key = k, !.at = to]
  <2>3. /\ call[c] \in [at : {"scan", "ttl", "delete"}, lazy : BOOLEAN, seen : SUBSET Keys,
                        key : Keys \cup {None}]
        /\ call[c].lazy \in BOOLEAN
    BY <1>14, <2>1
  <2>4. /\ st.seen = call[c].seen \cup {k} /\ st.key = k /\ st.at = to /\ st.lazy = call[c].lazy
        /\ st \in [at : {"scan", "ttl", "delete"}, lazy : BOOLEAN, seen : SUBSET Keys,
                   key : Keys \cup {None}]
    <3>1. to \in {"scan", "ttl", "delete"}
      OBVIOUS
    <3> HIDE DEF to
    <3>2. QED BY <2>3, <3>1
  <2>5. st # None
    BY <1>15, <2>4
  <2>6. call'[c] = st
    BY <2>2, Others
  <2> HIDE DEF st
  <2>7. \A q : Exists(q)' <=> Exists(q)
    BY <2>1 DEF Exists
  <2>8. Agree => Agree'
    BY <2>1 DEF Agree, Describes
  <2>9. CleanAgrees(c)
    BY <1>5, <2>1
  <2>10. CleanAgrees(c)'
    <3>1. CASE call[c].lazy
      <4>1. Agree' /\ to # "delete" /\ (to = "ttl" => Exists(k))
        BY <2>1, <2>8, <2>9, <3>1 DEF CleanAgrees
      <4>2. to # "deleteAll"
        OBVIOUS
      <4> HIDE DEF to
      <4>3. QED BY <2>4, <2>6, <2>7, <3>1, <4>1, <4>2 DEF CleanAgrees
    <3>2. CASE ~call[c].lazy
      <4>1. to # "ttl" /\ (Exists(k) => to = "delete") /\ to # "deleteAll"
        BY <3>2
      <4>2. \A q \in call[c].seen : ~Exists(q)
        BY <2>1, <2>9, <3>2 DEF CleanAgrees
      <4> HIDE DEF to
      <4>3. QED BY <2>4, <2>6, <2>7, <3>2, <4>1, <4>2 DEF CleanAgrees
    <3>3. QED BY <2>3, <3>1, <3>2
  <2>11. SaveAgrees(c)' /\ TtlAgrees(c)'
    <3>1. to \in {"scan", "ttl", "delete"}
      OBVIOUS
    <3> HIDE DEF to
    <3>2. QED BY <2>4, <2>6, <3>1 DEF SaveAgrees, TtlAgrees
  <2>12. Goto(c, st)
    BY <2>2 DEF st
  <2>13. QED BY <2>1, <2>5, <2>10, <2>11, <2>12, AgreeGoto
<1>17. ASSUME NEW c \in Clients, ScanEnds(c), undisturbed' PROVE AgreeInv'
  <2>1. /\ call[c].at = "scan" /\ call[c].seen = Keys /\ Goto(c, None) /\ undisturbed /\ call[c] # None
        /\ UNCHANGED <<list, metadata>>
    BY <1>17 DEF ScanEnds, At
  <2>2. CleanAgrees(c) /\ call[c].lazy \in BOOLEAN
    BY <1>5, <1>14, <2>1
  <2>3. Agree
    <3>1. CASE call[c].lazy
      BY <2>1, <2>2, <3>1 DEF CleanAgrees
    <3>2. CASE ~call[c].lazy
      <4>1. ~Exists("history") /\ ~Exists("meta")
        BY <2>1, <2>2, <3>2 DEF CleanAgrees, Keys
      <4>2. history = <<>> /\ meta = None
        BY <4>1 DEF Exists
      <4>3. QED BY <4>2 DEF Agree
    <3>3. QED BY <2>2, <3>1, <3>2
  <2>4. Agree'
    BY <2>1, <2>3 DEF Agree, Describes
  <2>5. QED BY <2>1, <2>4, AgreeGoto
<1>18. ASSUME NEW c \in Clients, ReadTtl(c), undisturbed' PROVE AgreeInv'
  <2> DEFINE st == [call[c] EXCEPT !.at = IF Exists(call[c].key) THEN "scan" ELSE "delete"]
  <2>1. /\ call[c].at = "ttl" /\ undisturbed /\ call[c] # None /\ UNCHANGED <<list, metadata>>
        /\ Goto(c, st)
    BY <1>18 DEF ReadTtl, At
  <2>2. /\ call[c] \in [at : {"scan", "ttl", "delete"}, lazy : BOOLEAN, seen : SUBSET Keys,
                        key : Keys \cup {None}]
        /\ call[c].lazy \in BOOLEAN /\ CleanAgrees(c)
    BY <1>5, <1>14, <2>1
  <2>3. call[c].lazy /\ Agree /\ Exists(call[c].key)
    BY <2>1, <2>2 DEF CleanAgrees
  <2>4. st = [call[c] EXCEPT !.at = "scan"]
    BY <2>3
  <2>5. st.at = "scan" /\ (st.lazy <=> call[c].lazy) /\ st # None
    BY <1>15, <2>2, <2>4
  <2>6. call'[c] = st
    BY <2>1, Others
  <2> HIDE DEF st
  <2>7. Agree'
    BY <2>1, <2>3 DEF Agree, Describes
  <2>8. SaveAgrees(c)' /\ TtlAgrees(c)' /\ CleanAgrees(c)'
    BY <2>3, <2>5, <2>6, <2>7 DEF SaveAgrees, TtlAgrees, CleanAgrees
  <2>9. QED BY <2>1, <2>5, <2>8, AgreeGoto
<1>19. ASSUME NEW K, Vanish(K)
       PROVE  /\ \A q \in Keys : Exists(q)' => Exists(q) /\ q \notin K
  BY <1>19 DEF Vanish, Exists, Keys
<1>20. ASSUME NEW c \in Clients, Delete(c), undisturbed' PROVE AgreeInv'
  <2> DEFINE st == [call[c] EXCEPT !.at = "scan"]
  <2>1. /\ call[c].at = "delete" /\ undisturbed /\ call[c] # None /\ Vanish({call[c].key})
        /\ Goto(c, st)
    BY <1>20 DEF Delete, At
  <2>2. /\ call[c] \in [at : {"scan", "ttl", "delete"}, lazy : BOOLEAN, seen : SUBSET Keys,
                        key : Keys \cup {None}]
        /\ call[c].lazy \in BOOLEAN /\ CleanAgrees(c)
    BY <1>5, <1>14, <2>1
  <2>3. ~call[c].lazy /\ \A q \in call[c].seen : Exists(q) => q = call[c].key
    BY <2>1, <2>2 DEF CleanAgrees
  <2>4. /\ st.at = "scan" /\ (st.lazy <=> call[c].lazy) /\ st.seen = call[c].seen /\ st # None
        /\ call[c].seen \subseteq Keys
    BY <1>15, <2>2
  <2>5. call'[c] = st
    BY <2>1, Others
  <2> HIDE DEF st
  <2>6. \A q \in call[c].seen : ~Exists(q)'
    BY <1>19, <2>1, <2>3, <2>4
  <2>7. SaveAgrees(c)' /\ TtlAgrees(c)' /\ CleanAgrees(c)'
    BY <2>3, <2>4, <2>5, <2>6 DEF SaveAgrees, TtlAgrees, CleanAgrees
  <2>8. QED BY <2>1, <2>4, <2>7, AgreeGoto
<1>21. ASSUME NEW c \in Clients, DeleteAll(c), undisturbed' PROVE AgreeInv'
  <2>1. /\ call[c].at = "deleteAll" /\ undisturbed /\ call[c] # None /\ Vanish(call[c].todo)
        /\ Goto(c, None)
    BY <1>21 DEF DeleteAll, At
  <2>2. \A k \in Keys : Exists(k) => k \in call[c].todo
    BY <1>5, <2>1 DEF CleanAgrees
  <2>3. ~Exists("history")' /\ ~Exists("meta")'
    BY <1>19, <2>1, <2>2 DEF Keys
  <2>4. history' = <<>> /\ meta' = None
    BY <2>3 DEF Exists
  <2>5. Agree'
    BY <2>4 DEF Agree
  <2>6. QED BY <2>1, <2>5, AgreeGoto
<1>22. ASSUME \/ \E m \in delayed : Late(m)
              \/ \E k \in Keys : Expire(k)
              \/ \E c \in Clients : SaveFails(c) \/ DescribeFails(c) \/ CallFails(c)
       PROVE  ~undisturbed'
  BY <1>22 DEF Late, Expire, SaveFails, DescribeFails, CallFails, Fail
<1>23. CASE UNCHANGED vars
  BY <1>23
     DEF vars, AgreeInv, SaveAgrees, TtlAgrees, CleanAgrees, Agree, Describes, SaveOf, Exists
<1>24. ASSUME NEW c \in Clients, CleanExpiredData(c) \/ ClearAll(c) PROVE AgreeInv'
  BY <1>3, <1>24 DEF CleanExpiredData, ClearAll
<1>25. CASE undisturbed' /\ Next
  <2>1. CASE \E c \in Clients : \E limit \in Limits, ttl \in BOOLEAN : Save(c, limit, ttl)
    BY <1>1, <2>1
  <2>2. CASE \E c \in Clients : UpdateTtl(c) \/ CleanExpiredData(c) \/ ClearAll(c) \/ Clear(c)
    BY <1>2, <1>4, <1>24, <2>2
  <2>3. CASE \E c \in Clients : Step(c)
    BY <1>6, <1>7, <1>8, <1>9, <1>10, <1>11, <1>12, <1>13, <1>16, <1>17, <1>18, <1>20, <1>21, <1>22,
       <1>25, <2>3
       DEF Step
  <2>4. QED BY <1>22, <1>25, <2>1, <2>2, <2>3 DEF Next
<1>26. undisturbed' \in BOOLEAN
  BY TypeStep DEF TypeOK
<1>27. QED BY <1>0, <1>23, <1>25, <1>26

\* MetaAgrees of StateManager: after any number of calls that did not overlap, fail or
\* meet an expiry, the meta key describes the list.
THEOREM MetaAgreesHolds == Spec => []MetaAgrees
<1>1. Init => AgreeInv
  BY DEF Init, AgreeInv, Agree
<1>2. TypeOK /\ AgreeInv => MetaAgrees
  <2>1. TypeOK => Len(history) \in Nat /\ (Len(history) > 0 <=> history # <<>>) /\ (Len(history) = 0 <=> history = <<>>)
    BY DEF TypeOK, KeysOK
  <2>2. Agree /\ TypeOK => LET m == GetHistoryMetadata
                 IN  /\ m.actual > 0 => /\ m.says # None
                                        /\ m.says.count = m.actual
                                        /\ m.says.last = Head(history)
                                        /\ metaMortal => mortal
                     /\ m.says # None /\ m.actual = 0 => m.says.count = 0
    BY <2>1 DEF Agree, Describes, GetHistoryMetadata
  <2>3. QED BY <2>2 DEF AgreeInv, MetaAgrees
<1>3. QED BY <1>1, <1>2, TypeInit, TypeStep, AgreeStep, PTL DEF Spec
=============================================================================
