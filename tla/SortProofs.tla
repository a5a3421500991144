----------------------------- MODULE SortProofs -----------------------------
(***************************************************************************)
(* Proofs about the two topological sorts.  TopologicalSort, for every     *)
(* finite set of nodes and every graph over them: what the sort returns is *)
(* an order, it raises only for graphs that have none, and it ends.        *)
(* DagService, for every finite set of ids and any calls: Kahn's sort of   *)
(* the lists that add_node keeps.                                          *)
(***************************************************************************)
EXTENDS TopologicalSort, DagService, SequenceTheorems, FiniteSetTheorems, TLAPS

-----------------------------------------------------------------------------
(* Sequences                                                               *)

Elements(q) == {q[i] : i \in 1 .. Len(q)}

\* What a path is without its last node.
LEMMA Front ==
    ASSUME NEW q \in Seq(Nodes), q # <<>>
    PROVE  /\ Len(q) \in Nat \ {0}
           /\ q[Len(q)] \in Nodes
           /\ SubSeq(q, 1, Len(q) - 1) \in Seq(Nodes)
           /\ Len(SubSeq(q, 1, Len(q) - 1)) = Len(q) - 1
           /\ \A i \in 1 .. Len(q) - 1 : SubSeq(q, 1, Len(q) - 1)[i] = q[i]
<1> DEFINE n == Len(q) - 1
<1>1. Len(q) \in Nat \ {0} /\ n \in Nat /\ \A i \in 1 .. Len(q) : q[i] \in Nodes
  OBVIOUS
<1>2. \A i \in 1 .. n : q[i] \in Nodes
  BY <1>1
<1> HIDE DEF n
<1>3. /\ SubSeq(q, 1, n) \in Seq(Nodes)
      /\ Len(SubSeq(q, 1, n)) = IF 1 <= n THEN n - 1 + 1 ELSE 0
      /\ \A i \in 1 .. n - 1 + 1 : SubSeq(q, 1, n)[i] = q[1 + i - 1]
  BY <1>1, <1>2, SubSeqProperties
<1>4. n - 1 + 1 = n /\ \A i \in 1 .. n : 1 + i - 1 = i
  BY <1>1
<1>5. QED BY <1>1, <1>3, <1>4 DEF n

\* What a sequence has after one more element is appended.
LEMMA Appended ==
    ASSUME NEW S, NEW q \in Seq(S), NEW x \in S
    PROVE  /\ Append(q, x) \in Seq(S)
           /\ Elements(Append(q, x)) = Elements(q) \cup {x}
<1> DEFINE r == Append(q, x)
<1>1. /\ r \in Seq(S) /\ Len(q) \in Nat /\ Len(r) = Len(q) + 1 /\ r[Len(r)] = x
      /\ \A i \in 1 .. Len(q) : r[i] = q[i]
  BY AppendProperties
<1> HIDE DEF r
<1>2. /\ \A i \in 1 .. Len(r) : i \in 1 .. Len(q) \/ i = Len(r)
      /\ \A i \in 1 .. Len(q) : i \in 1 .. Len(r)
      /\ Len(r) \in 1 .. Len(r)
  BY <1>1
<1>3. Elements(r) = Elements(q) \cup {x}
  BY <1>1, <1>2 DEF Elements
<1>4. QED BY <1>1, <1>3 DEF r

-----------------------------------------------------------------------------
(* TopologicalSort                                                         *)

LEMMA TypeInit == Init => TypeOK
BY SortAssumption DEF SortAssumption, Init, TypeOK, Outcomes

LEMMA TypeStep == TypeOK /\ [Next]_vars => TypeOK'
<1> SUFFICES ASSUME TypeOK, [Next]_vars PROVE TypeOK'
  OBVIOUS
<1> USE SortAssumption DEF SortAssumption, TypeOK, Outcomes, marks
<1>0. stack # <<>> => Top \in Nodes
  BY Front DEF Top
<1>1. CASE Validate BY <1>1 DEF Validate
<1>2. ASSUME NEW n \in Nodes, VisitRoot(n) PROVE TypeOK'
  BY <1>2, Appended DEF VisitRoot, Enter
<1>3. ASSUME NEW d \in Ids, VisitDep(d) PROVE TypeOK'
  BY <1>0, <1>3, Appended DEF VisitDep, Enter
<1>4. ASSUME NEW d \in Ids, SkipDep(d) PROVE TypeOK'
  BY <1>0, <1>4 DEF SkipDep
<1>5. ASSUME NEW d \in Ids, CycleFound(d) PROVE TypeOK'
  BY <1>5 DEF CycleFound
<1>6. ASSUME NEW d \in Ids, UnknownId(d) PROVE TypeOK'
  BY <1>6 DEF UnknownId
<1>7. CASE Leave
  <2>1. stack' \in Seq(Nodes)
    BY <1>7, Front DEF Leave
  <2>2. order' \in Seq(Nodes)
    BY <1>0, <1>7, Appended DEF Leave
  <2>3. QED BY <1>0, <1>7, <2>1, <2>2 DEF Leave
<1>8. CASE Finish BY <1>8 DEF Finish
<1>9. CASE UNCHANGED vars BY <1>9 DEF vars
<1>10. QED BY <1>1, <1>2, <1>3, <1>4, <1>5, <1>6, <1>7, <1>8, <1>9 DEF Next

THEOREM TypeCorrect == Spec => []TypeOK
BY TypeInit, TypeStep, PTL DEF Spec
-----------------------------------------------------------------------------
(* The call stack is a path of the graph, and what a node on the path no   *)
(* longer has to visit is visited or next on the path.                     *)

Path ==
    /\ tempMark = Elements(stack)
    /\ \A i, j \in 1 .. Len(stack) : stack[i] = stack[j] => i = j
    /\ tempMark \cap visited = {}
    /\ \A n \in Nodes : todo[n] \subseteq deps[n]

Chain ==
    /\ \A i \in 1 .. Len(stack) - 1 :
          /\ stack[i + 1] \in deps[stack[i]]
          /\ deps[stack[i]] \ todo[stack[i]] \subseteq visited \cup {stack[i + 1]}
    /\ stack # <<>> => deps[Top] \ todo[Top] \subseteq visited

\* What the path looks like after a call of visit enters a node.
LEMMA Pushed ==
    ASSUME TypeOK, NEW n \in Nodes
    PROVE  LET s == Append(stack, n) IN
           /\ s \in Seq(Nodes) /\ Len(s) = Len(stack) + 1 /\ Len(stack) \in Nat
           /\ \A i \in 1 .. Len(stack) : s[i] = stack[i] /\ stack[i] \in Nodes
           /\ s[Len(stack) + 1] = n
           /\ Elements(s) = Elements(stack) \cup {n}
<1>1. Elements(Append(stack, n)) = Elements(stack) \cup {n}
  BY Appended DEF TypeOK
<1>2. QED BY <1>1 DEF TypeOK

\* And after a visit returns.
LEMMA Popped ==
    ASSUME TypeOK, stack # <<>>, \A i, j \in 1 .. Len(stack) : stack[i] = stack[j] => i = j
    PROVE  LET s == SubSeq(stack, 1, Len(stack) - 1) IN
           /\ Len(stack) \in Nat \ {0} /\ Len(s) = Len(stack) - 1 /\ Top \in Nodes
           /\ \A i \in 1 .. Len(stack) - 1 : s[i] = stack[i] /\ stack[i] \in Nodes
           /\ Elements(s) = Elements(stack) \ {Top}
<1> DEFINE s == SubSeq(stack, 1, Len(stack) - 1)
<1>1. /\ Len(stack) \in Nat \ {0} /\ Len(s) = Len(stack) - 1 /\ Top \in Nodes
      /\ \A i \in 1 .. Len(stack) - 1 : s[i] = stack[i]
  BY Front DEF TypeOK, Top
<1>2. \A i \in 1 .. Len(stack) : stack[i] \in Nodes
  BY DEF TypeOK
<1> HIDE DEF s
<1>3. Elements(s) = Elements(stack) \ {Top}
  <2>1. \A i \in 1 .. Len(s) : i \in 1 .. Len(stack) /\ i # Len(stack) /\ s[i] = stack[i]
    BY <1>1
  <2>2. \A i \in 1 .. Len(stack) : i # Len(stack) => i \in 1 .. Len(s) /\ s[i] = stack[i]
    BY <1>1
  <2>3. Len(stack) \in 1 .. Len(stack)
    BY <1>1
  <2>4. Elements(s) \subseteq Elements(stack) \ {Top}
    BY <2>1, <2>3 DEF Elements, Top
  <2>5. Elements(stack) \ {Top} \subseteq Elements(s)
    BY <2>2 DEF Elements, Top
  <2>6. QED BY <2>4, <2>5
<1>4. \A i \in 1 .. Len(stack) - 1 : stack[i] \in Nodes
  BY <1>1, <1>2
<1>5. QED BY <1>1, <1>3, <1>4 DEF s

LEMMA PathStep == TypeOK /\ Path /\ [Next]_vars => Path'
<1> SUFFICES ASSUME TypeOK, Path, [Next]_vars PROVE Path'
  OBVIOUS
<1> USE DEF marks
<1>1. ASSUME NEW n \in Nodes, Enter(n), n \notin visited, n \notin tempMark,
             \A m \in Nodes : todo'[m] \subseteq deps[m]
      PROVE  Path'
  <2> DEFINE s == Append(stack, n)
  <2>1. /\ Len(s) = Len(stack) + 1 /\ Len(stack) \in Nat
        /\ \A i \in 1 .. Len(stack) : s[i] = stack[i]
        /\ s[Len(stack) + 1] = n
        /\ Elements(s) = Elements(stack) \cup {n}
    BY Pushed
  <2>2. stack' = s /\ tempMark' = tempMark \cup {n} /\ visited' = visited /\ deps' = deps
    BY <1>1 DEF Enter
  <2> HIDE DEF s
  <2>3. tempMark' = Elements(stack') /\ tempMark' \cap visited' = {}
    BY <1>1, <2>1, <2>2 DEF Path
  <2>4. \A i \in 1 .. Len(stack) : stack[i] # n
    BY <1>1 DEF Path, Elements
  <2>5. \A i, j \in 1 .. Len(s) : s[i] = s[j] => i = j
    <3>1. \A i \in 1 .. Len(s) : i \in 1 .. Len(stack) \/ i = Len(stack) + 1
      BY <2>1
    <3>2. QED BY <2>1, <2>4, <3>1 DEF Path
  <2>6. QED BY <1>1, <2>2, <2>3, <2>5 DEF Path
<1>2. ASSUME UNCHANGED <<deps, stack, marks>>, \A m \in Nodes : todo'[m] \subseteq todo[m]
      PROVE  Path'
  BY <1>2 DEF Path, Elements
<1>3. ASSUME NEW n \in Nodes, VisitRoot(n) PROVE Path'
  <2>1. n \notin tempMark
    BY <1>3 DEF VisitRoot, Path, Elements
  <2>2. \A m \in Nodes : todo'[m] \subseteq deps[m]
    BY <1>3 DEF VisitRoot, Path, TypeOK
  <2>3. QED BY <1>1, <1>3, <2>1, <2>2 DEF VisitRoot
<1>4. ASSUME NEW d \in Ids, VisitDep(d) PROVE Path'
  <2>1. \A m \in Nodes : todo'[m] \subseteq deps[m]
    BY <1>4 DEF VisitDep, Path, TypeOK
  <2>2. QED BY <1>1, <1>4, <2>1 DEF VisitDep
<1>5. ASSUME NEW d \in Ids, SkipDep(d) PROVE Path'
  <2>1. \A m \in Nodes : todo'[m] \subseteq todo[m]
    BY <1>5 DEF SkipDep, TypeOK
  <2>2. QED BY <1>2, <1>5, <2>1 DEF SkipDep
<1>6. CASE Leave
  <2>1. /\ Top \in Nodes /\ Elements(stack') = Elements(stack) \ {Top}
        /\ Len(stack) \in Nat \ {0} /\ Len(stack') = Len(stack) - 1
        /\ \A i \in 1 .. Len(stack) - 1 : stack'[i] = stack[i]
    BY <1>6, Popped DEF Leave, Path
  <2>2. tempMark' = Elements(stack') /\ tempMark' \cap visited' = {}
    BY <1>6, <2>1 DEF Leave, Path
  <2>3. \A i, j \in 1 .. Len(stack') : stack'[i] = stack'[j] => i = j
    <3>1. \A i \in 1 .. Len(stack') : i \in 1 .. Len(stack) /\ i \in 1 .. Len(stack) - 1
      BY <2>1
    <3>2. QED BY <2>1, <3>1 DEF Path
  <2>4. QED BY <1>6, <2>2, <2>3 DEF Leave, Path
<1>7. CASE UNCHANGED <<deps, stack, todo, marks>>
  BY <1>2, <1>7
<1>8. QED BY <1>3, <1>4, <1>5, <1>6, <1>7
          DEF Next, Validate, CycleFound, UnknownId, Finish, vars

LEMMA ChainStep == TypeOK /\ Path /\ Chain /\ [Next]_vars => Chain'
<1> SUFFICES ASSUME TypeOK, Path, Chain, [Next]_vars PROVE Chain'
  OBVIOUS
<1> USE DEF marks
<1>1. ASSUME NEW n \in Nodes, VisitRoot(n) PROVE Chain'
  <2>1. Len(stack') = 1 /\ stack'[1] = n /\ deps' = deps /\ Top' = n /\ todo'[n] = deps[n]
    BY <1>1, Pushed DEF VisitRoot, Enter, Top, TypeOK
  <2>2. QED BY <2>1 DEF Chain
<1>2. ASSUME NEW d \in Ids, VisitDep(d) PROVE Chain'
  <2> DEFINE n == Len(stack)
  <2>1. /\ d \in Nodes /\ Len(stack') = n + 1 /\ n \in Nat \ {0} /\ stack'[n + 1] = d
        /\ \A i \in 1 .. n : stack'[i] = stack[i] /\ stack[i] \in Nodes
    BY <1>2, Pushed DEF VisitDep, Enter, TypeOK
  <2>2. /\ deps' = deps /\ visited' = visited
        /\ todo' = [todo EXCEPT ![Top] = @ \ {d}, ![d] = deps[d]]
        /\ d \in todo[Top] /\ d \notin tempMark
    BY <1>2 DEF VisitDep, Enter
  <2>3. n \in 1 .. n /\ Top = stack[n] /\ Top \in Nodes
    BY <2>1 DEF Top
  <2>4. \A i \in 1 .. n : stack[i] # d
    BY <2>2 DEF Path, Elements
  <2>5. \A i \in 1 .. n - 1 : stack[i] # Top
    BY <2>1, <2>3 DEF Path
  <2> HIDE DEF n
  <2>6. ASSUME NEW i \in 1 .. n
        PROVE  /\ stack'[i + 1] \in deps[stack'[i]]
               /\ deps[stack'[i]] \ todo'[stack'[i]] \subseteq visited \cup {stack'[i + 1]}
    <3>1. CASE i = n
      <4>1. stack'[i] = Top /\ stack'[i + 1] = d /\ d # Top
        BY <2>1, <2>3, <2>4, <3>1
      <4>2. todo'[Top] = todo[Top] \ {d}
        BY <2>2, <2>3, <4>1 DEF TypeOK
      <4>3. d \in deps[Top]
        BY <2>2, <2>3 DEF Path
      <4>4. deps[Top] \ todo[Top] \subseteq visited
        BY <1>2 DEF Chain, VisitDep
      <4>5. QED BY <4>1, <4>2, <4>3, <4>4
    <3>2. CASE i # n
      <4>1. i \in 1 .. n - 1 /\ i + 1 \in 1 .. n
        BY <2>1, <3>2
      <4>2. stack'[i] = stack[i] /\ stack'[i + 1] = stack[i + 1]
        BY <2>1, <4>1
      <4>3. todo'[stack[i]] = todo[stack[i]]
        BY <2>1, <2>2, <2>4, <2>5, <4>1 DEF TypeOK
      <4>4. i \in 1 .. Len(stack) - 1
        BY <4>1 DEF n
      <4>5. /\ stack[i + 1] \in deps[stack[i]]
            /\ deps[stack[i]] \ todo[stack[i]] \subseteq visited \cup {stack[i + 1]}
        BY <4>4 DEF Chain
      <4>6. QED BY <4>2, <4>3, <4>5
    <3>3. QED BY <3>1, <3>2
  <2>7. Top' = d /\ todo'[d] = deps[d]
    BY <2>1, <2>2 DEF Top, TypeOK
  <2>8. Len(stack') - 1 = n
    BY <2>1
  <2>9. deps'[Top'] \ todo'[Top'] \subseteq visited'
    BY <2>2, <2>7
  <2>10. \A i \in 1 .. Len(stack') - 1 :
            /\ stack'[i + 1] \in deps'[stack'[i]]
            /\ deps'[stack'[i]] \ todo'[stack'[i]] \subseteq visited' \cup {stack'[i + 1]}
    BY <2>2, <2>6, <2>8
  <2>11. QED BY <2>9, <2>10 DEF Chain
<1>3. ASSUME NEW d \in Ids, SkipDep(d) PROVE Chain'
  <2>1. /\ stack' = stack /\ deps' = deps /\ visited' = visited /\ d \in visited
        /\ stack # <<>> /\ todo' = [todo EXCEPT ![Top] = @ \ {d}] /\ Top' = Top
    BY <1>3 DEF SkipDep, Top
  <2>2. Len(stack) \in Nat \ {0} /\ \A i \in 1 .. Len(stack) : stack[i] \in Nodes
    BY <2>1 DEF TypeOK
  <2>3. Top \in Nodes
    BY <2>2 DEF Top
  <2>4. \A m \in Nodes : todo[m] \ {d} \subseteq todo'[m]
    BY <2>1, <2>3 DEF TypeOK
  <2>5. \A m \in Nodes : deps[m] \ todo'[m] \subseteq (deps[m] \ todo[m]) \cup visited
    BY <2>1, <2>4
  <2>6. ASSUME NEW i \in 1 .. Len(stack) - 1
        PROVE  /\ stack[i + 1] \in deps[stack[i]]
               /\ deps[stack[i]] \ todo'[stack[i]] \subseteq visited \cup {stack[i + 1]}
    <3>1. stack[i] \in Nodes
      BY <2>2
    <3>2. QED BY <2>5, <3>1 DEF Chain
  <2>7. deps[Top] \ todo'[Top] \subseteq visited
    BY <2>1, <2>3, <2>5 DEF Chain
  <2>8. QED BY <2>1, <2>6, <2>7 DEF Chain
<1>4. CASE Leave
  <2> DEFINE n == Len(stack)
  <2>1. /\ n \in Nat \ {0} /\ Len(stack') = n - 1 /\ Top = stack[n]
        /\ \A i \in 1 .. n - 1 : stack'[i] = stack[i] /\ stack[i] \in Nodes
    BY <1>4, Popped DEF Leave, Path, Top
  <2>2. deps' = deps /\ todo' = todo /\ visited' = visited \cup {Top}
    BY <1>4 DEF Leave
  <2>3. \A i \in 1 .. n - 1 :
           /\ stack[i + 1] \in deps[stack[i]]
           /\ deps[stack[i]] \ todo[stack[i]] \subseteq visited \cup {stack[i + 1]}
    BY DEF Chain
  <2> HIDE DEF n
  <2>4. \A i \in 1 .. n - 2 : i \in 1 .. n - 1 /\ i + 1 \in 1 .. n - 1
    BY <2>1
  <2>5. \A i \in 1 .. n - 2 :
           /\ stack'[i + 1] \in deps[stack'[i]]
           /\ deps[stack'[i]] \ todo[stack'[i]] \subseteq visited' \cup {stack'[i + 1]}
    BY <2>1, <2>2, <2>3, <2>4
  <2>6. ASSUME stack' # <<>> PROVE deps[Top'] \ todo[Top'] \subseteq visited'
    <3>1. Len(stack') # 0
      BY <2>6, TypeStep DEF TypeOK
    <3>2. n - 1 \in 1 .. n - 1 /\ Top' = stack[n - 1]
      BY <2>1, <3>1 DEF Top
    <3>3. deps[stack[n - 1]] \ todo[stack[n - 1]] \subseteq visited \cup {stack[n]}
      BY <2>1, <2>3, <3>2
    <3>4. QED BY <2>1, <2>2, <3>2, <3>3
  <2>7. \A i \in 1 .. Len(stack') - 1 : i \in 1 .. n - 2
    BY <2>1
  <2>8. QED BY <2>2, <2>5, <2>6, <2>7 DEF Chain
<1>5. CASE UNCHANGED <<deps, stack, todo, marks>>
  BY <1>5 DEF Chain, Top
<1>6. QED BY <1>1, <1>2, <1>3, <1>4, <1>5
          DEF Next, Validate, CycleFound, UnknownId, Finish, vars
-----------------------------------------------------------------------------
(* What has been listed.                                                   *)

Listing ==
    /\ Elements(order) = visited
    /\ \A i \in 1 .. Len(order) : deps[order[i]] \subseteq Before(i)
    /\ \A i, j \in 1 .. Len(order) : order[i] = order[j] => i = j

\* When the visit of a node returns, all its dependencies are visited.
LEMMA TopIsReady ==
    ASSUME TypeOK, Path, Chain, Leave
    PROVE  Top \in Nodes /\ Top \notin visited /\ deps[Top] \subseteq visited
<1>1. Top \in Nodes /\ Top \in Elements(stack)
  <2>1. Len(stack) \in 1 .. Len(stack) /\ stack[Len(stack)] \in Nodes
    BY DEF Leave, TypeOK
  <2>2. QED BY <2>1 DEF Top, Elements
<1>2. Top \notin visited
  BY <1>1 DEF Path
<1>3. QED BY <1>1, <1>2 DEF Leave, Chain

LEMMA ListingStep == TypeOK /\ Path /\ Chain /\ Listing /\ [Next]_vars => Listing'
<1> SUFFICES ASSUME TypeOK, Path, Chain, Listing, [Next]_vars PROVE Listing'
  OBVIOUS
<1> USE DEF marks
<1>1. CASE Leave
  <2> DEFINE n == Len(order)
             r == Append(order, Top)
  <2>1. Top \in Nodes /\ Top \notin visited /\ deps[Top] \subseteq visited
    BY <1>1, TopIsReady
  <2>2. /\ n \in Nat /\ Len(r) = n + 1 /\ r[n + 1] = Top
        /\ \A i \in 1 .. n : r[i] = order[i] /\ order[i] \in visited
    BY <2>1 DEF TypeOK, Listing, Elements
  <2>3. Elements(r) = visited \cup {Top}
    <3>1. order \in Seq(Nodes)
      BY DEF TypeOK
    <3>2. Elements(r) = Elements(order) \cup {Top}
      BY <2>1, <3>1, Appended
    <3>3. QED BY <3>2 DEF Listing
  <2>4. order' = r /\ deps' = deps /\ visited' = visited \cup {Top}
    BY <1>1 DEF Leave
  <2>5. /\ visited = {order[j] : j \in 1 .. n}
        /\ \A i \in 1 .. n : deps[order[i]] \subseteq {order[j] : j \in 1 .. i - 1}
        /\ \A i, j \in 1 .. n : order[i] = order[j] => i = j
    BY DEF Listing, Elements, Before
  <2> HIDE DEF n, r
  <2>6. \A i \in 1 .. n + 1 : i \in 1 .. n \/ i = n + 1
    BY <2>2
  <2>7. ASSUME NEW i \in 1 .. n + 1
        PROVE  {r[j] : j \in 1 .. i - 1} = {order[j] : j \in 1 .. i - 1}
    <3>1. \A j \in 1 .. i - 1 : j \in 1 .. n
      BY <2>2
    <3>2. QED BY <2>2, <3>1
  <2>8. ASSUME NEW i \in 1 .. n + 1
        PROVE  deps[r[i]] \subseteq {r[j] : j \in 1 .. i - 1}
    <3>1. CASE i = n + 1
      <4>1. i - 1 = n /\ r[i] = Top
        BY <2>2, <3>1
      <4>2. QED BY <2>1, <2>5, <2>7, <4>1
    <3>2. CASE i \in 1 .. n
      BY <2>2, <2>5, <2>7, <3>2
    <3>3. QED BY <2>6, <3>1, <3>2
  <2>9. \A i, j \in 1 .. n + 1 : r[i] = r[j] => i = j
    BY <2>1, <2>2, <2>5, <2>6
  <2>10. Elements(order') = visited'
    BY <2>3, <2>4
  <2>11. \A i \in 1 .. Len(order') : deps'[order'[i]] \subseteq {order'[j] : j \in 1 .. i - 1}
    BY <2>2, <2>4, <2>8
  <2>12. \A i, j \in 1 .. Len(order') : order'[i] = order'[j] => i = j
    BY <2>2, <2>4, <2>9
  <2>13. QED BY <2>10, <2>11, <2>12 DEF Listing, Before, Elements
<1>2. CASE UNCHANGED <<deps, visited, order>>
  <2>1. deps' = deps /\ visited' = visited /\ order' = order
    BY <1>2
  <2>2. Elements(order') = Elements(order) /\ \A i : Before(i)' = Before(i)
    BY <2>1, Zenon DEF Elements, Before
  <2>3. QED BY <2>1, <2>2 DEF Listing
<1>3. QED
  BY <1>1, <1>2 DEF Next, Validate, VisitRoot, VisitDep, SkipDep, Enter, CycleFound,
     UnknownId, Finish, vars
-----------------------------------------------------------------------------
(* How the call ends.                                                      *)

\* The visited part of the graph is closed and has no cycle.
Closed ==
    /\ \A n \in visited : deps[n] \subseteq visited
    /\ \A S \in SUBSET visited : S # {} => \E n \in S : deps[n] \cap S = {}

Ended == OutcomeCorrect /\ (outcome = "sorted" => visited = Nodes)

LEMMA ClosedStep == TypeOK /\ Path /\ Chain /\ Closed /\ [Next]_vars => Closed'
<1> SUFFICES ASSUME TypeOK, Path, Chain, Closed, [Next]_vars PROVE Closed'
  OBVIOUS
<1> USE DEF marks
<1>1. CASE Leave
  <2>1. Top \in Nodes /\ Top \notin visited /\ deps[Top] \subseteq visited
    BY <1>1, TopIsReady
  <2>2. visited' = visited \cup {Top} /\ deps' = deps
    BY <1>1 DEF Leave
  <2>3. ASSUME NEW S \in SUBSET visited', S # {}
        PROVE  \E n \in S : deps[n] \cap S = {}
    <3>1. CASE S \cap visited = {}
      <4>1. S = {Top}
        BY <2>2, <2>3, <3>1
      <4>2. QED BY <2>1, <4>1
    <3>2. CASE S \cap visited # {}
      <4>1. PICK n \in S \cap visited : deps[n] \cap (S \cap visited) = {}
        BY <3>2 DEF Closed
      <4>2. deps[n] \subseteq visited
        BY DEF Closed
      <4>3. QED BY <4>1, <4>2
    <3>3. QED BY <3>1, <3>2
  <2>4. \A n \in visited' : deps'[n] \subseteq visited'
    BY <2>1, <2>2 DEF Closed
  <2>5. QED BY <2>2, <2>3, <2>4 DEF Closed
<1>2. CASE UNCHANGED <<deps, visited>>
  BY <1>2 DEF Closed
<1>3. QED
  BY <1>1, <1>2 DEF Next, Validate, VisitRoot, VisitDep, SkipDep, Enter, CycleFound,
     UnknownId, Finish, vars

\* An error is raised only with its reason: a dependency on the path closes a
\* cycle of path nodes.
LEMMA EndedStep == TypeOK /\ Path /\ Chain /\ Closed /\ Ended /\ [Next]_vars => Ended'
<1> SUFFICES ASSUME TypeOK, Path, Chain, Closed, Ended, [Next]_vars PROVE Ended'
  OBVIOUS
<1> USE DEF marks
<1>0. deps' = deps /\ (outcome' = outcome => visited' = visited \/ outcome = "running")
  BY DEF Next, Validate, VisitRoot, VisitDep, SkipDep, Enter, CycleFound, UnknownId,
     Leave, Finish, vars
<1>1. ASSUME NEW d \in Ids, CycleFound(d) PROVE Cyclic(deps)
  <2> DEFINE n == Len(stack)
  <2>1. n \in Nat \ {0} /\ \A i \in 1 .. n : stack[i] \in Nodes
    BY <1>1 DEF CycleFound, TypeOK
  <2>2. PICK k \in 1 .. n : stack[k] = d
    BY <1>1 DEF CycleFound, Path, Elements
  <2> DEFINE S == {stack[i] : i \in k .. n}
  <2>3. S \in SUBSET Nodes
    BY <2>1, <2>2
  <2>4. d \in S /\ S # {}
    BY <2>1, <2>2
  <2>5. ASSUME NEW i \in k .. n PROVE deps[stack[i]] \cap S # {}
    <3>1. CASE i = n
      <4>1. stack[i] = Top
        BY <3>1 DEF Top
      <4>2. d \in deps[Top]
        BY <1>1, <2>1, <2>2, <3>1, <4>1 DEF CycleFound, Path
      <4>3. QED BY <2>4, <4>1, <4>2
    <3>2. CASE i # n
      <4>1. i \in 1 .. n - 1 /\ i + 1 \in k .. n
        BY <2>1, <2>2, <3>2
      <4>2. stack[i + 1] \in deps[stack[i]]
        BY <4>1 DEF Chain
      <4>3. stack[i + 1] \in S
        BY <4>1
      <4>4. QED BY <4>2, <4>3
    <3>3. QED BY <3>1, <3>2
  <2>6. \A m \in S : deps[m] \cap S # {}
    BY <2>5
  <2> HIDE DEF S
  <2>7. QED BY <2>3, <2>4, <2>6 DEF Cyclic
<1>2. ASSUME NEW d \in Ids, UnknownId(d) PROVE \E m \in Nodes : ~(deps[m] \subseteq Nodes)
  <2>1. Top \in Nodes
    BY <1>2, Front DEF UnknownId, Top, TypeOK
  <2>2. d \in deps[Top] \ Nodes
    BY <1>2, <2>1 DEF UnknownId, Path
  <2>3. QED BY <2>1, <2>2
<1>3. ASSUME Finish PROVE visited = Nodes /\ ~Cyclic(deps) /\ \A m \in Nodes : deps[m] \subseteq Nodes
  <2>1. visited = Nodes
    BY <1>3 DEF Finish, TypeOK
  <2>2. QED BY <2>1 DEF Closed, Cyclic
<1>4. CASE \E d \in Ids : CycleFound(d)
  BY <1>0, <1>1, <1>4 DEF CycleFound, Ended, OutcomeCorrect, Cyclic
<1>5. CASE \E d \in Ids : UnknownId(d)
  BY <1>0, <1>2, <1>5 DEF UnknownId, Ended, OutcomeCorrect
<1>6. CASE Finish
  BY <1>0, <1>3, <1>6 DEF Finish, Ended, OutcomeCorrect, Cyclic
<1>7. CASE Validate
  BY <1>0, <1>7 DEF Validate, Ended, OutcomeCorrect
<1>8. CASE UNCHANGED <<outcome, visited>> \/ (outcome = "running" /\ UNCHANGED outcome)
  BY <1>0, <1>8 DEF Ended, OutcomeCorrect, Cyclic
<1>9. QED
  BY <1>4, <1>5, <1>6, <1>7, <1>8 DEF Next, VisitRoot, VisitDep, SkipDep, Leave, Enter, vars

Inv == TypeOK /\ Path /\ Chain /\ Listing /\ Closed /\ Ended

LEMMA InvInit == Init => Inv
<1> SUFFICES ASSUME Init PROVE Inv
  OBVIOUS
<1>1. stack = <<>> /\ order = <<>> /\ visited = {} /\ tempMark = {} /\ \A n \in Nodes : todo[n] = {}
  BY DEF Init
<1>2. Path /\ Chain /\ Listing
  BY <1>1 DEF Path, Chain, Listing, Elements, Before
<1>3. Closed /\ Ended
  BY <1>1 DEF Closed, Ended, OutcomeCorrect, Init
<1>4. QED BY <1>2, <1>3, TypeInit DEF Inv

LEMMA InvStep == Inv /\ [Next]_vars => Inv'
BY TypeStep, PathStep, ChainStep, ListingStep, ClosedStep, EndedStep DEF Inv

\* For every graph, cyclic or with unknown ids, nothing is ever listed before
\* what it depends on, and a returned order lists every node exactly once.
THEOREM OrderHolds == Spec => []OrderRespectsDeps
<1>1. Inv => OrderRespectsDeps
  BY DEF Inv, Listing, Ended, OrderRespectsDeps, Elements
<1>2. QED BY <1>1, InvInit, InvStep, PTL DEF Spec

\* An order is returned, a cycle reported or an unknown id reported only for the
\* graphs that deserve it.
THEOREM OutcomeHolds == Spec => []OutcomeCorrect
<1>1. Inv => OutcomeCorrect
  BY DEF Inv, Ended
<1>2. QED BY <1>1, InvInit, InvStep, PTL DEF Spec
-----------------------------------------------------------------------------
(* What the other components take from the sort.                           *)

\* The place of a node in the order.
Place == [n \in Nodes |-> CHOOSE i \in 1 .. Len(order) : order[i] = n]

\* What WorkQueue assumes of its graph (DagAssumption, with Place for Rank) and
\* what LocalEngine takes for the order of a pipeline (Orders: a sequence of all
\* the nodes without repetition, dependencies first).
Ranked ==
    /\ deps \in [Nodes -> SUBSET Nodes]
    /\ Place \in [Nodes -> Nat]
    /\ \A m, n \in Nodes : Place[m] = Place[n] => m = n
    /\ \A n \in Nodes : \A d \in deps[n] : Place[d] < Place[n]
    /\ order \in [1 .. Cardinality(Nodes) -> Nodes]
    /\ \A i, j \in 1 .. Len(order) : order[i] = order[j] => i = j
    /\ \A i \in 1 .. Len(order) : deps[order[i]] \subseteq Before(i)

\* Whatever graph the sort returns an order for satisfies the assumptions of the
\* components that sort before they schedule or execute: build_dag has returned
\* before get_ready_nodes selects, _topological_sort before a run starts.
THEOREM SortedIsRanked == Spec => [](outcome = "sorted" => Ranked)
<1>1. ASSUME Inv, outcome = "sorted" PROVE Ranked
  <2>1. /\ deps \in [Nodes -> SUBSET Nodes]
        /\ Elements(order) = Nodes
        /\ order \in Seq(Nodes) /\ Len(order) \in Nat
        /\ \A i, j \in 1 .. Len(order) : order[i] = order[j] => i = j
        /\ \A i \in 1 .. Len(order) : deps[order[i]] \subseteq Before(i)
    BY <1>1 DEF Inv, TypeOK, Listing, Ended, OutcomeCorrect
  <2>2. ASSUME NEW n \in Nodes PROVE Place[n] \in 1 .. Len(order) /\ order[Place[n]] = n
    <3>1. \E i \in 1 .. Len(order) : order[i] = n
      BY <2>1 DEF Elements
    <3>2. QED BY <3>1 DEF Place
  <2>3. Place \in [Nodes -> Nat] /\ \A m, n \in Nodes : Place[m] = Place[n] => m = n
    <3>1. \A n \in Nodes : Place[n] \in Nat
      BY <2>1, <2>2
    <3>2. QED BY <2>2, <3>1 DEF Place
  <2>4. ASSUME NEW n \in Nodes, NEW d \in deps[n] PROVE Place[d] < Place[n]
    <3>1. d \in Nodes
      BY <2>1
    <3>2. d \in Before(Place[n])
      BY <2>1, <2>2
    <3>3. PICK j \in 1 .. Place[n] - 1 : order[j] = d
      BY <3>2 DEF Before
    <3>4. j \in 1 .. Len(order) /\ j < Place[n]
      BY <2>1, <2>2
    <3>5. j = Place[d]
      BY <2>1, <2>2, <3>1, <3>3, <3>4
    <3>6. QED BY <3>4, <3>5
  <2>5. Cardinality(Nodes) = Len(order)
    <3>1. order \in Bijection(1 .. Len(order), Nodes)
      <4>1. order \in [1 .. Len(order) -> Nodes]
        BY <2>1
      <4>2. \A n \in Nodes : \E i \in 1 .. Len(order) : order[i] = n
        BY <2>1 DEF Elements
      <4>3. QED BY <2>1, <4>1, <4>2 DEF Bijection, Injection, Surjection, IsInjective
    <3>2. IsFiniteSet(1 .. Len(order)) /\ Cardinality(1 .. Len(order)) = Len(order)
      BY <2>1, FS_Interval
    <3>3. QED BY <3>1, <3>2, FS_Bijection DEF ExistsBijection
  <2>6. order \in [1 .. Cardinality(Nodes) -> Nodes]
    BY <2>1, <2>5
  <2>7. QED BY <2>1, <2>3, <2>4, <2>6 DEF Ranked
<1>2. QED BY <1>1, InvInit, InvStep, PTL DEF Spec

\* Nodes that no visit has begun.
Fresh == Nodes \ (visited \cup tempMark)

Left == CASE outcome = "validating" -> 2 [] outcome = "running" -> 1 [] OTHER -> 0

\* One of four numbers gets smaller and none before it changes: the nodes to be
\* visited, the visits that have not returned, the dependencies the innermost of
\* these has still to take, and what is left of the call.
Progress ==
    \/ Cardinality(Fresh') < Cardinality(Fresh)
    \/ /\ Fresh' = Fresh
       /\ Cardinality(tempMark') < Cardinality(tempMark)
    \/ /\ UNCHANGED <<Fresh, tempMark, stack>>
       /\ Cardinality(todo'[Top]) < Cardinality(todo[Top])
    \/ /\ UNCHANGED <<Fresh, tempMark, stack, todo>>
       /\ Left' < Left

LEMMA OneLess ==
    ASSUME NEW S, IsFiniteSet(S), NEW x \in S
    PROVE  Cardinality(S \ {x}) < Cardinality(S)
<1>1. Cardinality(S \ {x}) = Cardinality(S) - 1 /\ Cardinality(S) \in Nat
  BY FS_RemoveElement, FS_CardinalityType
<1>2. QED BY <1>1

\* The recursion ends for every graph, a cyclic one included: each step of a call
\* brings it nearer to its end, by four natural numbers in lexicographic order.
THEOREM SortTerminates == Spec => [][Progress]_vars
<1>1. ASSUME Inv, Next PROVE Progress
  <2>0. /\ IsFiniteSet(Fresh) /\ IsFiniteSet(tempMark)
        /\ \A n \in Nodes : todo[n] \subseteq Ids /\ IsFiniteSet(todo[n])
    BY <1>1, FS_Subset, SortAssumption DEF SortAssumption, Inv, TypeOK, Fresh
  <2>1. ASSUME NEW n \in Fresh, Enter(n) PROVE Progress
    <3>1. Fresh' = Fresh \ {n}
      BY <2>1 DEF Enter, Fresh
    <3>2. QED BY <2>0, <3>1, OneLess DEF Progress
  <2>2. CASE Validate
    BY <2>2 DEF Validate, Progress, Fresh, Left, marks
  <2>3. ASSUME NEW n \in Nodes, VisitRoot(n) PROVE Progress
    <3>1. n \in Fresh
      BY <1>1, <2>3 DEF VisitRoot, Fresh, Inv, Path, Elements
    <3>2. QED BY <2>1, <2>3, <3>1 DEF VisitRoot
  <2>4. ASSUME NEW d \in Ids, VisitDep(d) PROVE Progress
    BY <2>1, <2>4 DEF VisitDep, Fresh
  <2>5. ASSUME NEW d \in Ids, SkipDep(d) PROVE Progress
    <3>1. Top \in Nodes
      BY <1>1, <2>5, Front DEF SkipDep, Top, Inv, TypeOK
    <3>2. todo'[Top] = todo[Top] \ {d} /\ d \in todo[Top]
      BY <1>1, <2>5, <3>1 DEF SkipDep, Inv, TypeOK
    <3>3. Cardinality(todo'[Top]) < Cardinality(todo[Top])
      BY <2>0, <3>1, <3>2, OneLess
    <3>4. QED BY <2>5, <3>3 DEF SkipDep, Progress, Fresh, marks
  <2>6. ASSUME NEW d \in Ids, CycleFound(d) \/ UnknownId(d) PROVE Progress
    BY <2>6 DEF CycleFound, UnknownId, Progress, Fresh, Left, marks
  <2>7. CASE Leave
    <3>1. Top \in tempMark
      BY <1>1, <2>7, Popped DEF Inv, Path, Leave, Elements, Top, TypeOK
    <3>2. tempMark' = tempMark \ {Top} /\ Fresh' = Fresh
      BY <2>7, <3>1 DEF Leave, Fresh
    <3>3. QED BY <2>0, <3>1, <3>2, OneLess DEF Progress
  <2>8. CASE Finish
    BY <2>8 DEF Finish, Progress, Fresh, Left, marks
  <2>9. QED BY <1>1, <2>2, <2>3, <2>4, <2>5, <2>6, <2>7, <2>8 DEF Next
<1>2. Inv /\ [Next]_vars => [Progress]_vars
  BY <1>1
<1>3. QED BY <1>2, InvInit, InvStep, PTL DEF Spec
-----------------------------------------------------------------------------
(* DagService                                                              *)

LEMMA DepSetsFinite ==
    /\ {} \in DepSets
    /\ \A D \in DepSets : D \subseteq NodeIds /\ IsFiniteSet(D)
<1>1. {} \in DepSets
  BY DagServiceAssumption, FS_EmptySet DEF DagServiceAssumption, DepSets
<1>2. \A D \in DepSets : D \subseteq NodeIds /\ IsFiniteSet(D)
  BY DagServiceAssumption, FS_Subset DEF DagServiceAssumption, DepSets
<1>3. QED BY <1>1, <1>2

\* The length of a list of which only the numbers of entries are known.
LEMMA DegreeType ==
    ASSUME reverse \in [NodeIds -> [NodeIds -> Nat]], NEW n \in NodeIds
    PROVE  DegreeOf(n) \in Nat
<1> DEFINE F == [d \in NodeIds |-> {d} \X (1 .. reverse[n][d])]
           R == {F[d] : d \in NodeIds}
<1>1. F \in Surjection(NodeIds, R)
  BY DEF Surjection
<1>2. IsFiniteSet(R)
  BY <1>1, FS_Surjection, DagServiceAssumption DEF DagServiceAssumption
<1>3. ASSUME NEW d \in NodeIds PROVE IsFiniteSet({d} \X (1 .. reverse[n][d]))
  <2>1. 1 \in Int /\ reverse[n][d] \in Int
    OBVIOUS
  <2>2. IsFiniteSet({d}) /\ IsFiniteSet(1 .. reverse[n][d])
    BY <2>1, FS_Singleton, FS_Interval
  <2>3. QED BY <2>2, FS_Product
<1>4. \A T \in R : IsFiniteSet(T)
  BY <1>3
<1>5. IsFiniteSet(UNION R)
  BY <1>2, <1>4, FS_UNION
<1>6. UNION R = UNION {{d} \X (1 .. reverse[n][d]) : d \in NodeIds}
  OBVIOUS
<1>7. QED BY <1>5, <1>6, FS_CardinalityType DEF DegreeOf

LEMMA DagTypeInit == DagInit => DagTypeOK
<1> SUFFICES ASSUME DagInit PROVE DagTypeOK
  OBVIOUS
<1>1. declared \in [NodeIds -> DepSets] /\ None \in [NodeIds -> Nat]
  BY DepSetsFinite DEF DagInit, None
<1>2. /\ forward \in [NodeIds -> [NodeIds -> Nat]] /\ reverse \in [NodeIds -> [NodeIds -> Nat]]
      /\ inDegree \in [NodeIds -> Int]
  BY <1>1 DEF DagInit
<1>3. verified \in BOOLEAN /\ readded \in BOOLEAN
  BY DEF DagInit
<1>4. calls \in 0 .. MaxCalls /\ listed \in Seq(nodes) /\ phase \in Phases
  BY DagServiceAssumption DEF DagServiceAssumption, DagInit, Phases
<1>5. QED BY <1>1, <1>2, <1>3, <1>4 DEF DagInit, DagTypeOK

\* What a call other than the sort does to the variables of the sort.
LEMMA CallType ==
    ASSUME DagTypeOK, Call
    PROVE  /\ calls' \in 0 .. MaxCalls
           /\ inDegree' \in [NodeIds -> Int]
           /\ queue' = {} /\ listed' \in Seq(nodes')
BY DagServiceAssumption DEF DagServiceAssumption, DagTypeOK, Call, None

LEMMA VerifyType ==
    ASSUME NEW N \in SUBSET NodeIds, NEW rev, NEW keys \in SUBSET NodeIds, Verify(N, rev, keys)
    PROVE  /\ reverseKeys' \in SUBSET NodeIds /\ keys \subseteq reverseKeys'
           /\ verified' \in BOOLEAN /\ phase' \in Phases
<1>1. UnknownIn(Stored(rev), N) \subseteq NodeIds
  BY DEF UnknownIn, Stored
<1>2. QED BY <1>1 DEF Verify, Phases

LEMMA DagTypeStep == DagTypeOK /\ [DagNext]_dagVars => DagTypeOK'
<1> SUFFICES ASSUME DagTypeOK, [DagNext]_dagVars PROVE DagTypeOK'
  OBVIOUS
<1>t. /\ nodes \in SUBSET NodeIds /\ declared \in [NodeIds -> DepSets]
      /\ forward \in [NodeIds -> [NodeIds -> Nat]] /\ reverse \in [NodeIds -> [NodeIds -> Nat]]
      /\ nodes \subseteq forwardKeys \cap reverseKeys /\ forwardKeys \cup reverseKeys \subseteq NodeIds
      /\ inDegree \in [NodeIds -> Int] /\ queue \in SUBSET nodes /\ listed \in Seq(nodes)
      /\ readded \in BOOLEAN /\ calls \in 0 .. MaxCalls /\ verified \in BOOLEAN /\ phase \in Phases
  BY DEF DagTypeOK
<1>1. ASSUME NEW n \in NodeIds, NEW D \in DepSets, AddNode(n, D) PROVE DagTypeOK'
  <2>1. D \subseteq NodeIds
    BY DepSetsFinite
  <2>2. nodes' \in SUBSET NodeIds /\ declared' \in [NodeIds -> DepSets]
    BY <1>1, <1>t DEF AddNode
  <2>3. reverse' \in [NodeIds -> [NodeIds -> Nat]]
    BY <1>1, <1>t DEF AddNode, AddEdges
  <2>4. forward' \in [NodeIds -> [NodeIds -> Nat]]
    BY <1>1, <1>t DEF AddNode, AddDependent
  <2>5. nodes' \subseteq forwardKeys' \cap reverseKeys' /\ forwardKeys' \cup reverseKeys' \subseteq NodeIds
    BY <1>1, <1>t, <2>1 DEF AddNode
  <2>6. verified' \in BOOLEAN /\ readded' \in BOOLEAN /\ phase' \in Phases
    BY <1>1, <1>t DEF AddNode, Phases
  <2>7. Call
    BY <1>1 DEF AddNode
  <2>8. QED BY <2>2, <2>3, <2>4, <2>5, <2>6, <2>7, CallType DEF DagTypeOK
<1>2. ASSUME NEW N \in SUBSET NodeIds, NEW g \in [N -> DepSets], BuildDag(N, g) PROVE DagTypeOK'
  <2>1. \A n \in N : g[n] \in DepSets /\ g[n] \subseteq NodeIds
    BY DepSetsFinite
  <2>2. nodes' = N /\ nodes' \in SUBSET NodeIds /\ declared' \in [NodeIds -> DepSets]
    BY <1>2, <2>1, DepSetsFinite DEF BuildDag
  <2>3. reverse' \in [NodeIds -> [NodeIds -> Nat]]
    BY <1>2 DEF BuildDag
  <2>4. forward' \in [NodeIds -> [NodeIds -> Nat]]
    BY <1>2 DEF BuildDag
  <2>5. /\ reverseKeys' \in SUBSET NodeIds /\ N \subseteq reverseKeys'
        /\ verified' \in BOOLEAN /\ phase' \in Phases
    BY <1>2, VerifyType DEF BuildDag
  <2>6. N \subseteq forwardKeys' /\ forwardKeys' \subseteq NodeIds
    BY <1>2, <2>1 DEF BuildDag
  <2>7. Call /\ readded' \in BOOLEAN
    BY <1>2 DEF BuildDag
  <2>8. QED BY <2>2, <2>3, <2>4, <2>5, <2>6, <2>7, CallType DEF DagTypeOK
<1>3. CASE VerifyAcyclic
  <2>1. /\ reverseKeys' \in SUBSET NodeIds /\ reverseKeys \subseteq reverseKeys'
        /\ verified' \in BOOLEAN /\ phase' \in Phases
    BY <1>3, <1>t, VerifyType DEF VerifyAcyclic
  <2>2. Call /\ UNCHANGED <<nodes, declared, forward, forwardKeys, reverse, readded>>
    BY <1>3 DEF VerifyAcyclic
  <2>3. QED BY <1>t, <2>1, <2>2, CallType DEF DagTypeOK
<1>4. CASE SortStart
  <2>1. UNCHANGED <<graph, verified, readded, calls>> /\ phase' \in Phases /\ listed' = <<>>
    BY <1>4 DEF SortStart, Phases
  <2>2. inDegree' = [n \in NodeIds |-> IF n \in nodes THEN DegreeOf(n) ELSE 0] /\ queue' \in SUBSET nodes
    BY <1>4 DEF SortStart
  <2>3. \A n \in NodeIds : DegreeOf(n) \in Int
    BY <1>t, DegreeType
  <2>4. inDegree' \in [NodeIds -> Int]
    BY <2>2, <2>3
  <2>5. QED BY <1>t, <2>1, <2>2, <2>4 DEF graph, DagTypeOK
<1>5. ASSUME NEW n \in NodeIds, SortStep(n) PROVE DagTypeOK'
  <2>1. n \in nodes /\ listed' = Append(listed, n) /\ UNCHANGED <<graph, verified, phase, readded, calls>>
    BY <1>5, <1>t DEF SortStep
  <2>2. listed' \in Seq(nodes)
    BY <1>t, <2>1, Appended
  <2>3. inDegree' \in [NodeIds -> Int] /\ queue' \in SUBSET nodes
    BY <1>5, <1>t DEF SortStep, Released
  <2>4. QED BY <1>t, <2>1, <2>2, <2>3 DEF graph, DagTypeOK
<1>6. CASE SortEnd
  BY <1>6, <1>t DEF SortEnd, graph, sort, DagTypeOK, Phases
<1>7. CASE UNCHANGED dagVars
  BY <1>7, <1>t DEF dagVars, graph, sort, DagTypeOK
<1>8. QED BY <1>1, <1>2, <1>3, <1>4, <1>5, <1>6, <1>7 DEF DagNext

\* Every variable of the DAG service keeps its type: each node has an entry in both
\* adjacency lists, and a sort lists and queues nodes only (DAGService).
THEOREM DagTypeCorrect == DagSpec => []DagTypeOK
BY DagTypeInit, DagTypeStep, PTL DEF DagSpec

\* As long as no node is added twice, both adjacency lists hold each declared
\* dependency once, and they have an entry for whatever is declared.
EdgesDeclared ==
    ~readded =>
        /\ \A n, d \in NodeIds : reverse[n][d] = IF d \in declared[n] THEN 1 ELSE 0
        /\ \A n, d \in NodeIds : forward[d][n] = IF d \in declared[n] THEN 1 ELSE 0
        /\ \A n \in NodeIds \ nodes : declared[n] = {}
        /\ forwardKeys = nodes \cup UNION {declared[n] : n \in nodes}
        /\ reverseKeys \subseteq forwardKeys

LEMMA StoredDeclared ==
    ASSUME DagTypeOK, EdgesDeclared, ~readded
    PROVE  Stored(reverse) = declared
<1>1. \A n \in NodeIds : declared[n] \subseteq NodeIds /\ {d \in NodeIds : reverse[n][d] > 0} = declared[n]
  BY DepSetsFinite DEF DagTypeOK, EdgesDeclared
<1>2. QED BY <1>1 DEF Stored, DagTypeOK

LEMMA AddNodeEdges ==
    ASSUME DagTypeOK, EdgesDeclared, NEW n \in NodeIds, NEW D \in DepSets, AddNode(n, D)
    PROVE  EdgesDeclared'
<1> SUFFICES ASSUME ~readded' PROVE EdgesDeclared'
  BY DEF EdgesDeclared
<1>t. /\ reverse \in [NodeIds -> [NodeIds -> Nat]] /\ forward \in [NodeIds -> [NodeIds -> Nat]]
      /\ declared \in [NodeIds -> DepSets] /\ nodes \subseteq NodeIds
  BY DEF DagTypeOK
<1>1. ~readded /\ n \notin nodes /\ D \subseteq NodeIds
  BY DepSetsFinite DEF AddNode
<1>2. /\ \A m, d \in NodeIds : reverse[m][d] = IF d \in declared[m] THEN 1 ELSE 0
      /\ \A m, d \in NodeIds : forward[d][m] = IF d \in declared[m] THEN 1 ELSE 0
      /\ \A m \in NodeIds \ nodes : declared[m] = {}
      /\ forwardKeys = nodes \cup UNION {declared[m] : m \in nodes}
      /\ reverseKeys \subseteq forwardKeys
  BY <1>1 DEF EdgesDeclared
<1>3. /\ nodes' = nodes \cup {n} /\ declared' = [declared EXCEPT ![n] = D]
      /\ reverse' = AddEdges(reverse, n, D) /\ forward' = AddDependent(forward, n, D)
      /\ reverseKeys' = reverseKeys \cup {n} /\ forwardKeys' = forwardKeys \cup {n} \cup D
  BY DEF AddNode
<1>4. \A m \in NodeIds : declared'[m] = IF m = n THEN D ELSE declared[m]
  BY <1>3, <1>t
<1>5. ASSUME NEW m \in NodeIds, NEW d \in NodeIds PROVE reverse'[m][d] = IF d \in declared'[m] THEN 1 ELSE 0
  <2>1. CASE m = n
    <3>1. reverse'[m][d] = IF D = {} THEN 0 ELSE IF d \in D THEN reverse[n][d] + 1 ELSE reverse[n][d]
      BY <1>3, <1>t, <2>1 DEF AddEdges
    <3>2. reverse[n][d] = 0
      BY <1>1, <1>2
    <3>3. QED BY <1>4, <2>1, <3>1, <3>2
  <2>2. CASE m # n
    BY <1>2, <1>3, <1>4, <1>t, <2>2 DEF AddEdges
  <2>3. QED BY <2>1, <2>2
<1>6. ASSUME NEW m \in NodeIds, NEW d \in NodeIds PROVE forward'[d][m] = IF d \in declared'[m] THEN 1 ELSE 0
  <2>1. forward'[d][m] = IF d \in D /\ m = n THEN forward[d][m] + 1 ELSE forward[d][m]
    BY <1>3, <1>t DEF AddDependent
  <2>2. CASE m = n
    <3>1. forward[d][m] = 0
      BY <1>1, <1>2, <2>2
    <3>2. QED BY <1>4, <2>1, <2>2, <3>1
  <2>3. CASE m # n
    BY <1>2, <1>4, <2>1, <2>3
  <2>4. QED BY <2>2, <2>3
<1>7. \A m \in NodeIds \ nodes' : declared'[m] = {}
  BY <1>2, <1>3, <1>4
<1>8. forwardKeys' = nodes' \cup UNION {declared'[m] : m \in nodes'}
  <2>1. \A m \in nodes : declared'[m] = declared[m]
    BY <1>1, <1>4, <1>t
  <2>2. declared'[n] = D
    BY <1>4
  <2>3. QED BY <1>2, <1>3, <2>1, <2>2
<1>9. reverseKeys' \subseteq forwardKeys'
  BY <1>2, <1>3
<1>10. QED BY <1>5, <1>6, <1>7, <1>8, <1>9 DEF EdgesDeclared

LEMMA BuildDagEdges ==
    ASSUME NEW N \in SUBSET NodeIds, NEW g \in [N -> DepSets], BuildDag(N, g)
    PROVE  EdgesDeclared'
<1>1. /\ nodes' = N /\ declared' = [n \in NodeIds |-> IF n \in N THEN g[n] ELSE {}]
      /\ reverse' = [n \in NodeIds |-> [d \in NodeIds |-> IF n \in N /\ d \in g[n] THEN 1 ELSE 0]]
      /\ forward' = [d \in NodeIds |-> [n \in NodeIds |-> IF n \in N /\ d \in g[n] THEN 1 ELSE 0]]
      /\ forwardKeys' = N \cup UNION {g[n] : n \in N}
  BY DEF BuildDag
<1>2. \A n \in NodeIds : declared'[n] = IF n \in N THEN g[n] ELSE {}
  BY <1>1
<1>3. \A n \in N : declared'[n] = g[n] /\ g[n] \subseteq NodeIds
  BY <1>2, DepSetsFinite
<1>4. /\ \A n, d \in NodeIds : reverse'[n][d] = IF d \in declared'[n] THEN 1 ELSE 0
      /\ \A n, d \in NodeIds : forward'[d][n] = IF d \in declared'[n] THEN 1 ELSE 0
  BY <1>1, <1>2
<1>5. forwardKeys' = nodes' \cup UNION {declared'[n] : n \in nodes'}
  BY <1>1, <1>3
<1>6. reverseKeys' \subseteq forwardKeys'
  <2>1. PICK rev : rev = reverse'
    OBVIOUS
  <2>2. reverseKeys' \subseteq N \cup UnknownIn(Stored(rev), N)
    BY <2>1 DEF BuildDag, Verify
  <2>3. \A n \in N : Stored(rev)[n] = g[n]
    BY <1>3, <1>4, <2>1 DEF Stored
  <2>4. QED BY <1>1, <2>2, <2>3 DEF UnknownIn
<1>7. QED BY <1>1, <1>2, <1>4, <1>5, <1>6 DEF EdgesDeclared

LEMMA EdgesStep == DagTypeOK /\ EdgesDeclared /\ [DagNext]_dagVars => EdgesDeclared'
<1> SUFFICES ASSUME DagTypeOK, EdgesDeclared, [DagNext]_dagVars PROVE EdgesDeclared'
  OBVIOUS
<1>1. CASE UNCHANGED <<graph, readded>>
  BY <1>1 DEF graph, EdgesDeclared
<1>2. CASE VerifyAcyclic
  <2>1. UNCHANGED <<nodes, declared, forward, forwardKeys, reverse, readded>>
    BY <1>2 DEF VerifyAcyclic
  <2>2. ASSUME ~readded PROVE reverseKeys' \subseteq forwardKeys
    <3>1. reverseKeys' \subseteq reverseKeys \cup UnknownIn(declared, nodes)
      BY <1>2, <2>2, StoredDeclared DEF VerifyAcyclic, Verify
    <3>2. QED BY <2>2, <3>1 DEF UnknownIn, EdgesDeclared
  <2>3. QED BY <2>1, <2>2 DEF EdgesDeclared
<1>3. QED
  BY <1>1, <1>2, AddNodeEdges, BuildDagEdges
     DEF DagNext, SortStart, SortStep, SortEnd, dagVars

\* `verified` is kept only as long as the lists stay, and a sort runs on verified
\* lists.
VerifiedAcyclic ==
    /\ verified => ~HasCycle(Stored(reverse))
    /\ phase = "sorting" => verified

LEMMA VerifiedStep == DagTypeOK /\ VerifiedAcyclic /\ [DagNext]_dagVars => VerifiedAcyclic'
<1> SUFFICES ASSUME DagTypeOK, VerifiedAcyclic, [DagNext]_dagVars PROVE VerifiedAcyclic'
  OBVIOUS
<1>1. ASSUME NEW N, NEW keys, NEW rev, rev = reverse', Verify(N, rev, keys) PROVE VerifiedAcyclic'
  <2>1. /\ phase' # "sorting"
        /\ verified' => ~HasCycle(Stored(rev))
    BY <1>1 DEF Verify
  <2>2. Stored(rev) = Stored(reverse)'
    BY <1>1 DEF Stored
  <2>3. HasCycle(Stored(rev)) = HasCycle(Stored(reverse))'
    BY <2>2 DEF HasCycle
  <2>4. QED BY <2>1, <2>3 DEF VerifiedAcyclic
<1>2. ASSUME NEW N \in SUBSET NodeIds, NEW g \in [N -> DepSets], BuildDag(N, g) PROVE VerifiedAcyclic'
  <2>1. PICK rev : rev = reverse'
    OBVIOUS
  <2>2. Verify(N, rev, N)
    BY <1>2, <2>1 DEF BuildDag, Verify
  <2>3. QED BY <1>1, <2>1, <2>2
<1>3. CASE VerifyAcyclic
  <2>1. PICK rev : rev = reverse
    OBVIOUS
  <2>2. reverse' = reverse /\ Verify(nodes, rev, reverseKeys)
    BY <1>3, <2>1 DEF VerifyAcyclic, Verify
  <2>3. QED BY <1>1, <2>1, <2>2
<1>4. ASSUME NEW n \in NodeIds, NEW D \in DepSets, AddNode(n, D) PROVE VerifiedAcyclic'
  BY <1>4 DEF AddNode, VerifiedAcyclic
<1>5. CASE UNCHANGED <<reverse, verified>> /\ (phase' = "sorting" => verified)
  BY <1>5 DEF VerifiedAcyclic, HasCycle, Stored
<1>6. CASE SortStart
  BY <1>5, <1>6 DEF SortStart, graph
<1>7. ASSUME NEW n \in NodeIds, SortStep(n) PROVE VerifiedAcyclic'
  BY <1>5, <1>7 DEF SortStep, graph, VerifiedAcyclic
<1>8. CASE SortEnd \/ UNCHANGED dagVars
  BY <1>5, <1>8 DEF SortEnd, graph, VerifiedAcyclic, dagVars
<1>9. QED BY <1>2, <1>3, <1>4, <1>6, <1>7, <1>8 DEF DagNext

\* The nodes that the sort has listed.
Done == Elements(listed)

\* A node is listed once and after its dependencies; the degree of a node counts the
\* dependencies that are not listed; the queue has the nodes that are free to go.
KahnInv ==
    /\ \A i, j \in 1 .. Len(listed) : listed[i] = listed[j] => i = j
    /\ \A i \in 1 .. Len(listed) : declared[listed[i]] \subseteq {listed[j] : j \in 1 .. i - 1}
    /\ \A m \in NodeIds : inDegree[m] = Cardinality(declared[m] \ Done)
    /\ queue = {n \in nodes \ Done : declared[n] \subseteq Done}

Sorting == ~readded /\ phase = "sorting" => KahnInv

LEMMA DegreeOfDeclared ==
    ASSUME DagTypeOK, EdgesDeclared, ~readded, NEW n \in NodeIds
    PROVE  DegreeOf(n) = Cardinality(declared[n])
<1>1. declared[n] \subseteq NodeIds /\ IsFiniteSet(declared[n])
  BY DepSetsFinite DEF DagTypeOK
<1>2. \A d \in NodeIds : 1 .. reverse[n][d] = IF d \in declared[n] THEN {1} ELSE {}
  <2>1. 1 .. 1 = {1} /\ 1 .. 0 = {}
    OBVIOUS
  <2>2. \A d \in NodeIds : reverse[n][d] = IF d \in declared[n] THEN 1 ELSE 0
    BY DEF EdgesDeclared
  <2>3. QED BY <2>1, <2>2
<1>3. UNION {{d} \X (1 .. reverse[n][d]) : d \in NodeIds} = declared[n] \X {1}
  <2> DEFINE L(d) == {d} \X (1 .. reverse[n][d])
  <2>1. ASSUME NEW d \in NodeIds PROVE L(d) \subseteq declared[n] \X {1}
    BY <1>2
  <2>2. ASSUME NEW p \in declared[n] \X {1} PROVE \E d \in NodeIds : p \in L(d)
    <3>1. PICK d \in declared[n] : p = <<d, 1>>
      OBVIOUS
    <3>2. 1 .. reverse[n][d] = {1}
      BY <1>1, <1>2, <3>1
    <3>3. p \in {d} \X {1}
      BY <3>1
    <3>4. QED BY <1>1, <3>1, <3>2, <3>3
  <2>3. UNION {L(d) : d \in NodeIds} = declared[n] \X {1}
    <3> HIDE DEF L
    <3>1. QED BY <2>1, <2>2
  <2>4. QED BY <2>3
<1>4. Cardinality(declared[n] \X {1}) = Cardinality(declared[n])
  <2>1. IsFiniteSet({1}) /\ Cardinality({1}) = 1
    BY FS_Singleton
  <2>2. Cardinality(declared[n] \X {1}) = Cardinality(declared[n]) * 1
    BY <1>1, <2>1, FS_Product
  <2>3. Cardinality(declared[n]) \in Nat
    BY <1>1, FS_CardinalityType
  <2>4. QED BY <2>2, <2>3
<1>5. DegreeOf(n) = Cardinality(UNION {{d} \X (1 .. reverse[n][d]) : d \in NodeIds})
  BY DEF DegreeOf
<1>6. QED BY <1>3, <1>4, <1>5

LEMMA SortStartKahn ==
    ASSUME DagTypeOK, EdgesDeclared, ~readded, SortStart
    PROVE  KahnInv'
<1>1. /\ UNCHANGED <<nodes, declared>> /\ listed' = <<>>
      /\ inDegree' = [n \in NodeIds |-> IF n \in nodes THEN DegreeOf(n) ELSE 0]
      /\ queue' = {n \in nodes : inDegree'[n] = 0}
  BY DEF SortStart, graph
<1>2. Done' = {}
  BY <1>1 DEF Done, Elements
<1>3. \A n \in NodeIds : IsFiniteSet(declared[n])
  BY DepSetsFinite DEF DagTypeOK
<1>4. ASSUME NEW n \in NodeIds PROVE inDegree'[n] = Cardinality(declared[n] \ {})
  <2>1. declared[n] \ {} = declared[n]
    OBVIOUS
  <2>2. CASE n \in nodes
    BY <1>1, <2>1, <2>2, DegreeOfDeclared
  <2>3. CASE n \notin nodes
    <3>1. declared[n] = {}
      BY <2>3 DEF EdgesDeclared
    <3>2. QED BY <1>1, <2>1, <2>3, <3>1, FS_EmptySet
  <2>4. QED BY <2>2, <2>3
<1>5. queue' = {n \in nodes \ {} : declared[n] \subseteq {}}
  <2>1. \A n \in nodes : inDegree'[n] = 0 <=> declared[n] = {}
    <3>1. nodes \subseteq NodeIds
      BY DEF DagTypeOK
    <3>2. \A n \in nodes : declared[n] \ {} = declared[n]
      OBVIOUS
    <3>3. QED BY <1>3, <1>4, <3>1, <3>2, FS_EmptySet
  <2>2. QED BY <1>1, <2>1
<1>6. Len(listed') = 0
  BY <1>1
<1>7. QED BY <1>1, <1>2, <1>4, <1>5, <1>6 DEF KahnInv

LEMMA SortStepKahn ==
    ASSUME DagTypeOK, EdgesDeclared, ~readded, KahnInv, NEW n \in NodeIds, SortStep(n)
    PROVE  KahnInv'
<1>1. /\ n \in queue /\ UNCHANGED <<nodes, declared, forward>> /\ listed' = Append(listed, n)
      /\ inDegree' = [m \in NodeIds |-> inDegree[m] - forward[n][m]]
      /\ queue' = (queue \ {n}) \cup Released(n)
  BY DEF SortStep, graph
<1>2. /\ n \in nodes /\ n \notin Done /\ declared[n] \subseteq Done
      /\ nodes \subseteq NodeIds /\ listed \in Seq(nodes)
      /\ \A m \in NodeIds : IsFiniteSet(declared[m])
  BY <1>1, DepSetsFinite DEF KahnInv, DagTypeOK
<1>3. Done' = Done \cup {n}
  BY <1>1, <1>2, Appended DEF Done
<1>4. /\ Len(listed) \in Nat /\ Len(listed') = Len(listed) + 1 /\ listed'[Len(listed) + 1] = n
      /\ \A i \in 1 .. Len(listed) : listed'[i] = listed[i] /\ listed[i] \in Done
  BY <1>1, <1>2, AppendProperties DEF Done, Elements
<1>5. /\ \A i, j \in 1 .. Len(listed) : listed[i] = listed[j] => i = j
      /\ \A i \in 1 .. Len(listed) : declared[listed[i]] \subseteq {listed[j] : j \in 1 .. i - 1}
      /\ \A m \in NodeIds : inDegree[m] = Cardinality(declared[m] \ Done)
      /\ queue = {m \in nodes \ Done : declared[m] \subseteq Done}
  BY DEF KahnInv
<1>a. \A i \in 1 .. Len(listed') : i \in 1 .. Len(listed) \/ i = Len(listed) + 1
  BY <1>4
<1>6. \A i, j \in 1 .. Len(listed') : listed'[i] = listed'[j] => i = j
  BY <1>2, <1>4, <1>5, <1>a
<1>7. ASSUME NEW i \in 1 .. Len(listed') PROVE declared'[listed'[i]] \subseteq {listed'[j] : j \in 1 .. i - 1}
  <2>1. 1 .. i - 1 \subseteq 1 .. Len(listed)
    BY <1>4
  <2>2. {listed'[j] : j \in 1 .. i - 1} = {listed[j] : j \in 1 .. i - 1}
    BY <1>4, <2>1
  <2>3. CASE i \in 1 .. Len(listed)
    BY <1>1, <1>4, <1>5, <2>2, <2>3
  <2>4. CASE i = Len(listed) + 1
    <3>1. i - 1 = Len(listed)
      BY <1>4, <2>4
    <3>2. QED BY <1>1, <1>2, <1>4, <2>2, <2>4, <3>1 DEF Done, Elements
  <2>5. QED BY <1>a, <2>3, <2>4
<1>8. \A m \in NodeIds : forward[n][m] = IF n \in declared[m] THEN 1 ELSE 0
  BY DEF EdgesDeclared
<1>9. ASSUME NEW m \in NodeIds PROVE inDegree'[m] = Cardinality(declared[m] \ Done')
  <2> DEFINE W == declared[m] \ Done
  <2>1. IsFiniteSet(W) /\ declared[m] \ Done' = W \ {n}
    BY <1>2, <1>3, FS_Subset
  <2>2. n \in W <=> n \in declared[m]
    BY <1>2
  <2>3. Cardinality(W \ {n}) = IF n \in W THEN Cardinality(W) - 1 ELSE Cardinality(W)
    BY <2>1, FS_RemoveElement
  <2>4. Cardinality(W) \in Nat
    BY <2>1, FS_CardinalityType
  <2>5. inDegree'[m] = Cardinality(W) - forward[n][m]
    BY <1>1, <1>5
  <2> HIDE DEF W
  <2>6. QED BY <1>8, <2>1, <2>2, <2>3, <2>4, <2>5
<1>10. \A m \in nodes : m \in Released(n) <=> declared[m] \ Done = {n}
  <2> SUFFICES ASSUME NEW m \in nodes PROVE m \in Released(n) <=> declared[m] \ Done = {n}
    OBVIOUS
  <2> DEFINE W == declared[m] \ Done
  <2>1. IsFiniteSet(W) /\ m \in NodeIds
    BY <1>2, FS_Subset
  <2>2. Cardinality(W) \in Nat /\ (Cardinality(W) = 1 <=> \E x : W = {x})
    BY <2>1, FS_CardinalityType, FS_Singleton
  <2>3. m \in Released(n) <=> n \in declared[m] /\ Cardinality(W) = 1
    <3>1. inDegree[m] = Cardinality(W)
      BY <1>5, <2>1
    <3> HIDE DEF W
    <3>2. QED BY <1>8, <2>1, <2>2, <3>1 DEF Released
  <2>4. n \in declared[m] <=> n \in W
    BY <1>2
  <2> HIDE DEF W
  <2>5. m \in Released(n) <=> W = {n}
    BY <2>2, <2>3, <2>4
  <2>6. QED BY <2>5 DEF W
<1>11. \A m \in nodes \cap Done : declared[m] \subseteq Done
  <2> SUFFICES ASSUME NEW m \in nodes \cap Done PROVE declared[m] \subseteq Done
    OBVIOUS
  <2>1. PICK i \in 1 .. Len(listed) : listed[i] = m
    BY DEF Done, Elements
  <2>2. 1 .. i - 1 \subseteq 1 .. Len(listed)
    BY <1>4
  <2>3. QED BY <1>5, <2>1, <2>2 DEF Done, Elements
<1>12. queue' = {m \in nodes \ Done' : declared[m] \subseteq Done'}
  <2>1. Released(n) \subseteq nodes
    BY DEF Released
  <2>2. ASSUME NEW m \in nodes
        PROVE  (m \in queue /\ m # n) \/ m \in Released(n) <=>
               m \notin Done' /\ declared[m] \subseteq Done'
    <3>1. CASE m \in Done
      BY <1>2, <1>3, <1>5, <1>10, <1>11, <3>1
    <3>2. CASE m = n
      BY <1>2, <1>3, <1>5, <1>10, <3>2
    <3>3. CASE m \notin Done /\ m # n
      <4>1. m \in queue <=> declared[m] \subseteq Done
        BY <1>5, <3>3
      <4>2. declared[m] \subseteq Done \cup {n} <=> declared[m] \subseteq Done \/ declared[m] \ Done = {n}
        OBVIOUS
      <4>3. QED BY <1>3, <1>10, <3>3, <4>1, <4>2
    <3>4. QED BY <3>1, <3>2, <3>3
  <2>3. queue \subseteq nodes
    BY <1>5
  <2>4. QED BY <1>1, <2>1, <2>2, <2>3
<1>13. QED BY <1>1, <1>6, <1>7, <1>9, <1>12 DEF KahnInv

\* What the calls report, as long as no node is added twice.
Answers ==
    ~readded =>
        /\ phase = "sorted" => IsTopological
        /\ phase = "incomplete" => Unknown # {}
        /\ phase = "cycle" => HasCycle(declared)

\* The sort is over: what is not listed waits for something that is not listed
\* either, in a verified graph thus for an id without a node.
LEMMA SortEndAnswers ==
    ASSUME DagTypeOK, EdgesDeclared, VerifiedAcyclic, ~readded, KahnInv, SortEnd
    PROVE  Answers'
<1>1. /\ UNCHANGED <<nodes, declared, listed>> /\ queue = {} /\ phase = "sorting"
      /\ phase' = IF Len(listed) = Cardinality(nodes) THEN "sorted" ELSE "incomplete"
  BY DEF SortEnd, graph, sort
<1>2. /\ nodes \subseteq NodeIds /\ listed \in Seq(nodes) /\ IsFiniteSet(nodes)
      /\ Len(listed) \in Nat /\ Done \subseteq nodes /\ IsFiniteSet(Done)
      /\ \A i \in 1 .. Len(listed) : listed[i] \in Done
  <2>1. nodes \in SUBSET NodeIds /\ listed \in Seq(nodes)
    BY DEF DagTypeOK
  <2>2. Done \in SUBSET nodes /\ Len(listed) \in Nat /\ \A i \in 1 .. Len(listed) : listed[i] \in Done
    BY <2>1 DEF Done, Elements
  <2>3. IsFiniteSet(nodes)
    BY <2>1, FS_Subset, DagServiceAssumption DEF DagServiceAssumption
  <2>4. QED BY <2>1, <2>2, <2>3, FS_Subset
<1>3. Cardinality(Done) = Len(listed)
  <2> DEFINE f == [i \in 1 .. Len(listed) |-> listed[i]]
  <2>1. f \in Bijection(1 .. Len(listed), Done)
    BY <1>2 DEF KahnInv, Bijection, Injection, Surjection, IsInjective, Done, Elements
  <2>2. IsFiniteSet(1 .. Len(listed)) /\ Cardinality(1 .. Len(listed)) = Len(listed)
    <3>1. 1 \in Int /\ Len(listed) \in Int
      BY <1>2
    <3>2. /\ IsFiniteSet(1 .. Len(listed))
          /\ Cardinality(1 .. Len(listed)) = IF 1 > Len(listed) THEN 0 ELSE Len(listed) - 1 + 1
      BY <3>1, FS_Interval
    <3>3. QED BY <1>2, <3>2
  <2>3. QED BY <2>1, <2>2, FS_Bijection DEF ExistsBijection
<1>4. CASE Len(listed) = Cardinality(nodes)
  <2>1. Done = nodes
    BY <1>2, <1>3, <1>4, FS_Subset
  <2>2. ASSUME NEW n \in nodes, NEW d \in declared[n] PROVE Precedes(d, n)
    <3>1. PICK j \in 1 .. Len(listed) : listed[j] = n
      BY <2>1 DEF Done, Elements
    <3>2. PICK i \in 1 .. j - 1 : listed[i] = d
      BY <3>1 DEF KahnInv
    <3>3. QED BY <1>2, <3>1, <3>2 DEF Precedes
  <2>3. IsTopological
    BY <2>1, <2>2 DEF IsTopological, Done, Elements
  <2>4. IsTopological'
    BY <1>1, <2>3 DEF IsTopological, Precedes
  <2>5. QED BY <1>1, <1>4, <2>4 DEF Answers
<1>5. CASE Len(listed) # Cardinality(nodes)
  <2> DEFINE W == nodes \ Done
  <2>1. W # {} /\ W \in SUBSET NodeIds
    BY <1>2, <1>3, <1>5
  <2>2. \A n \in W : ~(declared[n] \subseteq Done)
    BY <1>1 DEF KahnInv
  <2>3. ~HasCycle(declared)
    BY <1>1, StoredDeclared DEF VerifiedAcyclic
  <2>4. PICK n \in W : declared[n] \cap W = {}
    BY <2>1, <2>3 DEF HasCycle
  <2>5. Unknown # {}
    <3>1. PICK d \in declared[n] : d \notin Done
      BY <2>2
    <3>2. d \notin nodes
      BY <2>4, <3>1
    <3>3. n \in nodes
      OBVIOUS
    <3>4. d \in Unknown
      BY <3>1, <3>2, <3>3 DEF Unknown
    <3>5. QED BY <3>4
  <2>6. QED BY <1>1, <1>5, <2>5 DEF Answers, Unknown
<1>6. QED BY <1>4, <1>5

\* Only get_topological_order starts and continues a sort.
LEMMA SortingStep ==
    DagTypeOK /\ EdgesDeclared /\ Sorting /\ [DagNext]_dagVars => Sorting'
<1> SUFFICES ASSUME DagTypeOK, EdgesDeclared, Sorting, [DagNext]_dagVars,
                    ~readded', phase' = "sorting"
             PROVE  KahnInv'
  BY DEF Sorting
<1>1. CASE SortStart
  BY <1>1, SortStartKahn DEF SortStart
<1>2. ASSUME NEW n \in NodeIds, SortStep(n) PROVE KahnInv'
  BY <1>2, SortStepKahn DEF SortStep, Sorting
<1>3. CASE UNCHANGED dagVars
  <2>1. KahnInv
    BY <1>3 DEF Sorting, dagVars
  <2>2. QED BY <1>3, <2>1 DEF KahnInv, Done, Elements, dagVars, graph, sort
<1>4. QED
  BY <1>1, <1>2, <1>3 DEF DagNext, AddNode, BuildDag, VerifyAcyclic, Verify, SortEnd

LEMMA AnswersStep ==
    /\ DagTypeOK /\ EdgesDeclared /\ VerifiedAcyclic /\ Sorting /\ Answers
    /\ [DagNext]_dagVars
    => Answers'
<1> SUFFICES ASSUME DagTypeOK, EdgesDeclared, VerifiedAcyclic, Sorting, Answers,
                    [DagNext]_dagVars, ~readded'
             PROVE  Answers'
  BY DEF Answers
<1>1. ASSUME NEW N, NEW keys, NEW rev, rev = reverse', Verify(N, rev, keys) PROVE Answers'
  <2>1. phase' = "idle" \/ (phase' = "cycle" /\ HasCycle(Stored(rev)))
    BY <1>1 DEF Verify
  <2>2. DagTypeOK' /\ EdgesDeclared'
    BY DagTypeStep, EdgesStep
  <2>3. Stored(rev) = declared'
    <3>1. \A n \in NodeIds : declared'[n] \subseteq NodeIds /\ {d \in NodeIds : rev[n][d] > 0} = declared'[n]
      BY <1>1, <2>2, DepSetsFinite DEF DagTypeOK, EdgesDeclared
    <3>2. QED BY <2>2, <3>1 DEF Stored, DagTypeOK
  <2>4. HasCycle(Stored(rev)) = HasCycle(declared)'
    BY <2>3 DEF HasCycle
  <2>5. QED BY <2>1, <2>4 DEF Answers
<1>2. ASSUME NEW N \in SUBSET NodeIds, NEW g \in [N -> DepSets], BuildDag(N, g) PROVE Answers'
  <2>1. PICK rev : rev = reverse'
    OBVIOUS
  <2>2. Verify(N, rev, N)
    BY <1>2, <2>1 DEF BuildDag, Verify
  <2>3. QED BY <1>1, <2>1, <2>2
<1>3. CASE VerifyAcyclic
  <2>1. PICK rev : rev = reverse
    OBVIOUS
  <2>2. reverse' = reverse /\ Verify(nodes, rev, reverseKeys)
    BY <1>3, <2>1 DEF VerifyAcyclic, Verify
  <2>3. QED BY <1>1, <2>1, <2>2
<1>4. CASE phase' \in {"idle", "sorting"}
  BY <1>4 DEF Answers
<1>5. CASE SortEnd
  <2>1. ~readded /\ KahnInv
    BY <1>5 DEF SortEnd, Sorting
  <2>2. QED BY <1>5, <2>1, SortEndAnswers
<1>6. CASE UNCHANGED dagVars
  <2>1. UNCHANGED <<nodes, declared, listed, phase, readded>>
    BY <1>6 DEF dagVars, graph, sort
  <2>2. QED BY <2>1 DEF Answers, IsTopological, Precedes, Unknown, HasCycle
<1>7. QED
  BY <1>2, <1>3, <1>4, <1>5, <1>6 DEF DagNext, AddNode, SortStart, SortStep

LEMMA DeclaredRootsAndLeaves ==
    ASSUME DagTypeOK, EdgesDeclared, ~readded
    PROVE  RootsAndLeaves
<1> SUFFICES ASSUME Unknown = {} PROVE RootsAndLeaves
  BY DEF RootsAndLeaves
<1>1. /\ nodes \subseteq NodeIds /\ nodes \subseteq reverseKeys
      /\ reverse \in [NodeIds -> [NodeIds -> Nat]] /\ forward \in [NodeIds -> [NodeIds -> Nat]]
      /\ \A n \in NodeIds : declared[n] \subseteq NodeIds
  BY DepSetsFinite DEF DagTypeOK
<1>2. forwardKeys = nodes /\ reverseKeys = nodes
  BY <1>1 DEF EdgesDeclared, Unknown
<1>3. ASSUME NEW n \in nodes PROVE reverse[n] = None <=> declared[n] = {}
  <2>1. reverse[n] = None <=> \A d \in NodeIds : reverse[n][d] = 0
    BY <1>1 DEF None
  <2>2. \A d \in NodeIds : reverse[n][d] = 0 <=> d \notin declared[n]
    BY <1>1 DEF EdgesDeclared
  <2>3. QED BY <1>1, <2>1, <2>2
<1>4. ASSUME NEW d \in nodes PROVE forward[d] = None <=> \A m \in nodes : d \notin declared[m]
  <2>1. forward[d] = None <=> \A m \in NodeIds : forward[d][m] = 0
    BY <1>1 DEF None
  <2>2. \A m \in NodeIds : forward[d][m] = 0 <=> d \notin declared[m]
    BY <1>1 DEF EdgesDeclared
  <2>3. \A m \in NodeIds \ nodes : d \notin declared[m]
    BY DEF EdgesDeclared
  <2>4. QED BY <1>1, <2>1, <2>2, <2>3
<1>5. RootNodes = {n \in nodes : declared[n] = {}}
  BY <1>2, <1>3 DEF RootNodes
<1>6. LeafNodes = {n \in nodes : \A m \in nodes : n \notin declared[m]}
  BY <1>2, <1>4 DEF LeafNodes
<1>7. QED BY <1>5, <1>6 DEF RootsAndLeaves

DagInv == DagTypeOK /\ EdgesDeclared /\ VerifiedAcyclic /\ Sorting /\ Answers

LEMMA DagInvInit == DagInit => DagInv
<1> SUFFICES ASSUME DagInit PROVE DagInv
  OBVIOUS
<1>1. EdgesDeclared
  BY DEF DagInit, EdgesDeclared, None
<1>2. VerifiedAcyclic /\ Sorting /\ Answers
  BY DEF DagInit, VerifiedAcyclic, Sorting, Answers
<1>3. QED BY <1>1, <1>2, DagTypeInit DEF DagInv

LEMMA DagInvStep == DagInv /\ [DagNext]_dagVars => DagInv'
BY DagTypeStep, EdgesStep, VerifiedStep, SortingStep, AnswersStep DEF DagInv

\* After any sequence of add_node, build_dag, verify_acyclic and sorts, `verified`
\* means acyclic; as long as no node is added twice, a returned order is a topological
\* order of the declared dependencies, the sort comes out short only for an id without
\* a node, and roots and leaves are those of the declared dependencies.
THEOREM OrderOfDeclaredHolds == DagSpec => []OrderOfDeclared
<1>1. DagInv => OrderOfDeclared
  BY DeclaredRootsAndLeaves DEF DagInv, VerifiedAcyclic, Answers, OrderOfDeclared
<1>2. QED BY <1>1, DagInvInit, DagInvStep, PTL DEF DagSpec
=============================================================================
