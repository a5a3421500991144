----------------------------- MODULE Containment -----------------------------
(***************************************************************************)
(* What the node registry promises about CONTAINS: one relation between    *)
(* strategy versions and registered nodes.  A pair is added only for a     *)
(* node that is registered, and a node that is deleted takes its pairs     *)
(* with it.                                                                *)
(***************************************************************************)
CONSTANTS NodeIds, Strategies

VARIABLES
    registered,  \* the nodes there are
    contains     \* pairs <<strategy version, node>>

Init == registered = {} /\ contains = {}

Register(n) == registered' = registered \cup {n} /\ UNCHANGED contains

Delete(n) ==
    /\ registered' = registered \ {n}
    /\ contains' = {p \in contains : p[2] # n}

Contain(s, n) ==
    /\ n \in registered
    /\ contains' = contains \cup {<<s, n>>}
    /\ UNCHANGED registered

Release(s, n) == contains' = contains \ {<<s, n>>} /\ UNCHANGED registered

Next ==
    \E n \in NodeIds :
        \/ Register(n)
        \/ Delete(n)
        \/ \E s \in Strategies : Contain(s, n) \/ Release(s, n)

Spec == Init /\ [][Next]_<<registered, contains>>
=============================================================================
