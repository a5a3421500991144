---------------------------- MODULE MCRegistryApi ----------------------------
(* Instances of RegistryApi for TLC: two nodes, one of which may name the   *)
(* other, one unknown and two known strategy versions, two callback urls.   *)
EXTENDS RegistryApi

CONSTANTS n1, n2, s1, s2, s3, u1, u2

MCNodeIds == {n1, n2}
MCStrategies == {s1, s2, s3}
MCKnown == {s1, s2}
MCUrls == {u1, u2}

R(op, n, a) == [op |-> op, node |-> n, arg |-> a]

\* Dependencies and callbacks are exercised on n1.
MCRequests ==
    {R("create", n1, <<>>), R("create", n1, <<n2>>), R("create", n2, <<>>),
     R("malformed", n2, NoRequest), R("delete", n1, NoRequest),
     R("dep", n1, n2), R("undep", n1, n2),
     R("register", n1, u1), R("unregister", n1, u1), R("unregister", n1, u2)}
        \cup {R("link", n1, s) : s \in MCStrategies} \cup {R("unlink", n1, s) : s \in MCKnown}
        \cup {R("status", n1, st) : st \in Statuses}
=============================================================================
