--------------------------- MODULE MCLocalEngine ---------------------------
(* Instances of LocalEngine for TLC: a source and a node below it, in two     *)
(* pipelines that keep histories of different lengths, one with two intervals *)
(* and one with a query node in addition.                                   *)
EXTENDS LocalEngine

CONSTANTS a, b, p1, p2, q, i1, i2, t

S(period, max) == [period |-> period, max |-> max]

MCUpstreams == (a :> {}) @@ (b :> {a})
MCOwn == (a :> <<>>) @@ (b :> (i1 :> S(1, 2)))
MCDefaults == (p1 :> (i1 :> S(2, 1))) @@ (p2 :> (i1 :> S(1, 2) @@ i2 :> S(2, 1)))
MCInputs == {None, {a}, {b}}
MCTags == (a :> {t}) @@ (b :> {t})

\* One of the nodes with tag t that have the interval i1 and the period 2.
MCQueries ==
    q :> [tags |-> {t}, interval |-> i1, period |-> 2,
          selectors |-> <<[mode |-> "batch"], [mode |-> "random", size |-> 1]>>]

\* All of those that have the period 2 on i1; the condition after it is not read.
MCOverrides ==
    {<<[mode |-> "filter",
        meta |-> <<[on |-> "tags", value |-> {t}],
                   [on |-> "stream_settings", value |-> (i1 :> 2)],
                   [on |-> "interval_settings", value |-> 3]>>]>>}

\* Live is the filter of the code: it keeps what has not expired, in its order.
ASSUME LiveFilters ==
    \A s \in BoundedSeq(Items, 3) : Live(s) = SelectSeq(s, LAMBDA item : item.expires # "past")
=============================================================================
