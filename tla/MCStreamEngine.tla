--------------------------- MODULE MCStreamEngine ---------------------------
(* Instances of StreamEngine for TLC: a source, a node below it, and a node  *)
(* below both.                                                               *)
EXTENDS StreamEngine

CONSTANTS src, mid, join

MCUpstreams == (src :> {}) @@ (mid :> {src}) @@ (join :> {src, mid})
=============================================================================
