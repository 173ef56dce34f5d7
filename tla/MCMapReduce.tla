---------------------------- MODULE MCMapReduce ----------------------------
(* A small instance of MapReduce for TLC. *)
EXTENDS MapReduce

CONSTANTS m1, m2, r1, r2, a, b, c

TwoMappers  == {m1, m2}
TwoReducers == {r1, r2}

\* Up to three inputs; a and b have the same key, the two keys have a shard
\* each.
UpToThree == {<<>>, <<a>>, <<a, b>>, <<a, c, b>>}
Bucket    == [x \in {a, b, c} |-> IF x = c THEN 1 ELSE 0]
Shard     == [k \in {0, 1} |-> k]
=============================================================================
