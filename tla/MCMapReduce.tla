---------------------------- MODULE MCMapReduce ----------------------------
(***************************************************************************)
(* A query over shards that every one of three nodes has.                  *)
(***************************************************************************)
EXTENDS MapReduce

CONSTANTS a, b, c

\* Both shards are first asked of b and part ways when it is lost.
Owners == [s \in Shard |-> IF s = 1 THEN <<b, a, c>> ELSE <<b, c, a>>]
=============================================================================
