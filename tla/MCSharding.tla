------------------------------ MODULE MCSharding ------------------------------
(* Names of the shards of the small instances. *)
EXTENDS Sharding

CONSTANTS a, b, c
=============================================================================
