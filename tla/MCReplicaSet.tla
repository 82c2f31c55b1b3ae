----------------------------- MODULE MCReplicaSet -----------------------------
(* Small instances of the replica set. *)
EXTENDS ReplicaSet

CONSTANTS a, b, c
=============================================================================
