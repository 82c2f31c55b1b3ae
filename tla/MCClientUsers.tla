---------------------------- MODULE MCClientUsers ----------------------------
(* ClientUsers on two units and two relations. *)
EXTENDS ClientUsers

CONSTANTS u1, u2, c1, c2
=============================================================================
