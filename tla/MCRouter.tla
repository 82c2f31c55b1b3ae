------------------------------ MODULE MCRouter ------------------------------
(* Two routers, u1 leading at first.                                        *)
EXTENDS Router

CONSTANTS u1, u2
=============================================================================
