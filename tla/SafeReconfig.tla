---------------------------- MODULE SafeReconfig ----------------------------
(***************************************************************************)
(* What the changes of a replica set's configuration amount to: there is   *)
(* one sequence of versions, and each differs from the one before it by at *)
(* most one member, however many units write configurations.  The majority *)
(* that elected a primary then meets every majority of the next one.       *)
(***************************************************************************)
EXTENDS Naturals

CONSTANT Nodes

VARIABLES
  config,  \* the members of the latest configuration
  version  \* its version, 0 before there is any

Init == config = {} /\ version = 0

(* Any nodes may form the set, once.                                       *)
Initiate ==
  /\ version = 0 /\ version' = 1
  /\ config' \in SUBSET Nodes /\ config' # {}

(* A member that was already there, or already gone, makes a version that  *)
(* changes nothing.                                                        *)
Reconfigure(n) ==
  /\ version > 0 /\ version' = version + 1
  /\ config' \in {config \cup {n}, config \ {n}} /\ config' # {}

Next == Initiate \/ \E n \in Nodes : Reconfigure(n)

Spec == Init /\ [][Next]_<<config, version>>
=============================================================================
