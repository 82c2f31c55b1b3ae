------------------------- MODULE MCKubernetesUpgrade -------------------------
(* Small instances of the refresh on Kubernetes. *)
EXTENDS KubernetesUpgrade

(* Revision 2 is a compatible refresh of 1; 3 has another major version.   *)
MCMajor == [r \in Revisions |-> IF r = 3 THEN 2 ELSE 1]
=============================================================================
