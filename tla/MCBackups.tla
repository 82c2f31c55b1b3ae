------------------------------ MODULE MCBackups ------------------------------
(* Backups on two units: offers that overtake each other, a rotation and a  *)
(* backup one after the other, and faults, on either substrate.             *)
EXTENDS Backups

CONSTANTS u1, u2

Start(s, c, o, a, f) ==
  [substrate |-> s, chain |-> c, offers |-> o, actions |-> a, faults |-> f]

MCStarts ==
  {Start("vm", FALSE, 2, 1, 0), Start("vm", TRUE, 2, 0, 1),
   Start("vm", FALSE, 1, 2, 0), Start("vm", FALSE, 1, 1, 1), Start("k8s", FALSE, 1, 1, 1)}
=============================================================================
