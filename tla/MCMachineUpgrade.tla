--------------------------- MODULE MCMachineUpgrade ---------------------------
(* Small instances of the refresh on machines. *)
EXTENDS MachineUpgrade

(* Revision 2 is a compatible refresh of 1; 3 has another major version.   *)
MCSnapOf == [r \in Revisions |-> 10 * r]
MCCharmMajor == [r \in Revisions |-> IF r = 3 THEN 2 ELSE 1]
MCSnapMajor == [s \in Snaps |-> IF s = 30 THEN 7 ELSE 6]

Begins(r, l, p) == [charm |-> r, leader |-> l, primary |-> p]

(* Each unit is the leader, and each the primary.                          *)
MCStarts ==
  {Begins(1, 0, 0), Begins(1, 1, 1), Begins(1, 2, 2), Begins(1, 2, 0), Begins(1, 0, 2)}

(* Of the higher revision the first refresh leads to one that is not       *)
(* compatible, and the second back.                                        *)
MCRollbackStarts == MCStarts \cup {Begins(2, 0, 1)}
=============================================================================
