--------------------------- MODULE MCSegAdmission ---------------------------
(***************************************************************************)
(* Two sources with reservations through two ingress and two egress        *)
(* interfaces: r1 and r2 share the ingress, r2 and r3 the egress.  The     *)
(* runs use r2 and r3; interface 3 has no reservation.                     *)
(***************************************************************************)
EXTENDS SegAdmission

CONSTANTS r1, r2, r3

MCSrc == [id \in ID |-> IF id = r3 THEN "s2" ELSE "s1"]
MCIn == [id \in ID |-> IF id = r3 THEN 2 ELSE 1]
MCEg == [id \in ID |-> IF id = r1 THEN 3 ELSE 4]
MCCapIn == [i \in {1, 2} |-> IF i = 1 THEN 46 ELSE 40]
MCCapEg == [e \in {3, 4} |-> IF e = 3 THEN 23 ELSE 64]
MCDelta == <<1, 1>>
=============================================================================
