-------------------------- MODULE MCInterfaceUsage --------------------------
(* Two reservations that enter through the same interface and leave through *)
(* different ones.                                                          *)
EXTENDS InterfaceUsage

CONSTANTS r1, r2

MCIn == [id \in ID |-> 1]
MCEg == [id \in ID |-> IF id = r1 THEN 1 ELSE 2]
=============================================================================
