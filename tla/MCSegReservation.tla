-------------------------- MODULE MCSegReservation --------------------------
(* A window of 5 index numbers, so that it fills up and wraps around. *)
EXTENDS SegReservation
=============================================================================
