------------------------------ MODULE MCKeeper ------------------------------
(* The durations of the code, in ticks of 5 minutes, and few index numbers. *)
EXTENDS Keeper
=============================================================================
