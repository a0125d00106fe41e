--------------------------- MODULE MCSegmentStore ---------------------------
(* A path of three ASes: an initiator, a transit AS and the last AS. *)
EXTENDS SegmentStore
=============================================================================
