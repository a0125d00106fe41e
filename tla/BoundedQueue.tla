---------------------------- MODULE BoundedQueue ----------------------------
(***************************************************************************)
(* What a ring buffer (go/lib/ringbuf) promises to its users: a FIFO queue *)
(* of at most Capacity entries that hands entries out in the order in      *)
(* which they were accepted, accepts nothing once it is closed, and still  *)
(* hands out what it held when it was closed.  out is the slice the last   *)
(* Read filled.                                                            *)
(***************************************************************************)
EXTENDS Integers, Sequences

CONSTANTS Capacity,  \* how many entries the queue holds
          Entry      \* what may be queued

VARIABLES queue, out, closed

vars == <<queue, out, closed>>

(* A queue starts empty, or full when the ring allocates its entries. *)
Init ==
  /\ \E n \in {0, Capacity} : queue \in [1..n -> Entry]
  /\ out = <<>>
  /\ closed = FALSE

(* A batch, or the prefix of it that fits, joins at the tail. *)
Put ==
  /\ ~closed
  /\ \E n \in 1..(Capacity - Len(queue)) : \E s \in [1..n -> Entry] : queue' = queue \o s
  /\ UNCHANGED <<out, closed>>

(* Entries leave at the head. *)
Take ==
  \E n \in 0..Len(queue) :
    /\ out' = SubSeq(queue, 1, n)
    /\ queue' = SubSeq(queue, n + 1, Len(queue))
    /\ UNCHANGED closed

Close == closed' = TRUE /\ UNCHANGED <<queue, out>>

Next == Put \/ Take \/ Close

Spec == Init /\ [][Next]_vars
=============================================================================
