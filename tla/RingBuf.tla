------------------------------ MODULE RingBuf ------------------------------
(***************************************************************************)
(* The ring buffer of go/lib/ringbuf/ringbuf.go, shared by goroutines that *)
(* write and goroutines that read.  Every operation runs under r.mutex, so *)
(* it is one step, except where a goroutine waits on a condition variable: *)
(* Wait releases the mutex, a Broadcast moves every waiting goroutine to   *)
(* "woken", and a woken goroutine takes the mutex again in a later step    *)
(* and re-evaluates the loop's condition.                                  *)
(*                                                                         *)
(* A call that returns at once without touching the ring (a full ring and  *)
(* block = false, an empty ring and block = false, a closed one) is a      *)
(* stuttering step and has no action.  Metrics are left out.               *)
(***************************************************************************)
EXTENDS Integers, Sequences

CONSTANTS Capacity,  \* count of New
          Entry,     \* what callers write
          Nil,       \* the nil reference of an unused slot
          Writers, Readers,
          MaxBatch   \* bound: the longest slice a caller passes

ASSUME RingAssumption ==
  /\ Capacity \in Nat \ {0}
  /\ MaxBatch \in Nat
  /\ Nil \notin Entry
  /\ Writers \cap Readers = {}

VARIABLES entries, writeIndex, readIndex, writable, readable, closed,
          call,   \* where each goroutine is in its call
          batch,  \* the slice a blocked writer wants to write
          want,   \* the length of the slice a blocked reader wants to fill
          out     \* the slice the last Read filled

ringVars == <<entries, writeIndex, readIndex, writable, readable>>
vars == <<entries, writeIndex, readIndex, writable, readable, closed, call, batch, want, out>>

Slots == 0..(Capacity - 1)
Batches == UNION {[1..n -> Entry] : n \in 0..MaxBatch}

min(x, y) == IF x < y THEN x ELSE y

(* New: without newf the ring starts empty, with newf it starts full. *)
Init ==
  /\ \/ /\ entries = [i \in Slots |-> Nil]
        /\ readable = 0
        /\ writable = Capacity
     \/ /\ entries \in [Slots -> Entry]
        /\ readable = Capacity
        /\ writable = 0
  /\ writeIndex = 0
  /\ readIndex = 0
  /\ closed = FALSE
  /\ call = [p \in Writers \cup Readers |-> "idle"]
  /\ batch = [w \in Writers |-> <<>>]
  /\ want = [r \in Readers |-> 0]
  /\ out = <<>>

(* Variant: Signal wakes only one waiting goroutine.                        *)
Signal(c, ps) ==
  [p \in Writers \cup Readers |->
     IF p \in ps /\ c[p] = "asleep" /\ p = CHOOSE q \in ps : c[q] = "asleep"
     THEN "woken" ELSE c[p]]

(* writableC.Broadcast and readableC.Broadcast: every goroutine of ps that  *)
(* waits is made runnable.                                                  *)
Broadcast(c, ps) ==
  [p \in Writers \cup Readers |-> IF p \in ps /\ c[p] = "asleep" THEN "woken" ELSE c[p]]

(* The private write: the slice s goes to writeIndex and, past the end of   *)
(* the slots, to slot 0.  writeIndex may be left at Capacity.               *)
write(s) ==
  LET n == Len(s)
      first == min(n, Capacity - writeIndex)
  IN /\ entries' = [i \in Slots |->
           IF i >= writeIndex /\ i < writeIndex + first THEN s[i - writeIndex + 1]
           ELSE IF i < n - first THEN s[first + i + 1]
           ELSE entries[i]]
     /\ writeIndex' = IF first < n THEN n - first ELSE writeIndex + first

(* Variant: the slots after the wraparound keep their references.           *)
readKeepingRefs(n) ==
  LET first == min(n, Capacity - readIndex)
  IN /\ out' = [i \in 1..n |->
           IF i <= first THEN entries[readIndex + i - 1] ELSE entries[i - first - 1]]
     /\ entries' = [i \in Slots |->
           IF i >= readIndex /\ i < readIndex + first THEN Nil ELSE entries[i]]
     /\ readIndex' = IF first < n THEN n - first ELSE readIndex + first

(* The private read: n entries from readIndex are handed out and their      *)
(* slots set to nil, wrapping around like write.                            *)
read(n) ==
  LET first == min(n, Capacity - readIndex)
  IN /\ out' = [i \in 1..n |->
           IF i <= first THEN entries[readIndex + i - 1] ELSE entries[i - first - 1]]
     /\ entries' = [i \in Slots |->
           IF (i >= readIndex /\ i < readIndex + first) \/ i < n - first
           THEN Nil ELSE entries[i]]
     /\ readIndex' = IF first < n THEN n - first ELSE readIndex + first

(* The rest of Write once the ring has room: as much of s as fits is stored *)
(* and all waiting readers are woken.                                       *)
Store(w, s) ==
  LET n == min(writable, Len(s))
  IN /\ write(SubSeq(s, 1, n))
     /\ writable' = writable - n
     /\ readable' = readable + n
     /\ call' = Broadcast([call EXCEPT ![w] = "idle"], Readers)
     /\ batch' = [batch EXCEPT ![w] = <<>>]
     /\ UNCHANGED <<readIndex, closed, want, out>>

(* The rest of Read: as many of the k wanted entries as there are.          *)
Fetch(r, k) ==
  LET n == min(readable, k)
  IN /\ read(n)
     /\ readable' = readable - n
     /\ writable' = writable + n
     /\ call' = Broadcast([call EXCEPT ![r] = "idle"], Writers)
     /\ want' = [want EXCEPT ![r] = 0]
     /\ UNCHANGED <<writeIndex, closed, batch>>

(* Write blocks: the caller joins the waiters of writableC.                 *)
WriteBlocks(w) ==
  /\ call[w] = "idle"
  /\ writable = 0 /\ ~closed
  /\ \E s \in Batches :
       /\ Len(s) > 0
       /\ batch' = [batch EXCEPT ![w] = s]
  /\ call' = [call EXCEPT ![w] = "asleep"]
  /\ UNCHANGED <<ringVars, closed, want, out>>

(* Write finds room, or has nothing to write.                               *)
Write(w) ==
  /\ call[w] = "idle"
  /\ ~closed
  /\ \E s \in Batches :
       /\ Len(s) = 0 \/ writable > 0
       /\ Store(w, s)

(* Variant: the closed flag is only tested before the wait.                 *)
WriteResumesUnchecked(w) ==
  /\ call[w] = "woken"
  /\ \/ /\ writable = 0
        /\ call' = [call EXCEPT ![w] = IF closed THEN "idle" ELSE "asleep"]
        /\ UNCHANGED <<ringVars, closed, batch, want, out>>
     \/ /\ writable > 0
        /\ Store(w, batch[w])

(* A woken writer holds the mutex again: it waits on, gives up on a closed  *)
(* ring, or writes.                                                         *)
WriteResumes(w) ==
  /\ call[w] = "woken"
  /\ \/ /\ writable = 0 /\ ~closed
        /\ call' = [call EXCEPT ![w] = "asleep"]
        /\ UNCHANGED <<ringVars, closed, batch, want, out>>
     \/ /\ closed
        /\ call' = [call EXCEPT ![w] = "idle"]
        /\ batch' = [batch EXCEPT ![w] = <<>>]
        /\ UNCHANGED <<ringVars, closed, want, out>>
     \/ /\ writable > 0 /\ ~closed
        /\ Store(w, batch[w])

ReadBlocks(r) ==
  /\ call[r] = "idle"
  /\ readable = 0 /\ ~closed
  /\ \E k \in 1..MaxBatch : want' = [want EXCEPT ![r] = k]
  /\ call' = [call EXCEPT ![r] = "asleep"]
  /\ UNCHANGED <<ringVars, closed, batch, out>>

(* Read finds entries (also in a closed ring), or asks for none.            *)
Read(r) ==
  /\ call[r] = "idle"
  /\ ~(closed /\ readable = 0)
  /\ \E k \in 0..MaxBatch :
       /\ k = 0 \/ readable > 0
       /\ Fetch(r, k)

(* Variant: a reader woken by Close spins until there is something to read. *)
ReadResumesSpinning(r) ==
  /\ call[r] = "woken"
  /\ \/ /\ readable = 0 /\ ~closed
        /\ call' = [call EXCEPT ![r] = "asleep"]
        /\ UNCHANGED <<ringVars, closed, batch, want, out>>
     \/ /\ readable > 0
        /\ Fetch(r, want[r])

ReadResumes(r) ==
  /\ call[r] = "woken"
  /\ \/ /\ readable = 0 /\ ~closed
        /\ call' = [call EXCEPT ![r] = "asleep"]
        /\ UNCHANGED <<ringVars, closed, batch, want, out>>
     \/ /\ readable = 0 /\ closed
        /\ call' = [call EXCEPT ![r] = "idle"]
        /\ want' = [want EXCEPT ![r] = 0]
        /\ UNCHANGED <<ringVars, closed, batch, out>>
     \/ /\ readable > 0
        /\ Fetch(r, want[r])

(* Close wakes everybody who waits.                                         *)
Close ==
  /\ closed' = TRUE
  /\ call' = Broadcast(call, Writers \cup Readers)
  /\ UNCHANGED <<ringVars, batch, want, out>>

Next ==
  \/ \E w \in Writers : WriteBlocks(w) \/ Write(w) \/ WriteResumes(w)
  \/ \E r \in Readers : ReadBlocks(r) \/ Read(r) \/ ReadResumes(r)
  \/ Close

Spec == Init /\ [][Next]_vars

(* A runnable goroutine eventually gets the mutex: Go's sync.Mutex hands it *)
(* over to a waiter that starves.                                           *)
FairSpec ==
  /\ Spec
  /\ \A w \in Writers : WF_vars(WriteResumes(w))
  /\ \A r \in Readers : WF_vars(ReadResumes(r))
-----------------------------------------------------------------------------
TypeOK ==
  /\ entries \in [Slots -> Entry \cup {Nil}]
  /\ writeIndex \in 0..Capacity
  /\ readIndex \in 0..Capacity
  /\ writable \in 0..Capacity
  /\ readable \in 0..Capacity
  /\ closed \in BOOLEAN
  /\ call \in [Writers \cup Readers -> {"idle", "asleep", "woken"}]
  /\ batch \in [Writers -> Batches]
  /\ want \in [Readers -> 0..MaxBatch]
  /\ out \in Batches

(* The slot of the k-th readable entry, k counted from 0.                   *)
Wrap(i) == IF i >= Capacity THEN i - Capacity ELSE i
SlotOf(k) == Wrap(readIndex + k)

(* The queue the ring stands for.                                           *)
Contents == [i \in 1..readable |-> entries[SlotOf(i - 1)]]

(* No lost wakeup: nobody sleeps while there is something to do for them,   *)
(* whatever mix of batches, partial writes and competing readers went       *)
(* before (ringbuf.go:86, 121 wait; 96, 133, 145 broadcast).                *)
NoLostWakeup ==
  /\ (\E r \in Readers : call[r] = "asleep") => readable = 0 /\ ~closed
  /\ (\E w \in Writers : call[w] = "asleep") => writable = 0 /\ ~closed

(* The ring keeps a reference to exactly the entries still to be read: read *)
(* "removes references that were just read" (ringbuf.go:162), also across   *)
(* the wraparound, and never drops one that was not.                        *)
HoldsWhatIsReadable ==
  {i \in Slots : entries[i] # Nil} = {SlotOf(k) : k \in 0..(readable - 1)}

(* The ring is a bounded FIFO queue: index arithmetic, wraparound, partial  *)
(* writes and the wait loops together hand every accepted entry out once,   *)
(* in order, and a closed ring is drained but never refilled.               *)
Q == INSTANCE BoundedQueue WITH queue <- Contents
ImplementsQueue == Q!Spec

(* "Close closes the ring buffer, and causes all blocked readers/writers to *)
(* be notified": every blocked call returns.                                *)
CloseReleases == closed ~> \A p \in Writers \cup Readers : call[p] = "idle"
=============================================================================
