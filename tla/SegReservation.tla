--------------------------- MODULE SegReservation ---------------------------
(***************************************************************************)
(* One segment reservation as one AS of its path stores it.  Any request   *)
(* may arrive at any time with any index number: that is what a transit AS *)
(* sees, because the windows of two ASes differ after a failed request.    *)
(* Each action is what the AS commits for one request; SegmentStore models *)
(* the requests themselves and implements this module at every transit AS. *)
(***************************************************************************)
EXTENDS SegIndices

VARIABLE rsv

Stored == rsv # NoRsv

Init == rsv = NoRsv

\* The initiator creates the reservation in its DB before requesting an index.
NewSegmentRsv ==
  /\ ~Stored
  /\ rsv' = NewReservation

\* A setup or a renewal: admitted, not in use, and accepted by the window.
AdmitSegmentReservation(idx, ttl, maxBW, allocBW) ==
  LET r == IF Stored THEN rsv ELSE NewReservation
      x == NewIndex(idx, ttl, maxBW, allocBW)
  IN  /\ FindIndex(r.Indices, idx) = 0
      /\ addIndexOK(r, x)
      /\ rsv' = addIndex(r, x)

ConfirmSegmentReservation(idx) ==
  /\ Stored
  /\ SetIndexConfirmedOK(rsv, idx)
  /\ rsv' = SetIndexConfirmed(rsv, idx)

ActivateSegmentReservation(idx) ==
  /\ Stored
  /\ SetIndexActiveOK(rsv, idx)
  /\ rsv' = SetIndexActive(rsv, idx)

CleanupSegmentReservation(idx) ==
  /\ Stored
  /\ RemoveIndexOK(rsv, idx)
  /\ rsv' = RemoveIndex(rsv, idx)

TearDownSegmentReservation ==
  /\ Stored
  /\ rsv' = NoRsv

DeleteExpiredIndices ==
  /\ Stored
  /\ \E k \in 1 .. Len(rsv.Indices) :
       ExpiredAreFirst(rsv, k) /\ rsv' = ExpireFirst(rsv, k)

\* The expirer runs many times in a tick: expired indices are gone before the next.
Tick ==
  /\ Stored
  /\ ~HasExpired(rsv)
  /\ rsv' = Age(rsv)

Next ==
  \/ NewSegmentRsv
  \/ \E idx \in IndexNumber, ttl \in 0 .. Lifetime, maxBW, allocBW \in BWCls :
       AdmitSegmentReservation(idx, ttl, maxBW, allocBW)
  \/ \E idx \in IndexNumber :
       \/ ConfirmSegmentReservation(idx)
       \/ ActivateSegmentReservation(idx)
       \/ CleanupSegmentReservation(idx)
  \/ TearDownSegmentReservation
  \/ DeleteExpiredIndices
  \/ Tick

Spec == Init /\ [][Next]_rsv

-----------------------------------------------------------------------------
(* Properties *)

\* The stored reservation has the type of segment.Reservation.
TypeOK == rsv \in Reservation \cup {NoRsv}

(***************************************************************************)
(* ValidateIndices is only called when an index is added; the window it    *)
(* accepts (consecutive numbers, ordered expirations, at most MaxPerExp    *)
(* per expiration) stays valid through activation, removal and expiry.     *)
(***************************************************************************)
WindowStaysValid == Stored => ValidateIndices(rsv.Indices)

(***************************************************************************)
(* Reservation.Validate: activeIndex is -1 or 0 and inside the window.     *)
(* Moreover the state of the indices agrees with it: an index is Active    *)
(* exactly when it is the one activeIndex points to.                       *)
(***************************************************************************)
ActiveIsFirst ==
  Stored =>
    /\ rsv.activeIndex \in {-1, 0}
    /\ rsv.activeIndex < Len(rsv.Indices)
    /\ \A i \in 1 .. Len(rsv.Indices) :
         rsv.Indices[i].State = "Active" <=> i = rsv.activeIndex + 1

(***************************************************************************)
(* FindIndex computes a position from the first index number alone; it     *)
(* always finds the index with that number, and nothing when there is none,*)
(* also when the numbers wrap around.                                      *)
(***************************************************************************)
LookupIsExact ==
  Stored => \A idx \in IndexNumber :
    LET k == FindIndex(rsv.Indices, idx)
    IN  \A i \in 1 .. Len(rsv.Indices) : rsv.Indices[i].Idx = idx <=> i = k

(***************************************************************************)
(* The DB returns the rows of the indices in any order and SortIndices     *)
(* puts them back: its comparison orders the window as stored, also when   *)
(* the numbers wrap around and expirations are shared.  Setting the active *)
(* index of what was loaded is accepted and gives the reservation stored.  *)
(***************************************************************************)
ReloadIsIdentity ==
  Stored =>
    LET s == rsv.Indices
        a == ActiveIndexColumn(rsv)
    IN  /\ \A i, j \in 1 .. Len(s) : i # j => (SortIndicesLess(s[i], s[j]) <=> i < j)
        /\ a # -1 => SetIndexActiveOK([Indices |-> s, activeIndex |-> -1], a)
        /\ buildSegRsvFromFields(s, a) = rsv

(***************************************************************************)
(* The number that NextIndexToRenew proposes is free as long as the window *)
(* is not full: a renewal that outlives the last index is only refused     *)
(* because of the limit per expiration time.                               *)
(***************************************************************************)
RenewalIsAccepted ==
  Stored =>
    LET s == rsv.Indices
        n == NextIndexToRenew(rsv)
    IN  Len(s) < Modulus =>
          /\ FindIndex(s, n) = 0
          /\ \A ttl \in 0 .. Lifetime, bw \in BWCls :
               (\A i \in 1 .. Len(s) : s[i].Expiration < ttl) =>
                 addIndexOK(rsv, NewIndex(n, ttl, bw, bw))

(***************************************************************************)
(* Switching the active index never shortens the reservation: the new one  *)
(* was confirmed, and expires no earlier than the one it replaces.         *)
(***************************************************************************)
ActiveOf(r) == IF r = NoRsv \/ r.activeIndex = -1 THEN <<>> ELSE <<r.Indices[r.activeIndex + 1]>>
SwitchForward ==
  [][LET old == ActiveOf(rsv)
         new == ActiveOf(rsv')
     IN  old # <<>> /\ new # <<>> /\ old[1].Idx # new[1].Idx =>
           /\ new[1].Expiration >= old[1].Expiration
           /\ \E i \in 1 .. Len(rsv.Indices) :
                rsv.Indices[i].Idx = new[1].Idx /\ rsv.Indices[i].State = "Pending"]_rsv

=============================================================================
