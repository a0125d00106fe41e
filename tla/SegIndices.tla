----------------------------- MODULE SegIndices -----------------------------
(***************************************************************************)
(* The data of a COLIBRI segment reservation: a window of indices          *)
(* (versions of the reservation) with consecutive index numbers and        *)
(* non-decreasing expiration times, at most one of which is active.  The   *)
(* operators translate go/co/reservation/segment/{reservation,index}.go    *)
(* and go/co/reservation/index.go.                                         *)
(*                                                                         *)
(* Expirations are kept relative to the clock: the field Expiration is the *)
(* number of ticks an index has left, -1 once it has expired.  Tokens are  *)
(* left out: NewIndex derives them from the index itself.                  *)
(***************************************************************************)
EXTENDS Integers, Sequences

CONSTANTS
  Modulus,    \* number of index numbers (16 in the code)
  MaxPerExp,  \* indices that may share an expiration time (3 in the code)
  Lifetime,   \* the longest life of a new index, in ticks
  BWCls,      \* bandwidth classes
  NoRsv       \* the AS does not store the reservation

IndexNumber == 0 .. Modulus - 1
IndexState == {"Temporary", "Pending", "Active"}
Index == [Idx : IndexNumber, Expiration : -1 .. Lifetime,
          State : IndexState, MaxBW : BWCls, AllocBW : BWCls]
Reservation == [Indices : Seq(Index), activeIndex : Int]

ASSUME SegReservationAssumption ==
  /\ Modulus \in Nat /\ Modulus >= 2 * MaxPerExp
  /\ MaxPerExp \in Nat \ {0}
  /\ Lifetime \in Nat
  /\ NoRsv \notin Reservation

-----------------------------------------------------------------------------
(* Index numbers: 4 bit arithmetic. *)

Add(i, j) == IF i + j >= Modulus THEN i + j - Modulus ELSE i + j
Sub(i, j) == IF i >= j THEN i - j ELSE i - j + Modulus

-----------------------------------------------------------------------------
(* The window of indices. *)

\* FindIndex: the position (from 1) of an index number, 0 when it is not found.
FindIndex(s, idx) ==
  LET sliceIndex == Sub(idx, IF Len(s) > 0 THEN s[1].Idx ELSE 0)
  IN  IF sliceIndex > Len(s) - 1 THEN 0 ELSE sliceIndex + 1

\* Mutant of ValidateIndices: index numbers are not compared.
ValidateIndicesAnyNumber(s) ==
  /\ Len(s) <= Modulus
  /\ \A i \in 1 .. Len(s) - 1 : s[i].Expiration <= s[i + 1].Expiration

ValidateIndices(s) ==
  /\ Len(s) <= Modulus
  /\ \A i \in 1 .. Len(s) - 1 :
       /\ s[i].Expiration <= s[i + 1].Expiration
       /\ s[i + 1].Idx = Add(s[i].Idx, 1)
  /\ \A i \in 1 .. Len(s) - MaxPerExp :
       s[i].Expiration # s[i + MaxPerExp].Expiration

\* Mutant of SortIndicesLess: indices with one expiration are not told apart.
SortIndicesByExpiration(x, y) == x.Expiration < y.Expiration

\* The comparison SortIndices sorts the rows of a reservation with.
SortIndicesLess(x, y) ==
  \/ x.Expiration < y.Expiration
  \/ x.Expiration = y.Expiration /\ Sub(y.Idx, x.Idx) < MaxPerExp

\* The indices after the first k.
Drop(s, k) == SubSeq(s, k + 1, Len(s))

-----------------------------------------------------------------------------
(* Operations on a reservation; each XOK says when X returns no error. *)

NewReservation == [Indices |-> <<>>, activeIndex |-> -1]

NewIndex(idx, ttl, maxBW, allocBW) ==
  [Idx |-> idx, Expiration |-> ttl, State |-> "Temporary",
   MaxBW |-> maxBW, AllocBW |-> allocBW]

addIndexOK(r, x) == ValidateIndices(Append(r.Indices, x))
addIndex(r, x) == [Indices |-> Append(r.Indices, x), activeIndex |-> r.activeIndex]

WithState(x, st) == [Idx |-> x.Idx, Expiration |-> x.Expiration,
                     State |-> st, MaxBW |-> x.MaxBW, AllocBW |-> x.AllocBW]
SetState(s, k, st) == [i \in 1 .. Len(s) |-> IF i = k THEN WithState(s[i], st) ELSE s[i]]

SetIndexConfirmedOK(r, idx) ==
  LET k == FindIndex(r.Indices, idx)
  IN  k # 0 /\ r.Indices[k].State # "Active"
SetIndexConfirmed(r, idx) ==
  [Indices |-> SetState(r.Indices, FindIndex(r.Indices, idx), "Pending"),
   activeIndex |-> r.activeIndex]

\* Mutant of SetIndexActiveOK: any known index can be activated.
SetIndexActiveAnyState(r, idx) == FindIndex(r.Indices, idx) # 0

SetIndexActiveOK(r, idx) ==
  LET k == FindIndex(r.Indices, idx)
  IN  /\ k # 0
      /\ \/ r.activeIndex = k - 1
         \/ /\ r.Indices[k].State \in {"Pending", "Active"}
            /\ r.activeIndex <= k - 1

\* Mutant of SetIndexActive: the new active index only takes the first place.
SetIndexActiveInPlace(r, idx) ==
  LET s == r.Indices
      k == FindIndex(s, idx)
  IN  [Indices |-> SetState([s EXCEPT ![1] = s[k]], 1, "Active"), activeIndex |-> 0]

SetIndexActive(r, idx) ==
  LET k == FindIndex(r.Indices, idx)
  IN  IF r.activeIndex = k - 1 THEN r
      ELSE [Indices |-> SetState(Drop(r.Indices, k - 1), 1, "Active"),
            activeIndex |-> 0]

\* Mutant of RemoveIndex: the position of the active index is not adjusted.
RemoveIndexKeepsActive(r, idx) ==
  [Indices |-> Drop(r.Indices, FindIndex(r.Indices, idx)), activeIndex |-> r.activeIndex]

RemoveIndexOK(r, idx) == FindIndex(r.Indices, idx) # 0
RemoveIndex(r, idx) ==
  LET k == FindIndex(r.Indices, idx)
  IN  [Indices |-> Drop(r.Indices, k),
       activeIndex |-> IF r.activeIndex > k - 1 THEN r.activeIndex - k ELSE -1]

\* upsertNewSegReservation stores the number of the active index, -1 for none.
ActiveIndexColumn(r) == IF r.activeIndex = -1 THEN -1 ELSE r.Indices[r.activeIndex + 1].Idx

\* A reservation read back from its rows, already sorted.
buildSegRsvFromFields(indices, activeColumn) ==
  LET r == [Indices |-> indices, activeIndex |-> -1]
  IN  IF activeColumn # -1 THEN SetIndexActive(r, activeColumn) ELSE r

\* Mutant of NextIndexToRenew: the number does not wrap around.
NextIndexToRenewNoWrap(r) ==
  IF Len(r.Indices) > 0 THEN r.Indices[Len(r.Indices)].Idx + 1 ELSE 0

NextIndexToRenew(r) ==
  IF Len(r.Indices) > 0 THEN Add(r.Indices[Len(r.Indices)].Idx, 1) ELSE 0

\* The position of the index that NextIndexToActivate returns, 0 for nil.
NextIndexToActivate(r) ==
  IF r.activeIndex < 0 THEN Len(r.Indices)
  ELSE IF r.activeIndex + 1 < Len(r.Indices) THEN r.activeIndex + 2 ELSE 0

\* An index loses a tick of life.
Older(x) == [Idx |-> x.Idx, State |-> x.State, MaxBW |-> x.MaxBW, AllocBW |-> x.AllocBW,
             Expiration |-> x.Expiration - 1]
Age(r) == IF r = NoRsv THEN NoRsv
          ELSE [Indices |-> [i \in 1 .. Len(r.Indices) |-> Older(r.Indices[i])],
                activeIndex |-> r.activeIndex]

HasExpired(r) == r # NoRsv /\ \E i \in 1 .. Len(r.Indices) : r.Indices[i].Expiration < 0

(***************************************************************************)
(* The reservation after the rows of its first k indices were deleted, as  *)
(* DeleteExpiredIndices does: no index is active when an active one goes,  *)
(* and a reservation left without indices goes too.                        *)
(***************************************************************************)
ExpireFirst(r, k) ==
  IF k = Len(r.Indices) THEN NoRsv
  ELSE [Indices |-> Drop(r.Indices, k),
        activeIndex |-> IF \E i \in 1 .. k : r.Indices[i].State = "Active"
                        THEN -1 ELSE r.activeIndex]

\* The expired indices are the first k: they are ordered by expiration.
ExpiredAreFirst(r, k) ==
  /\ k \in 1 .. Len(r.Indices)
  /\ \A i \in 1 .. Len(r.Indices) : r.Indices[i].Expiration < 0 <=> i <= k

=============================================================================
