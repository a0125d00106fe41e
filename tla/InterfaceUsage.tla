--------------------------- MODULE InterfaceUsage ---------------------------
(***************************************************************************)
(* The segment reservations in an AS's DB and the tables                   *)
(* state_ingress_interface and state_egress_interface that keep, for each  *)
(* interface, the bandwidth blocked on it (go/co/reservation/sqlite/db.go).*)
(* The tables are updated by differences; the reservations themselves can  *)
(* have any indices the operations on a reservation give them.             *)
(***************************************************************************)
EXTENDS SegIndices, BWClass, FiniteSetsExt

CONSTANTS
  ID,         \* reservation IDs
  In, Eg,     \* their ingress and egress interfaces
  MaxTicks    \* bound: the clock ticks so often

ASSUME InterfaceUsageAssumption == BWCls \subseteq BWClass

VARIABLES
  rsvs,         \* the reservations in the DB
  usedIngress,  \* state_ingress_interface.blocked_bw, in kbps
  usedEgress,   \* state_egress_interface.blocked_bw, in kbps
  ticks

vars == <<rsvs, usedIngress, usedEgress, ticks>>

Ingresses == {In[id] : id \in ID}
Egresses == {Eg[id] : id \in ID}
Stored == {id \in ID : rsvs[id] # NoRsv}

MaxBlockedBW(r) ==
  ToKbps(Max({0} \cup {r.Indices[i].AllocBW : i \in 1 .. Len(r.Indices)}))

\* What the reservation of an ID blocks, 0 when there is none.
Blocked(id) == IF rsvs[id] = NoRsv THEN 0 ELSE MaxBlockedBW(rsvs[id])

Init ==
  /\ rsvs = [id \in ID |-> NoRsv]
  /\ usedIngress = [i \in Ingresses |-> 0]
  /\ usedEgress = [e \in Egresses |-> 0]
  /\ ticks = 0

-----------------------------------------------------------------------------
(* Each operation of the DB is one transaction. *)

\* interfacesStateUsedBWUpdate on the interfaces of one reservation.
usedBWUpdate(id, delta) ==
  /\ usedIngress' = [usedIngress EXCEPT ![In[id]] = @ + delta]
  /\ usedEgress' = [usedEgress EXCEPT ![Eg[id]] = @ + delta]

\* Mutant of PersistSegmentRsv: what the stored version blocked is not given back.
PersistSegmentRsvTwice(id, r) ==
  /\ rsvs' = [rsvs EXCEPT ![id] = r]
  /\ usedBWUpdate(id, MaxBlockedBW(r))
  /\ UNCHANGED ticks

\* upsertNewSegReservation: first deleteStateForRsv, then the new rows and their bandwidth.
PersistSegmentRsv(id, r) ==
  /\ rsvs' = [rsvs EXCEPT ![id] = r]
  /\ usedBWUpdate(id, MaxBlockedBW(r) - Blocked(id))
  /\ UNCHANGED ticks

NewSegmentRsv(id) ==
  /\ id \notin Stored
  /\ PersistSegmentRsv(id, NewReservation)

AddIndex(id, idx, ttl, bw) ==
  LET r == IF id \in Stored THEN rsvs[id] ELSE NewReservation
      x == NewIndex(idx, ttl, bw, bw)
  IN  /\ FindIndex(r.Indices, idx) = 0
      /\ addIndexOK(r, x)
      /\ PersistSegmentRsv(id, addIndex(r, x))

Confirm(id, idx) ==
  /\ id \in Stored
  /\ SetIndexConfirmedOK(rsvs[id], idx)
  /\ PersistSegmentRsv(id, SetIndexConfirmed(rsvs[id], idx))

Activate(id, idx) ==
  /\ id \in Stored
  /\ SetIndexActiveOK(rsvs[id], idx)
  /\ PersistSegmentRsv(id, SetIndexActive(rsvs[id], idx))

Remove(id, idx) ==
  /\ id \in Stored
  /\ RemoveIndexOK(rsvs[id], idx)
  /\ PersistSegmentRsv(id, RemoveIndex(rsvs[id], idx))

DeleteSegmentRsv(id) ==
  /\ id \in Stored
  /\ rsvs' = [rsvs EXCEPT ![id] = NoRsv]
  /\ usedBWUpdate(id, -Blocked(id))
  /\ UNCHANGED ticks

Expired(r) == CHOOSE k \in 1 .. Len(r.Indices) : ExpiredAreFirst(r, k)
AfterExpiry(id) == IF HasExpired(rsvs[id]) THEN ExpireFirst(rsvs[id], Expired(rsvs[id]))
                   ELSE rsvs[id]

\* Mutant of bwDiff: all that the reservation blocked is taken off.
bwDiffAll(id) == -Blocked(id)

\* diff, previous minus current, which DeleteExpiredIndices ADDS to the tables.
bwDiff(id) ==
  Blocked(id) - IF AfterExpiry(id) = NoRsv THEN 0 ELSE MaxBlockedBW(AfterExpiry(id))

\* Empty reservations are deleted after the update, without their (zero) bandwidth.
DeleteExpiredIndices ==
  LET affected == {id \in ID : HasExpired(rsvs[id])}
      diff(ids) == MapThenSumSet(bwDiff, affected \cap ids)
  IN  /\ affected # {}
      /\ rsvs' = [id \in ID |-> AfterExpiry(id)]
      /\ usedIngress' = [i \in Ingresses |-> usedIngress[i] + diff({id \in ID : In[id] = i})]
      /\ usedEgress' = [e \in Egresses |-> usedEgress[e] + diff({id \in ID : Eg[id] = e})]
      /\ UNCHANGED ticks

Tick ==
  /\ ticks < MaxTicks
  /\ Stored # {}
  /\ \A id \in ID : ~HasExpired(rsvs[id])
  /\ rsvs' = [id \in ID |-> Age(rsvs[id])]
  /\ ticks' = ticks + 1
  /\ UNCHANGED <<usedIngress, usedEgress>>

Next ==
  \/ \E id \in ID :
       \/ NewSegmentRsv(id)
       \/ DeleteSegmentRsv(id)
       \/ \E idx \in IndexNumber :
            \/ \E ttl \in 0 .. Lifetime, bw \in BWCls : AddIndex(id, idx, ttl, bw)
            \/ Confirm(id, idx)
            \/ Activate(id, idx)
            \/ Remove(id, idx)
  \/ DeleteExpiredIndices
  \/ Tick

Spec == Init /\ [][Next]_vars

-----------------------------------------------------------------------------
(* Properties *)

\* The tables hold numbers for the interfaces, the DB holds reservations.
TypeOK ==
  /\ rsvs \in [ID -> Reservation \cup {NoRsv}]
  /\ usedIngress \in [Ingresses -> Int]
  /\ usedEgress \in [Egresses -> Int]
  /\ ticks \in 0 .. MaxTicks

SumBlocked(ids) == MapThenSumSet(Blocked, ids)

(***************************************************************************)
(* The tables hold what the reservations block.  backend/db.go says of     *)
(* GetInterfaceUsageIngress that it "returns the bandwidth already blocked *)
(* in ingress interface `ifid`".                                           *)
(***************************************************************************)
UsageIsBlocked ==
  /\ \A i \in Ingresses : usedIngress[i] = SumBlocked({id \in ID : In[id] = i})
  /\ \A e \in Egresses : usedEgress[e] = SumBlocked({id \in ID : Eg[id] = e})

\* Until the clock first ticks nothing expires and the tables are exact, whatever
\* sequence of writes and deletions keeps them by differences.
ExactUntilExpiry == ticks = 0 => UsageIsBlocked

\* The tables never miss blocked bandwidth, which admission would give away twice.
UsageCoversBlocked ==
  /\ \A i \in Ingresses : usedIngress[i] >= SumBlocked({id \in ID : In[id] = i})
  /\ \A e \in Egresses : usedEgress[e] >= SumBlocked({id \in ID : Eg[id] = e})

=============================================================================
