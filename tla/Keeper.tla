------------------------------- MODULE Keeper -------------------------------
(***************************************************************************)
(* The COLIBRI keeper (go/co/reservationstore/keeper.go, manager.go) with  *)
(* one configured segment reservation, as the initiating AS sees it.  The  *)
(* keeper works on a copy of the reservation, e.rsv; the row in the DB of  *)
(* this AS changes below it, through its requests (of which it only learns *)
(* success or failure) and through the expirer.  SegmentStore models what  *)
(* the requests do along the path.                                         *)
(*                                                                         *)
(* A tick of the clock is sleepAtMost, 5 minutes: minDuration is 2 ticks   *)
(* and newIndexMinDuration, the life of a new index, is 4.                 *)
(***************************************************************************)
EXTENDS SegIndices

CONSTANTS
  MinDuration,  \* minDuration
  MaxFaults     \* bound: failed requests and restarts

ASSUME KeeperAssumption ==
  /\ MinDuration \in Nat /\ MinDuration < Lifetime
  /\ MaxFaults \in Nat
  /\ BWCls \subseteq Nat

VARIABLES
  db,        \* the row of the reservation in the DB
  rsv,       \* e.rsv, NoRsv when it is nil
  maxBW,     \* e.conf.maxBW
  pc,        \* where keepReservation is
  req,       \* the request to confirm: its index, req.Reservation, whether it is new
  faults,
  diverged   \* history: a request that was committed here was reported as failed

vars == <<db, rsv, maxBW, pc, req, faults, diverged>>

NoReq == [Index |-> 0, Reservation |-> NoRsv, new |-> FALSE]

Init ==
  /\ db = NoRsv
  /\ rsv = NoRsv
  /\ maxBW \in BWCls
  /\ pc = "ready"
  /\ req = NoReq
  /\ faults = 0
  /\ diverged = FALSE

Fault == faults < MaxFaults /\ faults' = faults + 1

-----------------------------------------------------------------------------
(* compliance *)

Confirmed(x) == x.State \in {"Pending", "Active"}

\* Mutant of CompliantIndices: an index is good until it expires.
CompliantIndicesUnexpired(r) ==
  {i \in 1 .. Len(r.Indices) : /\ r.Indices[i].MaxBW <= maxBW
                               /\ Confirmed(r.Indices[i])
                               /\ r.Indices[i].Expiration >= 0}

\* The positions that the filters of compliance leave.
CompliantIndices(r) ==
  {i \in 1 .. Len(r.Indices) : /\ r.Indices[i].MaxBW <= maxBW
                               /\ Confirmed(r.Indices[i])
                               /\ r.Indices[i].Expiration > MinDuration}

\* Mutant of NotSwitchableFrom: an index is not switchable from itself.
NotSwitchableFromStrict(r, i) ==
  r.activeIndex # -1 /\ r.Indices[i].Expiration > r.Indices[r.activeIndex + 1].Expiration

NotSwitchableFrom(r, i) ==
  r.activeIndex # -1 /\ r.Indices[i].Expiration >= r.Indices[r.activeIndex + 1].Expiration

compliance(r) ==
  IF CompliantIndices(r) = {} THEN "NeedsIndices"
  ELSE IF \A i \in CompliantIndices(r) : ~NotSwitchableFrom(r, i) THEN "NeedsActivation"
  ELSE "Compliant"

-----------------------------------------------------------------------------
(* keepReservation *)

\* A request that fails is reported, and OneShot is called again soon.
Failed == pc' = "failed" /\ req' = NoReq

NewIndexOf(idx) == NewIndex(idx, Lifetime, maxBW, maxBW)

\* The index is stored as temporary and is to be confirmed.
SetUp(r, idx, new) ==
  /\ db' = addIndex(r, NewIndexOf(idx))
  /\ req' = [Index |-> idx, Reservation |-> addIndex(r, NewIndexOf(idx)), new |-> new]
  /\ pc' = "confirm"

\* askNewReservation, up to the confirmation.  req.Reservation is returned with the error.
askNewReservation ==
  /\ pc = "ready" /\ rsv = NoRsv
  /\ \/ SetUp(NewReservation, 0, TRUE) /\ UNCHANGED <<rsv, faults, diverged>>
     \/ \* there is no path, or the request fails before the reservation is attached to it
        Fault /\ Failed /\ UNCHANGED <<db, rsv, diverged>>
     \/ \* it fails at this AS, before the admission: the rollback leaves the row
        Fault /\ Failed /\ db' = NewReservation /\ rsv' = NewReservation /\ UNCHANGED diverged
     \/ \* it is not admitted, here or downstream: the rollback deletes the row
        /\ Fault /\ Failed
        /\ db' = NoRsv
        /\ rsv' \in {NewReservation, addIndex(NewReservation, NewIndexOf(0))}
        /\ UNCHANGED diverged
     \/ \* the response cannot be validated: there is no rollback
        /\ Fault /\ Failed
        /\ db' = addIndex(NewReservation, NewIndexOf(0))
        /\ rsv' = addIndex(NewReservation, NewIndexOf(0))
        /\ diverged' = TRUE
  /\ UNCHANGED maxBW

\* Keeping a reservation that exists, also one that was just set up.
Keeps(c) == pc \in {"ready", "keep"} /\ rsv # NoRsv /\ compliance(rsv) = c

CanRenew(idx) == db # NoRsv /\ FindIndex(db.Indices, idx) = 0 /\ addIndexOK(db, NewIndexOf(idx))

\* askNewIndices, up to the confirmation.
askNewIndices ==
  LET idx == NextIndexToRenew(rsv)
  IN  /\ Keeps("NeedsIndices")
      /\ \/ CanRenew(idx) /\ SetUp(db, idx, FALSE) /\ UNCHANGED <<faults, diverged>>
         \/ ~CanRenew(idx) /\ Failed /\ UNCHANGED <<db, faults, diverged>>
         \/ Fault /\ CanRenew(idx) /\ Failed /\ UNCHANGED <<db, diverged>>
         \/ \* the response cannot be validated
            /\ Fault /\ CanRenew(idx) /\ Failed
            /\ db' = addIndex(db, NewIndexOf(idx))
            /\ diverged' = TRUE
      /\ UNCHANGED <<rsv, maxBW>>

\* Mutant of Remember: the index is taken for confirmed also when that failed.
RememberConfirmed(r, ok) ==
  LET c == SetIndexConfirmed(r, req.Index)
  IN  IF req.new THEN rsv' = c
      ELSE rsv' = [Indices |-> c.Indices, activeIndex |-> rsv.activeIndex]

\* What the keeper remembers of a request that ended with this copy of the reservation.
Remember(r, ok) ==
  IF req.new THEN rsv' = r
  ELSE IF ok THEN rsv' = [Indices |-> r.Indices, activeIndex |-> rsv.activeIndex]
  ELSE UNCHANGED rsv

\* The confirmation of SetupRequest, and the end of the request.
SetupRequest ==
  /\ pc = "confirm"
  /\ \/ /\ db' = SetIndexConfirmed(db, req.Index)
        /\ Remember(SetIndexConfirmed(req.Reservation, req.Index), TRUE)
        /\ pc' = IF req.new THEN "keep" ELSE "asleep"
        /\ req' = NoReq
        /\ UNCHANGED <<faults, diverged>>
     \/ \* it fails; the last AS's failure is committed like a success
        /\ Fault /\ Failed
        /\ db' \in {db, SetIndexConfirmed(db, req.Index)}
        /\ Remember(req.Reservation, FALSE)
        /\ diverged' = TRUE
  /\ UNCHANGED maxBW

activateIndex ==
  LET k == NextIndexToActivate(rsv)
      idx == rsv.Indices[k].Idx
  IN  /\ Keeps("NeedsActivation")
      /\ k # 0
      /\ \/ /\ db # NoRsv /\ SetIndexActiveOK(db, idx)
            /\ db' = SetIndexActive(db, idx)
            /\ IF SetIndexActiveOK(rsv, idx)
               THEN rsv' = SetIndexActive(rsv, idx) /\ pc' = "asleep" /\ req' = NoReq
               ELSE Failed /\ UNCHANGED rsv
            /\ UNCHANGED <<faults, diverged>>
         \/ /\ db = NoRsv \/ ~SetIndexActiveOK(db, idx)
            /\ Failed
            /\ UNCHANGED <<db, rsv, faults, diverged>>
         \/ \* it fails downstream, after this AS has committed
            /\ db # NoRsv /\ SetIndexActiveOK(db, idx)
            /\ Fault /\ Failed
            /\ db' = SetIndexActive(db, idx)
            /\ diverged' = TRUE
            /\ UNCHANGED rsv
      /\ UNCHANGED maxBW

NothingToDo ==
  /\ Keeps("Compliant")
  /\ pc' = "asleep"
  /\ UNCHANGED <<db, rsv, maxBW, req, faults, diverged>>

\* After an error OneShot is called again in sleepAtLeast.
Retry ==
  /\ pc = "failed"
  /\ pc' = "ready"
  /\ UNCHANGED <<db, rsv, maxBW, req, faults, diverged>>

\* NewKeeper: the configuration may have changed, the reservation is read from the DB.
NewKeeper ==
  /\ Fault
  /\ ~HasExpired(db)
  /\ rsv' = db
  /\ maxBW' \in BWCls
  /\ pc' = "ready"
  /\ req' = NoReq
  /\ UNCHANGED <<db, diverged>>

-----------------------------------------------------------------------------
(* Time *)

DeleteExpiredIndices ==
  /\ HasExpired(db)
  /\ \E k \in 1 .. Len(db.Indices) : ExpiredAreFirst(db, k) /\ db' = ExpireFirst(db, k)
  /\ UNCHANGED <<rsv, maxBW, pc, req, faults, diverged>>

\* The copy of the keeper also keeps what has expired.
OlderCopy(x) == IF x.Expiration < 0 THEN x ELSE Older(x)
AgeCopy(r) ==
  IF r = NoRsv THEN NoRsv
  ELSE [Indices |-> [i \in 1 .. Len(r.Indices) |-> OlderCopy(r.Indices[i])],
        activeIndex |-> r.activeIndex]

\* Once per tick, at least, the keeper runs; the expirer runs many times.
Tick ==
  /\ pc \in {"asleep", "failed"}
  /\ ~HasExpired(db)
  /\ db' = Age(db)
  /\ rsv' = AgeCopy(rsv)
  /\ pc' = "ready"
  /\ UNCHANGED <<maxBW, req, faults, diverged>>

-----------------------------------------------------------------------------
keepReservation ==
  \/ askNewReservation \/ askNewIndices \/ SetupRequest \/ activateIndex \/ NothingToDo

Next == keepReservation \/ Retry \/ NewKeeper \/ DeleteExpiredIndices \/ Tick

Spec == Init /\ [][Next]_vars

\* The goroutines of the manager get to run, and time goes by.
FairSpec == /\ Spec
            /\ WF_vars(keepReservation) /\ WF_vars(Retry) /\ WF_vars(DeleteExpiredIndices)
            /\ SF_vars(Tick)

-----------------------------------------------------------------------------
(* Properties *)

\* The row, the copy and the request are reservations.
TypeOK ==
  /\ db \in Reservation \cup {NoRsv}
  /\ rsv \in Reservation \cup {NoRsv}
  /\ maxBW \in BWCls
  /\ pc \in {"ready", "confirm", "keep", "asleep", "failed"}
  /\ req \in [Index : IndexNumber, Reservation : Reservation \cup {NoRsv}, new : BOOLEAN]
  /\ faults \in 0 .. MaxFaults
  /\ diverged \in BOOLEAN

(***************************************************************************)
(* The keeper decides on its copy, which misses expiries, failed requests  *)
(* and what they left in the DB.  Still, when it finds that nothing is to  *)
(* be done the DB has a confirmed index that outlives minDuration.         *)
(***************************************************************************)
CompliantIsBacked ==
  rsv # NoRsv /\ compliance(rsv) = "Compliant" =>
    db # NoRsv /\ CompliantIndices(db) # {}

(***************************************************************************)
(* activateIndex reads the number of the index to activate without asking  *)
(* whether there is one: there always is, and it is not expired.           *)
(***************************************************************************)
ActivationHasTarget ==
  rsv # NoRsv /\ compliance(rsv) = "NeedsActivation" =>
    /\ NextIndexToActivate(rsv) # 0
    /\ rsv.Indices[NextIndexToActivate(rsv)].Expiration >= 0

(***************************************************************************)
(* minDuration is chosen "to ensure no index would expire while the keeper *)
(* is sleeping": once there is a confirmed index there always is one, as   *)
(* long as fewer than MinDuration renewals fail, cleanly.                  *)
(***************************************************************************)
Covered == db # NoRsv /\ \E i \in 1 .. Len(db.Indices) :
                           Confirmed(db.Indices[i]) /\ db.Indices[i].Expiration >= 0
StaysCovered == [][Covered /\ ~diverged' /\ faults' < MinDuration => Covered']_vars

(***************************************************************************)
(* "OneShot keeps all reservations healthy": an index is active, again and *)
(* again, as long as no request fails.                                     *)
(***************************************************************************)
StaysActive == []<>(db # NoRsv /\ db.activeIndex # -1)

=============================================================================
