---------------------------- MODULE SegmentStore ----------------------------
(***************************************************************************)
(* The COLIBRI stores of the ASes on the path of one segment reservation   *)
(* (go/co/reservationstore/store.go and manager.go), for up and core       *)
(* segments.  AS 0 initiates; a request is handled by AS 0, forwarded to   *)
(* AS 1 and so on, and its response comes back the same way.               *)
(*                                                                         *)
(* Setup and Confirm keep the transaction of every AS open until the       *)
(* response is back, and with it the only connection to that AS's DB;      *)
(* Activate, Cleanup and TearDown commit before they forward.  A caller    *)
(* may give up waiting; what it called goes on without it, as an orphan.   *)
(* The reservation ID of a deleted row is given out again (newSegSuffix),  *)
(* so a new setup may meet what an earlier one has left at other ASes.     *)
(***************************************************************************)
EXTENDS SegIndices, FiniteSets

CONSTANTS
  N,          \* number of ASes on the path
  NoCall,     \* AS 0 has no request under way
  MaxFaults   \* bound: time-outs, failed authentications and restarts

ASSUME SegmentStoreAssumption == N \in Nat /\ N >= 2 /\ MaxFaults \in Nat

AS == 0 .. N - 1
Last == N - 1

VARIABLES
  db,         \* db[a]: the reservation in the DB of AS a
  call,       \* the request of AS 0
  orphans,    \* requests whose caller no longer waits
  copy,       \* req.Reservation, the copy of the initiator between commit and persist
  faults,
  anomalies   \* history: what went wrong that the code does not repair

vars == <<db, call, orphans, copy, faults, anomalies>>

(***************************************************************************)
(* A request and the chain of handlers that serve it.  low is the first AS *)
(* of the chain; with dir = "req" it is about to be handled at AS at, with *)
(* dir = "res" its response res is about to be received there (at low - 1  *)
(* it has left the chain).  steps is the length of the path it was         *)
(* authenticated for.  Of a failure, failed is the length of the           *)
(* allocation trail (Setup) or the failing step (other requests).          *)
(***************************************************************************)
Op == {"Setup", "Confirm", "Activate", "Cleanup", "TearDown"}
Call == [op : Op, idx : IndexNumber, ttl : 0 .. Lifetime, new : BOOLEAN, steps : 1 .. N,
         low : AS, at : -1 .. N - 1, dir : {"req", "res"},
         res : {"none", "ok", "fail", "err"}, failed : 0 .. N]

Request(op, idx, new, steps) ==
  [op |-> op, idx |-> idx, ttl |-> Lifetime, new |-> new, steps |-> steps,
   low |-> 0, at |-> 0, dir |-> "req", res |-> "none", failed |-> 0]

Moved(c, low, at, dir, res, failed) ==
  [op |-> c.op, idx |-> c.idx, ttl |-> c.ttl, new |-> c.new, steps |-> c.steps,
   low |-> low, at |-> at, dir |-> dir, res |-> res, failed |-> failed]

Forwarded(c) == Moved(c, c.low, c.at + 1, "req", "none", 0)
Answered(c, res, failed) == Moved(c, c.low, c.at - 1, "res", res, failed)

calls == orphans \cup ({call} \ {NoCall})

\* The ASes whose DB connection the open transactions of a request hold.
Holding(c) ==
  IF c.op \notin {"Setup", "Confirm"} THEN {}
  ELSE c.low .. (IF c.dir = "req" THEN c.at - 1 ELSE c.at)
Locked(a) == \E c \in calls : a \in Holding(c)

\* The request c becomes d; an orphan that has left its chain is forgotten.
Becomes(c, d) ==
  IF c = call THEN call' = d /\ UNCHANGED orphans
  ELSE /\ orphans' = (orphans \ {c}) \cup {e \in {d} : e.at >= e.low}
       /\ UNCHANGED call

Write(a, r) == db' = [db EXCEPT ![a] = r]

Init ==
  /\ db = [a \in AS |-> NoRsv]
  /\ call = NoCall
  /\ orphans = {}
  /\ copy = NoRsv
  /\ faults = 0
  /\ anomalies = {}

-----------------------------------------------------------------------------
(* admitSegmentReservation *)

Current(a) == IF db[a] = NoRsv THEN NewReservation ELSE db[a]
Requested(c) == CHOOSE x \in {NewIndex(c.idx, c.ttl, bw, bw) : bw \in BWCls} : TRUE
Admitted(a, c) == addIndex(Current(a), Requested(c))

HandleSetup(c) ==
  LET a == c.at
  IN  /\ c.op = "Setup" /\ c.dir = "req" /\ ~Locked(a)
      /\ \/ \* the index is in use
            /\ FindIndex(Current(a).Indices, c.idx) # 0
            /\ Becomes(c, Answered(c, "fail", a))
            /\ UNCHANGED <<db, copy>>
         \/ \* not admitted, or the window of indices does not accept it
            /\ FindIndex(Current(a).Indices, c.idx) = 0
            /\ Becomes(c, Answered(c, "fail", a + 1))
            /\ UNCHANGED <<db, copy>>
         \/ \* admitted: the last AS commits, the others forward
            /\ FindIndex(Current(a).Indices, c.idx) = 0
            /\ addIndexOK(Current(a), Requested(c))
            /\ IF a = Last THEN Becomes(c, Answered(c, "ok", 0)) /\ Write(a, Admitted(a, c))
               ELSE Becomes(c, Forwarded(c)) /\ UNCHANGED db
            /\ UNCHANGED copy
      /\ UNCHANGED <<faults, anomalies>>

\* Mutant of ReceiveSetup: only the initiator saves the index on the way back.
ReceiveSetupUnsaved(c) ==
  /\ c.op = "Setup" /\ c.dir = "res" /\ c.at >= c.low
  /\ Becomes(c, Answered(c, IF c.res = "ok" THEN "ok" ELSE "fail", c.failed))
  /\ IF c.res = "ok" /\ c.at = 0 THEN Write(0, Admitted(0, c)) /\ copy' = Admitted(0, c)
     ELSE UNCHANGED <<db, copy>>
  /\ UNCHANGED <<faults, anomalies>>

ReceiveSetup(c) ==
  LET a == c.at
  IN  /\ c.op = "Setup" /\ c.dir = "res" /\ a >= c.low
      /\ IF c.res = "ok"
         THEN /\ Becomes(c, Answered(c, "ok", 0))
              /\ Write(a, Admitted(a, c))
              /\ copy' = IF a = 0 THEN Admitted(a, c) ELSE copy
         ELSE /\ Becomes(c, Answered(c, "fail", IF c.res = "err" THEN a + 1 ELSE c.failed))
              /\ UNCHANGED <<db, copy>>
      /\ UNCHANGED <<faults, anomalies>>

-----------------------------------------------------------------------------
(* ConfirmSegmentReservation *)

\* Mutant of HandleConfirm: the index is confirmed before the request is forwarded.
HandleConfirmEarly(c) ==
  /\ c.op = "Confirm" /\ c.dir = "req" /\ ~Locked(c.at)
  /\ IF db[c.at] = NoRsv \/ ~SetIndexConfirmedOK(Current(c.at), c.idx)
     THEN Becomes(c, Answered(c, "err", 0)) /\ UNCHANGED db
     ELSE /\ Becomes(c, IF c.at = Last THEN Answered(c, "ok", 0) ELSE Forwarded(c))
          /\ Write(c.at, SetIndexConfirmed(db[c.at], c.idx))
  /\ UNCHANGED <<copy, faults, anomalies>>

HandleConfirm(c) ==
  LET a == c.at
  IN  /\ c.op = "Confirm" /\ c.dir = "req" /\ ~Locked(a)
      /\ IF db[a] = NoRsv \/ ~SetIndexConfirmedOK(Current(a), c.idx)
         THEN Becomes(c, Answered(c, "err", 0)) /\ UNCHANGED db
         ELSE IF a = Last
         THEN Becomes(c, Answered(c, "ok", 0)) /\ Write(a, SetIndexConfirmed(db[a], c.idx))
         ELSE Becomes(c, Forwarded(c)) /\ UNCHANGED db
      /\ UNCHANGED <<copy, faults, anomalies>>

\* AS 0 only accepts a failure that carries the authenticators of all ASes.
Rejected(c) == c.res = "err" \/ (c.at = 0 /\ c.res = "fail" /\ c.failed # Last)

\* A failure that is not rejected is committed like a success.
ReceiveConfirm(c) ==
  LET a == c.at
  IN  /\ c.op = "Confirm" /\ c.dir = "res" /\ a >= c.low
      /\ IF Rejected(c)
         THEN Becomes(c, Answered(c, "err", 0)) /\ UNCHANGED db
         ELSE /\ Becomes(c, Answered(c, c.res, c.failed))
              /\ Write(a, SetIndexConfirmed(db[a], c.idx))
      /\ UNCHANGED <<copy, faults, anomalies>>

-----------------------------------------------------------------------------
(* ActivateSegmentReservation, CleanupSegmentReservation and               *)
(* TearDownSegmentReservation commit, then forward.                        *)

CommitAndForward(c, r) ==
  /\ Write(c.at, r)
  /\ Becomes(c, IF c.at = Last THEN Answered(c, "ok", 0) ELSE Forwarded(c))

\* AS 0 makes its transport path from the active index, which must not have expired.
pathFromSegmentRsvOK(a, r) == a = 0 => r.Indices[1].Expiration >= 0

\* Mutant of HandleActivate: the older indices are kept.
HandleActivateKeepsOlder(c) ==
  LET k == FindIndex(Current(c.at).Indices, c.idx)
  IN  /\ c.op = "Activate" /\ c.dir = "req" /\ ~Locked(c.at)
      /\ IF db[c.at] = NoRsv \/ ~SetIndexActiveOK(Current(c.at), c.idx)
         THEN Becomes(c, Answered(c, "err", 0)) /\ UNCHANGED db
         ELSE CommitAndForward(c, [Indices |-> SetState(db[c.at].Indices, k, "Active"),
                                   activeIndex |-> k - 1])
      /\ UNCHANGED <<copy, faults, anomalies>>

\* Mutant of HandleActivate: an AS before the last that has an active index keeps it.
HandleActivateOnce(c) ==
  /\ c.op = "Activate" /\ c.dir = "req" /\ ~Locked(c.at)
  /\ IF db[c.at] = NoRsv \/ ~SetIndexActiveOK(Current(c.at), c.idx)
     THEN Becomes(c, Answered(c, "err", 0)) /\ UNCHANGED db
     ELSE CommitAndForward(c, IF c.at # Last /\ db[c.at].activeIndex # -1 THEN db[c.at]
                              ELSE SetIndexActive(db[c.at], c.idx))
  /\ UNCHANGED <<copy, faults, anomalies>>

HandleActivate(c) ==
  LET a == c.at
  IN  /\ c.op = "Activate" /\ c.dir = "req" /\ ~Locked(a)
      /\ IF db[a] = NoRsv \/ ~SetIndexActiveOK(Current(a), c.idx)
         THEN Becomes(c, Answered(c, "err", 0)) /\ UNCHANGED db
         ELSE IF ~pathFromSegmentRsvOK(a, SetIndexActive(db[a], c.idx))
         THEN Becomes(c, Answered(c, "fail", a)) /\ UNCHANGED db
         ELSE CommitAndForward(c, SetIndexActive(db[a], c.idx))
      /\ UNCHANGED <<copy, faults, anomalies>>

\* An index that is not found is logged and the request goes on.
HandleCleanup(c) ==
  LET a == c.at
  IN  /\ c.op = "Cleanup" /\ c.dir = "req" /\ ~Locked(a)
      /\ IF db[a] = NoRsv THEN Becomes(c, Answered(c, "err", 0)) /\ UNCHANGED db
         ELSE IF c.steps # N THEN Becomes(c, Answered(c, "fail", a)) /\ UNCHANGED db
         ELSE CommitAndForward(c, IF RemoveIndexOK(db[a], c.idx) THEN RemoveIndex(db[a], c.idx)
                                  ELSE db[a])
      /\ UNCHANGED <<copy, faults, anomalies>>

HandleTearDown(c) ==
  LET a == c.at
  IN  /\ c.op = "TearDown" /\ c.dir = "req" /\ ~Locked(a)
      /\ IF db[a] = NoRsv THEN Becomes(c, Answered(c, "err", 0)) /\ UNCHANGED db
         ELSE IF c.steps # N THEN Becomes(c, Answered(c, "fail", a)) /\ UNCHANGED db
         ELSE CommitAndForward(c, NoRsv)
      /\ UNCHANGED <<copy, faults, anomalies>>

ReceiveCommitted(c) ==
  /\ c.op \in {"Activate", "Cleanup", "TearDown"} /\ c.dir = "res" /\ c.at >= c.low
  /\ Becomes(c, IF Rejected(c) THEN Answered(c, "err", 0) ELSE Answered(c, c.res, c.failed))
  /\ UNCHANGED <<db, copy, faults, anomalies>>

-----------------------------------------------------------------------------
(* The initiator: InitSegmentReservation with its rollback, then           *)
(* manager.SetupRequest confirms; the keeper activates.                    *)

\* No reservation with this ID: the row is created before anything is sent.
NewSetup ==
  /\ call = NoCall /\ db[0] = NoRsv
  /\ Write(0, NewReservation)
  /\ call' = Request("Setup", 0, TRUE, N)
  /\ UNCHANGED <<orphans, copy, faults, anomalies>>

\* A renewal, for the next index or, by a keeper that does not know of it, the last.
RenewalIndices(r) ==
  {NextIndexToRenew(r)} \cup {r.Indices[i].Idx : i \in {Len(r.Indices)} \ {0}}
\* No request lasts until its index number is used again after a wrap around.
Wraps(r, idx) == Len(r.Indices) > 0 /\ idx = 0 /\ NextIndexToRenew(r) = 0
Renew ==
  /\ call = NoCall /\ db[0] # NoRsv
  /\ \E idx \in RenewalIndices(db[0]) :
       /\ Wraps(db[0], idx) => orphans = {}
       /\ call' = Request("Setup", idx, FALSE, N)
  /\ UNCHANGED <<db, orphans, copy, faults, anomalies>>

Activate ==
  /\ call = NoCall /\ db[0] # NoRsv
  /\ NextIndexToActivate(db[0]) # 0
  /\ call' = Request("Activate", db[0].Indices[NextIndexToActivate(db[0])].Idx, FALSE, N)
  /\ UNCHANGED <<db, orphans, copy, faults, anomalies>>

Result(op) == call # NoCall /\ call.op = op /\ call.at = -1

\* After a success the copy is persisted, outside of any transaction, and confirmed.
PersistAndConfirm ==
  /\ Result("Setup") /\ call.res = "ok" /\ ~Locked(0)
  /\ Write(0, copy)
  /\ call' = Request("Confirm", call.idx, call.new, N)
  /\ copy' = NoRsv
  /\ UNCHANGED <<orphans, faults, anomalies>>

\* The length of the path that a rollback is sent along.
rollbackSteps(c) == IF c.res = "fail" /\ c.failed + 1 < N THEN c.failed + 1 ELSE N

\* rollbackChanges: with fewer than two steps it returns at once.
RollbackChanges ==
  /\ Result("Setup") /\ call.res # "ok"
  /\ call' = IF rollbackSteps(call) < 2 THEN NoCall
             ELSE Request(IF call.new THEN "TearDown" ELSE "Cleanup", call.idx, call.new,
                          rollbackSteps(call))
  /\ UNCHANGED <<db, orphans, copy, faults, anomalies>>

\* ... and at its end the row of a new reservation is deleted.
RollbackEnds ==
  /\ \/ Result("Cleanup") /\ UNCHANGED db
     \/ Result("TearDown") /\ ~Locked(0) /\ Write(0, NoRsv)
  /\ call' = NoCall
  /\ UNCHANGED <<orphans, copy, faults, anomalies>>

\* Mutant of RequestEnds: a failed confirmation is repeated until it succeeds.
RequestEndsRetry ==
  /\ Result("Confirm") \/ Result("Activate")
  /\ call' = IF call.op = "Confirm" /\ call.res # "ok"
             THEN Request("Confirm", call.idx, call.new, N) ELSE NoCall
  /\ UNCHANGED <<db, orphans, copy, faults, anomalies>>

\* A failed confirmation or activation is only reported.
RequestEnds ==
  /\ Result("Confirm") \/ Result("Activate")
  /\ call' = NoCall
  /\ UNCHANGED <<db, orphans, copy, faults, anomalies>>

-----------------------------------------------------------------------------
(* Faults *)

Fault == faults < MaxFaults /\ faults' = faults + 1

\* What is left of c from AS k on when the AS before it stops waiting.
Rest(c, k) == {Moved(c, k, d.at, c.dir, c.res, c.failed) : d \in {e \in {c} : e.at >= k}}
Late(c, k) == IF Rest(c, k) # {} /\ c.op \in {"Cleanup", "TearDown"} THEN {"late removal"} ELSE {}

\* The AS before k stops waiting for it: a lost request or response, or a time-out.
TimeOut(c, k) ==
  /\ k \in c.low + 1 .. (IF c.dir = "req" THEN c.at ELSE c.at + 1)
  /\ LET caller == Moved(c, c.low, k - 1, "res", "err", 0)
     IN  IF c = call
         THEN /\ Fault
              /\ call' = caller
              /\ orphans' = orphans \cup Rest(c, k)
         ELSE /\ orphans' = (orphans \ {c}) \cup {caller} \cup Rest(c, k)
              /\ UNCHANGED <<call, faults>>
  /\ anomalies' = anomalies \cup Late(c, k)
  /\ UNCHANGED <<db, copy>>

\* An orphan that nobody has handled yet may never arrive.
Lose(c) ==
  /\ c \in orphans /\ c.dir = "req" /\ c.at = c.low
  /\ orphans' = orphans \ {c}
  /\ UNCHANGED <<db, call, copy, faults, anomalies>>

\* No transaction can be opened, or (Setup) the request is not authenticated.
HandlerFails(c) ==
  /\ Fault
  /\ c.dir = "req"
  /\ Becomes(c, Answered(c, "err", 0))
  /\ UNCHANGED <<db, copy, anomalies>>

\* The keys to authenticate the request cannot be fetched: answered by a failure.
AuthenticationFails(c) ==
  /\ Fault
  /\ c.op # "Setup" /\ c.dir = "req" /\ c.at > 0 /\ ~Locked(c.at) /\ db[c.at] # NoRsv
  /\ Becomes(c, Answered(c, "fail", c.at))
  /\ anomalies' = anomalies \cup IF c.op = "Confirm" THEN {"partial confirm"} ELSE {}
  /\ UNCHANGED <<db, copy>>

\* The service of AS 0 restarts: its open transaction is rolled back.
Restart ==
  /\ Fault
  /\ call # NoCall
  /\ call' = NoCall
  /\ orphans' = orphans \cup Rest(call, 1)
  /\ copy' = NoRsv
  /\ anomalies' = anomalies \cup Late(call, 1)
  /\ UNCHANGED db

-----------------------------------------------------------------------------
(* Time *)

DeleteExpiredIndices(a) ==
  /\ HasExpired(db[a]) /\ ~Locked(a)
  /\ \E k \in 1 .. Len(db[a].Indices) :
       ExpiredAreFirst(db[a], k) /\ Write(a, ExpireFirst(db[a], k))
  /\ UNCHANGED <<call, orphans, copy, faults, anomalies>>

OlderCall(c) ==
  [op |-> c.op, idx |-> c.idx, ttl |-> c.ttl - 1, new |-> c.new,
   steps |-> c.steps, low |-> c.low, at |-> c.at, dir |-> c.dir, res |-> c.res,
   failed |-> c.failed]

\* The expirers run many times in a tick, and a request sees at most one tick.
Tick ==
  /\ \A c \in calls : c.ttl = Lifetime
  /\ \A a \in AS : ~HasExpired(db[a])
  /\ ~HasExpired(copy)
  /\ \E a \in AS : db[a] # NoRsv
  /\ db' = [a \in AS |-> Age(db[a])]
  /\ copy' = Age(copy)
  /\ call' = IF call = NoCall THEN NoCall ELSE OlderCall(call)
  /\ orphans' = {OlderCall(c) : c \in orphans}
  /\ UNCHANGED <<faults, anomalies>>

-----------------------------------------------------------------------------
Handlers ==
  \E c \in calls :
    \/ HandleSetup(c) \/ ReceiveSetup(c)
    \/ HandleConfirm(c) \/ ReceiveConfirm(c)
    \/ HandleActivate(c) \/ HandleCleanup(c) \/ HandleTearDown(c) \/ ReceiveCommitted(c)

Continue == PersistAndConfirm \/ RollbackChanges \/ RollbackEnds \/ RequestEnds

Next ==
  \/ Handlers
  \/ Continue
  \/ NewSetup \/ Renew \/ Activate
  \/ \E c \in calls :
       \/ \E k \in AS \cup {N} : TimeOut(c, k)
       \/ Lose(c) \/ HandlerFails(c) \/ AuthenticationFails(c)
  \/ Restart
  \/ \E a \in AS : DeleteExpiredIndices(a)
  \/ Tick

Spec == Init /\ [][Next]_vars

\* The handlers and the initiator's goroutine get to run.
FairSpec == Spec /\ WF_vars(Handlers) /\ WF_vars(Continue)

-----------------------------------------------------------------------------
(* Properties *)

\* Every DB holds a reservation, and the requests under way are well formed.
TypeOK ==
  /\ db \in [AS -> Reservation \cup {NoRsv}]
  /\ call \in Call \cup {NoCall}
  /\ orphans \subseteq Call
  /\ copy \in Reservation \cup {NoRsv}
  /\ faults \in 0 .. MaxFaults
  /\ anomalies \subseteq {"late removal", "partial confirm"}

StateAt(a, idx) ==
  LET k == FindIndex(Current(a).Indices, idx)
  IN  IF k = 0 THEN "None" ELSE Current(a).Indices[k].State

(***************************************************************************)
(* All or nothing: when the initiator is told that its request succeeded,  *)
(* every AS of the path has done it, unless a removal outlived its caller. *)
(* (Older indices may have expired meanwhile.)                             *)
(***************************************************************************)
SuccessIsEverywhere ==
  call # NoCall /\ call.at = -1 /\ call.res = "ok"
    /\ "late removal" \notin anomalies =>
      \A a \in AS :
        CASE call.op = "Setup" -> StateAt(a, call.idx) # "None"
          [] call.op = "Confirm" -> StateAt(a, call.idx) # "Temporary"
          [] call.op = "Activate" -> StateAt(a, call.idx) \in {"Active", "None"}
          [] OTHER -> TRUE  \* a late Setup may come after the removal

(***************************************************************************)
(* Confirmation comes back from the last AS: what an AS has confirmed, the *)
(* ASes after it have, unless a confirmation failed to authenticate.       *)
(***************************************************************************)
ConfirmedDownstream ==
  anomalies = {} =>
    \A a, b \in AS, idx \in IndexNumber :
      a < b /\ StateAt(a, idx) \in {"Pending", "Active"} => StateAt(b, idx) # "Temporary"

\* Activation goes out from AS 0: an AS never uses a newer index than one before it.
ActiveExpiration(a) == db[a].Indices[db[a].activeIndex + 1].Expiration
HasActive(a) == db[a] # NoRsv /\ db[a].activeIndex # -1
ActivationOrder ==
  \A a, b \in AS : a < b /\ HasActive(a) /\ HasActive(b) =>
                     ActiveExpiration(a) >= ActiveExpiration(b)

(***************************************************************************)
(* At every AS but the initiator the requests that pass, whatever is lost  *)
(* or late, add up to the operations on a single reservation.              *)
(***************************************************************************)
Transit(a) == INSTANCE SegReservation WITH rsv <- db[a]
TransitImplements ==
  /\ \A a \in AS \ {0} : Transit(a)!Init
  /\ [][\A a \in AS \ {0} : [Transit(a)!Next]_(db[a])]_vars

\* No request waits for ever for a DB that another one holds.
EveryRequestEnds == []<>(call = NoCall)

(***************************************************************************)
(* "CleanupSegmentReservation deletes an index from a segment reservation" *)
(* (its comment): the other indices, and the active one, stay.             *)
(***************************************************************************)
CleanupDeletesAnIndex ==
  [][\A c \in calls : HandleCleanup(c) =>
       \A idx \in IndexNumber \ {c.idx} :
         StateAt(c.at, idx) # "None" => StateAt(c.at, idx)' # "None"]_vars

=============================================================================
