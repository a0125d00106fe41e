------------------------------ MODULE E2EStore ------------------------------
(***************************************************************************)
(* End-to-end reservations over stitched segment reservations: the COLIBRI *)
(* stores of the ASes on the path (AdmitE2EReservation and                 *)
(* CleanupE2EReservation of go/co/reservationstore/store.go), the hosts    *)
(* that set up, renew and close them (go/lib/colibri/client), and expiry.  *)
(*                                                                         *)
(* A request goes from service to service and its answer comes back.  Each *)
(* service keeps its transaction, and with it the only connection to its   *)
(* DB, open until the answer is there.  Every caller stops waiting at the  *)
(* deadline of the request at the latest; what it called may go on.        *)
(* Expirations are ticks left; an index has expired when it is below 0.    *)
(***************************************************************************)
EXTENDS BWClass, Sequences, SequencesExt, FiniteSetsExt

CONSTANTS
  Rsvs,          \* the end-to-end reservations
  Path,          \* Path[r]: the ASes of r, in order
  Segments,      \* Segments[r]: the segment reservations r is stitched from
  Segs,          \* all segment reservations
  SegPath,       \* SegPath[s]: the ASes of s, in order
  PathType,      \* PathType[s]: "up", "core" or "down"
  SegBW,         \* SegBW[s]: the class of the active index of s, 0 for none
  Requests,      \* Requests[r]: the classes a host may ask for
  Split,         \* the part of a segment reservation that is for data, <<n, d>>
  Modulus, MaxPerExp,
  Lifetime,      \* ticks in an end-to-end reservation (4 in the code)
  Deadline,      \* bound: ticks a request lasts at most
  WordSize,      \* bandwidths are unsigned words: 2^64 in the code
  MaxRequests,   \* bound: requests that hosts send
  MaxFaults      \* bound: lost or late messages, and restarts

VARIABLES
  db,      \* db[a][r]: the indices of r in the DB of AS a, empty when r is not stored
  host,    \* host[r]: the host that owns r
  calls,   \* the requests under way
  sent, faults

vars == <<db, host, calls, sent, faults>>

I == INSTANCE SegIndices WITH BWCls <- BWClass, NoRsv <- "none"

ASes == UNION {ToSet(Path[r]) : r \in Rsvs}
N(r) == Len(Path[r])
NoToken == [Idx |-> 0, Expiration |-> -1, BWCls |-> 0]

-----------------------------------------------------------------------------
(* e2e.Reservation *)

\* The segment reservations of r that AS a knows.
SegmentReservations(r, a) == SelectSeq(Segments[r], LAMBDA s : a \in ToSet(SegPath[s]))

IsStitchPoint(r, a) ==
  LET l == SegmentReservations(r, a)
  IN  Len(l) = 2 /\ Last(SegPath[l[1]]) = a /\ Head(SegPath[l[2]]) = a

\* The class of the last index or of the one before it, whichever is larger, in kbps.
AllocResv(s) ==
  CASE Len(s) = 0 -> 0
    [] Len(s) = 1 -> ToKbps(s[1].AllocBW)
    [] OTHER -> ToKbps(MaxBWCls(s[Len(s)].AllocBW, s[Len(s) - 1].AllocBW))

\* The index that NewIndex appends, with a token of its own.
NewIndex(s, bw) ==
  LET idx == IF s = <<>> THEN 0 ELSE I!Add(Last(s).Idx, 1)
  IN  [Idx |-> idx, Expiration |-> Lifetime, AllocBW |-> bw,
       Token |-> [Idx |-> idx, Expiration |-> Lifetime, BWCls |-> bw]]

\* An index must agree with its token, which the last AS made.
ValidateIndices(s) ==
  /\ I!ValidateIndices(s)
  /\ \A i \in DOMAIN s : s[i].Token = [Idx |-> s[i].Idx, Expiration |-> s[i].Expiration,
                                       BWCls |-> s[i].AllocBW]

-----------------------------------------------------------------------------
(* Bandwidth *)

Share(s) == (ToKbps(SegBW[s]) * Split[1]) \div Split[2]

On(a, s) == {r \in Rsvs : a \in ToSet(Path[r]) /\ s \in ToSet(SegmentReservations(r, a))}
sumAllBW(a, s) == MapThenSumSet(LAMBDA r : AllocResv(db[a][r]), On(a, s))

\* A variant that does not look at what is on the segment reservation.
freeInSegRsvAll(a, s) == Share(s)

freeInSegRsv(a, s) == (Share(s) - sumAllBW(a, s)) % WordSize

\* What reaches the AS over all segment reservations shares the next one.
freeAfterTransfer(a, r, rsv, renewal) ==
  LET seg1 == SegmentReservations(r, a)[1]
      seg2 == SegmentReservations(r, a)[2]
      total == MapThenSumSet(LAMBDA s : ToKbps(SegBW[s]), {s \in Segs : Last(SegPath[s]) = a})
      effective == (ToKbps(SegBW[seg2]) * ToKbps(SegBW[seg1])) \div total
      used == sumAllBW(a, seg2) - IF renewal THEN AllocResv(rsv) ELSE 0
  IN  IF PathType[seg1] = "core" /\ PathType[seg2] = "down" THEN WordSize - 1
      ELSE IF effective < used THEN 0 ELSE effective - used

\* What AS a has for r, once the new index is part of rsv.
Free(a, r, rsv, renewal) ==
  LET free == (freeInSegRsv(a, SegmentReservations(r, a)[1])
               + IF renewal THEN AllocResv(rsv) ELSE 0) % WordSize
  IN  IF IsStitchPoint(r, a)
      THEN Min({free, freeAfterTransfer(a, r, rsv, renewal)})
      ELSE free

-----------------------------------------------------------------------------
(* A request and its chain of handlers: the host is at position 0 and AS i  *)
(* of the path at position i.  low is the first that waits, at the one that *)
(* is about to handle the request (dir "req"), to receive the answer        *)
(* ("res"), or that waits for its own DB connection ("stuck").              *)

Request(op, r, idx, bw) ==
  [op |-> op, r |-> r, idx |-> idx, bw |-> bw, low |-> 0, at |-> 1, dir |-> "req",
   res |-> "none", admitted |-> TRUE, left |-> <<>>, token |-> NoToken, age |-> 0]

Here(c) == Path[c.r][c.at]

\* The positions whose service has a handler for c at work.
Handlers(c) == Max({c.low, 1}) .. (IF c.dir = "req" THEN c.at - 1 ELSE c.at)
Holding(c) == {Path[c.r][i] : i \in Handlers(c)}
Locked(a) == \E c \in calls : a \in Holding(c)

\* Bound: the expirer does not wait for the connection any longer than a request lasts.
Overdue(a) == \E r \in Rsvs : \E i \in DOMAIN db[a][r] : db[a][r][i].Expiration < -Deadline
Available(a) == ~Locked(a) /\ ~Overdue(a)

\* c goes on as d; a request whose caller is gone ends with its chain.
Becomes(c, d) == calls' = (calls \ {c}) \cup {e \in {d} : e.at >= e.low}

\* The handler at k has the answer; only what is still needed is kept.
Reply(c, k, res, token) ==
  [c EXCEPT !.at = k, !.dir = "res", !.res = res, !.token = token, !.admitted = TRUE,
            !.left = IF res = "ok" THEN SubSeq(@, 1, Min({k, Len(@)})) ELSE <<>>]
Answered(c, res) == Reply(c, c.at - 1, res, IF res = "ok" THEN c.token ELSE NoToken)

Write(a, r, s) == db' = [db EXCEPT ![a][r] = s]

-----------------------------------------------------------------------------
(* AdmitE2EReservation *)

Refused(c) ==
  LET s == db[Here(c)][c.r]
  IN  \/ s # <<>> /\ I!FindIndex(s, c.idx) # 0
      \/ \E x \in ToSet(SegmentReservations(c.r, Here(c))) : SegBW[x] = 0
      \/ ~ValidateIndices(Append(s, NewIndex(s, c.bw)))

AdmittedHere(c) ==
  LET s == db[Here(c)][c.r]
  IN  BWClsFromBW(Free(Here(c), c.r, Append(s, NewIndex(s, c.bw)), s # <<>>)) >= c.bw

\* Every AS but the last passes the request on, admitted or not; the last one also asks
\* the admission list of the destination host.
HandleSetup(c) ==
  LET a == Here(c)
      s == db[a][c.r]
      admitted == c.admitted /\ AdmittedHere(c)
  IN  /\ c.op = "Setup" /\ c.dir = "req" /\ Available(a)
      /\ \/ Refused(c) /\ Becomes(c, Answered(c, "fail")) /\ UNCHANGED db
         \/ /\ ~Refused(c) /\ c.at < N(c.r)
            /\ Becomes(c, [c EXCEPT !.at = @ + 1, !.admitted = admitted,
                                    !.left = Append(@, Lifetime)])
            /\ UNCHANGED db
         \/ \* not admitted, or the host does not want it
            /\ ~Refused(c) /\ c.at = N(c.r)
            /\ Becomes(c, Answered(c, "fail")) /\ UNCHANGED db
         \/ /\ ~Refused(c) /\ c.at = N(c.r) /\ admitted
            /\ Becomes(c, Reply(c, c.at - 1, "ok", NewIndex(s, c.bw).Token))
            /\ Write(a, c.r, Append(s, NewIndex(s, c.bw)))
      /\ UNCHANGED <<host, faults, sent>>

\* A variant that stores nothing in transit.
ReceiveSetupUnsaved(c) ==
  /\ c.op = "Setup" /\ c.dir = "res" /\ c.at > 0
  /\ Becomes(c, Answered(c, c.res))
  /\ UNCHANGED <<db, host, faults, sent>>

\* The answer is back: the index, as it was made for the request, is stored with the token.
ReceiveSetup(c) ==
  LET a == Here(c)
      s == db[a][c.r]
      new == [NewIndex(s, c.bw) EXCEPT !.Expiration = c.left[c.at], !.Token = c.token]
  IN  /\ c.op = "Setup" /\ c.dir = "res" /\ c.at > 0
      /\ IF c.res = "ok" THEN Write(a, c.r, Append(s, new)) ELSE UNCHANGED db
      /\ Becomes(c, Answered(c, c.res))
      /\ UNCHANGED <<host, faults, sent>>

-----------------------------------------------------------------------------
(* Faults *)

\* What is left of c when the service of AS a stops: the caller of its handler sees an
\* error, what the handler called goes on.
Survivors(c, a) ==
  LET k == CHOOSE i \in Handlers(c) : Path[c.r][i] = a
  IN  IF a \notin Holding(c) THEN {c}
      ELSE {d \in {Reply(c, k - 1, "fail", NoToken)} : k > c.low}
           \cup {d \in {[c EXCEPT !.low = k + 1]} : c.at > k}

Fault == faults < MaxFaults /\ faults' = faults + 1

Restart(a) ==
  /\ Fault
  /\ \E c \in calls : a \in Holding(c)
  /\ calls' = UNION {Survivors(c, a) : c \in calls}
  /\ UNCHANGED <<db, host, sent>>

\* The caller at position k - 1 stops waiting, because of its deadline or a lost message.
TimeOut(c, k) ==
  /\ k \in c.low + 1 .. (IF c.dir = "res" THEN c.at + 1 ELSE c.at)
  /\ IF c.age = Deadline THEN UNCHANGED faults ELSE Fault
  /\ calls' = (calls \ {c}) \cup {Reply(c, k - 1, "fail", NoToken)}
              \cup {d \in {[c EXCEPT !.low = k]} : c.at >= k}
  /\ UNCHANGED <<db, host, sent>>

\* A request that nobody waits for may never arrive.
Lose(c) ==
  /\ c.dir = "req" /\ c.at = c.low
  /\ calls' = calls \ {c}
  /\ UNCHANGED <<db, host, faults, sent>>

-----------------------------------------------------------------------------
(* CleanupE2EReservation *)

\* With the index present a second transaction is begun while the first one has the
\* connection.  Without the reservation the service panics and is started again; as the
\* connection was free, no other handler is at work there.
HandleCleanup(c) ==
  LET a == Here(c)
      s == db[a][c.r]
  IN  /\ c.op = "Cleanup" /\ c.dir = "req" /\ Available(a)
      /\ \/ s = <<>> /\ Becomes(c, Answered(c, "fail"))
         \/ /\ s # <<>> /\ I!FindIndex(s, c.idx) # 0
            /\ Becomes(c, [c EXCEPT !.dir = "stuck"])
         \/ /\ s # <<>> /\ I!FindIndex(s, c.idx) = 0
            /\ Becomes(c, IF c.at = N(c.r) THEN Answered(c, "ok") ELSE [c EXCEPT !.at = @ + 1])
      /\ UNCHANGED <<db, host, faults, sent>>

\* A variant that waits for the connection without a deadline.
CleanupGivesUpNever(c) == FALSE

CleanupGivesUp(c) ==
  /\ c.dir = "stuck" /\ c.age = Deadline
  /\ Becomes(c, Answered(c, "fail"))
  /\ UNCHANGED <<db, host, faults, sent>>

ReceiveCleanup(c) ==
  /\ c.op = "Cleanup" /\ c.dir = "res" /\ c.at > 0
  /\ Becomes(c, Answered(c, c.res))
  /\ UNCHANGED <<db, host, faults, sent>>

-----------------------------------------------------------------------------
(* The hosts (client.Reservation) *)

NewHost == [st |-> "new", idx |-> 0, bw |-> 0, token |-> NoToken]

Sends(r, c, h) ==
  /\ sent < MaxRequests /\ sent' = sent + 1
  /\ calls' = calls \cup {c}
  /\ host' = [host EXCEPT ![r] = h]
  /\ UNCHANGED <<db, faults>>

\* Open
Open(r) ==
  /\ host[r].st = "new"
  /\ \E bw \in Requests[r] :
       Sends(r, Request("Setup", r, 0, bw), [host[r] EXCEPT !.st = "setup", !.bw = bw])

\* renewalTask.Run
Renew(r) ==
  /\ host[r].st = "open"
  /\ LET idx == I!Add(host[r].idx, 1)
     IN  \E bw \in Requests[r] :
           Sends(r, Request("Setup", r, idx, bw),
                 [host[r] EXCEPT !.st = "renewal", !.idx = idx, !.bw = bw])

\* Close
CloseRsv(r) ==
  /\ host[r].st = "open"
  /\ Sends(r, Request("Cleanup", r, host[r].idx, host[r].bw), [host[r] EXCEPT !.st = "closing"])

\* The answer reaches the host, which gives up when it is a failure (no fallback).
HostReceives(c) ==
  /\ c.low = 0 /\ c.dir = "res" /\ c.at = 0
  /\ calls' = calls \ {c}
  /\ host' = [host EXCEPT ![c.r] =
       IF c.op = "Setup" /\ c.res = "ok" THEN [@ EXCEPT !.st = "open", !.token = c.token]
       ELSE [@ EXCEPT !.st = "closed", !.idx = 0, !.bw = 0]]
  /\ UNCHANGED <<db, faults, sent>>

-----------------------------------------------------------------------------
(* Time *)

Expired(s) == \E i \in DOMAIN s : s[i].Expiration < 0

\* DeleteExpiredIndices
DeleteExpiredIndices(a) ==
  /\ ~Locked(a)
  /\ \E r \in Rsvs : Expired(db[a][r])
  /\ db' = [db EXCEPT ![a] = [r \in Rsvs |-> SelectSeq(@[r], LAMBDA x : x.Expiration >= 0)]]
  /\ UNCHANGED <<host, calls, faults, sent>>

Aged(t) == IF t = NoToken THEN t ELSE [t EXCEPT !.Expiration = @ - 1]
Valid(t) == IF t.Expiration < 0 THEN NoToken ELSE t

\* The expirer runs, where it gets the connection, and requests end in time for the next tick.
Tick ==
  /\ \A c \in calls : c.age < Deadline
  /\ \A a \in ASes, r \in Rsvs : Expired(db[a][r]) => Locked(a)
  /\ db' = [a \in ASes |-> [r \in Rsvs |-> [i \in DOMAIN db[a][r] |->
              [db[a][r][i] EXCEPT !.Expiration = @ - 1, !.Token = Aged(@)]]]]
  /\ calls' = {[c EXCEPT !.age = @ + 1, !.token = Aged(@),
                         !.left = [i \in DOMAIN @ |-> @[i] - 1]] : c \in calls}
  /\ host' = [r \in Rsvs |-> [host[r] EXCEPT !.token = Valid(Aged(@))]]
  /\ UNCHANGED <<faults, sent>>

-----------------------------------------------------------------------------
Init ==
  /\ db = [a \in ASes |-> [r \in Rsvs |-> <<>>]]
  /\ host = [r \in Rsvs |-> NewHost]
  /\ calls = {} /\ sent = 0 /\ faults = 0

Works(c) ==
  \/ HandleSetup(c) \/ ReceiveSetup(c) \/ HandleCleanup(c) \/ CleanupGivesUp(c)
  \/ ReceiveCleanup(c) \/ HostReceives(c) \/ Lose(c) \/ \E k \in 1 .. 4 : TimeOut(c, k)

\* What goes on without the hosts.
Progress ==
  \/ \E c \in calls : Works(c)
  \/ \E a \in ASes : DeleteExpiredIndices(a)
  \/ Tick

Next ==
  \/ Progress
  \/ \E r \in Rsvs : Open(r) \/ Renew(r) \/ CloseRsv(r)
  \/ \E a \in ASes : Restart(a)

Spec == Init /\ [][Next]_vars

-----------------------------------------------------------------------------
Current(s) == SelectSeq(s, LAMBDA x : x.Expiration >= 0)
Used(a, s) == MapThenSumSet(LAMBDA r : AllocResv(Current(db[a][r])), On(a, s))

(* What the end-to-end reservations take of a segment reservation stays      *)
(* within the part of it that is for data, at every AS on it, also where     *)
(* the AS itself only checks the segment before (freeInSegRsv,               *)
(* freeAfterTransfer); the unsigned difference of the two never wraps.       *)
ShareRespected ==
  \A s \in Segs : \A a \in ToSet(SegPath[s]) \cap ASes : Used(a, s) <= Share(s)

(* A host's token is backed: every AS on the path stores it with an index    *)
(* that has not expired, until the last ticks of its life, as many as a      *)
(* request may take.                                                         *)
TokenIsBacked ==
  \A r \in Rsvs : host[r].token # NoToken /\ host[r].token.Expiration >= Deadline =>
    \A a \in ToSet(Path[r]) :
      \E i \in DOMAIN db[a][r] : db[a][r][i].Token = host[r].token /\ db[a][r][i].Expiration >= 0

(* No request is stuck: when one is at its deadline, and time waits for it,  *)
(* something is about to happen, although services wait for each other's     *)
(* answers with their only DB connection in use, and a cleanup waits for the *)
(* one it holds itself.  So every request ends in time.                      *)
NeverStuck == (\E c \in calls : c.age = Deadline) => ENABLED Progress
=============================================================================
