---------------------------- MODULE SegAdmission ----------------------------
(***************************************************************************)
(* The segment reservations that cross one AS and the bandwidth they are   *)
(* admitted with (admission/stateless/stateless.go).                       *)
(*                                                                         *)
(* A request is admitted with at most what is free on its interfaces and   *)
(* at most its ideal share of the egress link.  The other ASes of a path   *)
(* are the environment: what the previous ones granted and, when this AS   *)
(* is not the last one, the bandwidth in the token that comes back.        *)
(* Ratios are exact fractions <<numerator, denominator>>; the code         *)
(* computes them in float64.                                               *)
(***************************************************************************)
EXTENDS SegIndices, BWClass, FiniteSetsExt

CONSTANTS
  ID,            \* reservation IDs
  Src, In, Eg,   \* of each reservation: source AS, ingress and egress interface
  LastStep,      \* the reservations that end in this AS
  CapIn, CapEg,  \* capacity of each ingress and egress interface, in kbps
  Delta,         \* fraction of the free bandwidth one request may get
  WordSize,      \* bandwidths are unsigned words: 2^64 in the code
  MaxBWs,        \* the classes that are asked for
  PrevBWs        \* what previous ASes grant at most, in kbps

ASSUME SegAdmissionAssumption ==
  /\ BWCls = BWClass
  /\ \A id \in ID : In[id] \in DOMAIN CapIn /\ Eg[id] \in DOMAIN CapEg
  /\ LastStep \subseteq ID
  /\ Delta[1] <= Delta[2]
  /\ \A i \in DOMAIN CapIn : CapIn[i] < WordSize
  /\ \A e \in DOMAIN CapEg : CapEg[e] < WordSize

VARIABLE rsvs

Stored == {id \in ID : rsvs[id] # NoRsv}

-----------------------------------------------------------------------------
(* The bandwidth a reservation blocks and asks for. *)

MaxBlockedBW(r) ==
  ToKbps(Max({0} \cup {r.Indices[i].AllocBW : i \in 1 .. Len(r.Indices)}))
MaxRequestedBW(r) ==
  ToKbps(Max({0} \cup {r.Indices[i].MaxBW : i \in 1 .. Len(r.Indices)}))

\* The blocked bandwidth of the reservations in a set.
sumMaxBlockedBW(ids) == MapThenSumSet(LAMBDA id : MaxBlockedBW(rsvs[id]), ids)

SameIngress(i) == {id \in Stored : In[id] = i}
SameEgress(e) == {id \in Stored : Eg[id] = e}

-----------------------------------------------------------------------------
(* Admission of a request [ID, MaxBW, MinBW, PrevBW]. *)

minBW(S) == Min(S)

\* Mutant of availableBW: only the ingress interface is looked at.
availableBWIngress(req) ==
  LET freeIngress == CapIn[In[req.ID]] - sumMaxBlockedBW(SameIngress(In[req.ID]) \ {req.ID})
  IN  ((freeIngress % WordSize) * Delta[1]) \div Delta[2]

availableBW(req) ==
  LET freeIngress == CapIn[In[req.ID]] - sumMaxBlockedBW(SameIngress(In[req.ID]) \ {req.ID})
      freeEgress == CapEg[Eg[req.ID]] - sumMaxBlockedBW(SameEgress(Eg[req.ID]) \ {req.ID})
  IN  (minBW({freeIngress % WordSize, freeEgress % WordSize}) * Delta[1]) \div Delta[2]

\* Sources with a reservation here.
Sources == {Src[id] : id \in Stored}
OfSource(s) == {id \in Stored : Src[id] = s}

\* Demand of a source on a pair of interfaces; the request's is added to it.
srcDem(s, in, eg, req) ==
  LET capped(bw) == minBW({CapIn[in], CapEg[Eg[req.ID]], bw})
      others == {id \in OfSource(s) : In[id] = in /\ Eg[id] = eg /\ id # req.ID}
  IN  MapThenSumSet(LAMBDA id : capped(MaxRequestedBW(rsvs[id])), others)
      + IF OfSource(s) # {} /\ s = Src[req.ID] /\ In[req.ID] = in /\ Eg[req.ID] = eg
        THEN capped(ToKbps(req.MaxBW)) ELSE 0

inDem(s, in, req) == MapThenSumSet(LAMBDA eg : srcDem(s, in, eg, req), DOMAIN CapEg)
egDem(s, eg, req) == MapThenSumSet(LAMBDA in : srcDem(s, in, eg, req), DOMAIN CapIn)

ScalFctr(cap, dem) == IF dem = 0 THEN <<1, 1>> ELSE <<minBW({cap, dem}), dem>>
inScalFctr(s, in, req) == ScalFctr(CapIn[in], inDem(s, in, req))
egScalFctr(s, eg, req) == ScalFctr(CapEg[eg], egDem(s, eg, req))

adjSrcDem(s, in, req) ==
  LET a == inScalFctr(s, in, req)
      b == egScalFctr(s, Eg[req.ID], req)
      f == IF a[1] * b[2] <= b[1] * a[2] THEN a ELSE b
  IN  (f[1] * srcDem(s, in, Eg[req.ID], req)) \div f[2]

transitDemand(in, req) == MapThenSumSet(LAMBDA s : adjSrcDem(s, in, req), Sources)

\* Mutant of tubeRatio: the request's own interface is left out of the sum.
tubeRatioOthers(req) ==
  LET capped(in) == minBW({CapIn[in], transitDemand(in, req)})
      sum == MapThenSumSet(capped, DOMAIN CapIn \ {In[req.ID]})
  IN  IF sum = 0 \/ capped(In[req.ID]) = 0 THEN <<1, 1>> ELSE <<capped(In[req.ID]), sum>>

tubeRatio(req) ==
  LET capped(in) == minBW({CapIn[in], transitDemand(in, req)})
      numerator == capped(In[req.ID])
      sum == MapThenSumSet(capped, DOMAIN CapIn)
  IN  IF sum = 0 \/ numerator = 0 THEN <<1, 1>> ELSE <<numerator, sum>>

srcAlloc(s, req) ==
  sumMaxBlockedBW({id \in OfSource(s) : In[id] = In[req.ID] /\ Eg[id] = Eg[req.ID]} \ {req.ID})
  + IF s = Src[req.ID] THEN req.PrevBW ELSE 0

linkRatio(req) ==
  LET f(s) == egScalFctr(s, Eg[req.ID], req)
      S == Sources \cup {Src[req.ID]}
      prodExcept(s) == FoldSet(LAMBDA t, p : p * f(t)[2], 1, S \ {s})
      term(s, bw) == f(s)[1] * bw * prodExcept(s)
      denom == MapThenSumSet(LAMBDA s : term(s, srcAlloc(s, req)), S)
  IN  IF denom = 0 THEN <<1, 1>> ELSE <<term(Src[req.ID], req.PrevBW), denom>>

idealBW(req) ==
  LET t == tubeRatio(req)
      l == linkRatio(req)
  IN  (CapEg[Eg[req.ID]] * t[1] * l[1]) \div (t[2] * l[2])

\* The class AdmitRsv grants at most.
MaxAlloc(req) == BWClsFromBW(minBW({availableBW(req), idealBW(req)}))

AdmitRsvOK(req) == MaxAlloc(req) >= req.MinBW
AdmitRsv(req) == MinBWCls(MaxAlloc(req), req.MaxBW)

-----------------------------------------------------------------------------
(* The requests this AS serves. *)

Init == rsvs = [id \in ID |-> NoRsv]

Request == [ID : ID, MaxBW : MaxBWs, MinBW : {1}, PrevBW : PrevBWs]

(***************************************************************************)
(* A setup or renewal that every AS of the path admits.  The last AS puts  *)
(* what it grants in the token, and every AS stores the token's class.     *)
(***************************************************************************)
TokenBW(req) == IF req.ID \in LastStep THEN {AdmitRsv(req)} ELSE req.MinBW .. req.MaxBW

AdmitSegmentReservation(req) ==
  LET r == IF rsvs[req.ID] # NoRsv THEN rsvs[req.ID] ELSE NewReservation
  IN  /\ AdmitRsvOK(req)
      /\ \E tokenBW \in TokenBW(req), idx \in IndexNumber, ttl \in 0 .. Lifetime :
           LET x == NewIndex(idx, ttl, req.MaxBW, tokenBW)
           IN  /\ FindIndex(r.Indices, idx) = 0
               /\ addIndexOK(r, x)
               /\ rsvs' = [rsvs EXCEPT ![req.ID] = addIndex(r, x)]

ConfirmSegmentReservation(id, idx) ==
  /\ id \in Stored
  /\ SetIndexConfirmedOK(rsvs[id], idx)
  /\ rsvs' = [rsvs EXCEPT ![id] = SetIndexConfirmed(rsvs[id], idx)]

ActivateSegmentReservation(id, idx) ==
  /\ id \in Stored
  /\ SetIndexActiveOK(rsvs[id], idx)
  /\ rsvs' = [rsvs EXCEPT ![id] = SetIndexActive(rsvs[id], idx)]

CleanupSegmentReservation(id, idx) ==
  /\ id \in Stored
  /\ RemoveIndexOK(rsvs[id], idx)
  /\ rsvs' = [rsvs EXCEPT ![id] = RemoveIndex(rsvs[id], idx)]

TearDownSegmentReservation(id) ==
  /\ id \in Stored
  /\ rsvs' = [rsvs EXCEPT ![id] = NoRsv]

Expired(r) == CHOOSE k \in 1 .. Len(r.Indices) : ExpiredAreFirst(r, k)
DeleteExpiredIndices ==
  /\ \E id \in ID : HasExpired(rsvs[id])
  /\ rsvs' = [id \in ID |-> IF HasExpired(rsvs[id]) THEN ExpireFirst(rsvs[id], Expired(rsvs[id]))
                            ELSE rsvs[id]]

Tick ==
  /\ \A id \in ID : ~HasExpired(rsvs[id])
  /\ Stored # {}
  /\ rsvs' = [id \in ID |-> Age(rsvs[id])]

Next ==
  \/ \E req \in Request : AdmitSegmentReservation(req)
  \/ \E id \in ID, idx \in IndexNumber :
       \/ ConfirmSegmentReservation(id, idx)
       \/ ActivateSegmentReservation(id, idx)
       \/ CleanupSegmentReservation(id, idx)
  \/ \E id \in ID : TearDownSegmentReservation(id)
  \/ DeleteExpiredIndices
  \/ Tick

Spec == Init /\ [][Next]_rsvs

-----------------------------------------------------------------------------
(* Properties *)

\* Every stored reservation has the type of segment.Reservation.
TypeOK == rsvs \in [ID -> Reservation \cup {NoRsv}]

(***************************************************************************)
(* The reservations on an interface never block more than its capacity,    *)
(* although each index is admitted against what the others block at that   *)
(* moment, and a renewal ignores the earlier indices of its reservation.   *)
(***************************************************************************)
NeverOvercommitted ==
  /\ \A i \in DOMAIN CapIn : sumMaxBlockedBW(SameIngress(i)) <= CapIn[i]
  /\ \A e \in DOMAIN CapEg : sumMaxBlockedBW(SameEgress(e)) <= CapEg[e]

\* tubeRatio and linkRatio are proper ratios: no share exceeds the link.
IdealIsAShare == \A req \in Request : idealBW(req) <= CapEg[Eg[req.ID]]

(***************************************************************************)
(* An AS stores an index for at most the bandwidth it admitted: in the     *)
(* words of admitSegmentReservation, the token's class "could have been    *)
(* admitted for less downstream".                                          *)
(***************************************************************************)
StoredIsAdmitted ==
  [][\A req \in Request :
       AdmitSegmentReservation(req) =>
         LET s == rsvs'[req.ID].Indices IN s[Len(s)].AllocBW <= AdmitRsv(req)]_rsvs

=============================================================================
