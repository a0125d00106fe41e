----------------------------- MODULE Forwarding -----------------------------
(* The border routers' handling of a SCION packet (pkg/router/dataplane.go,  *)
(* lib/slayers/path): a host sends a request over a path of the combinator,  *)
(* the routers move it hop by hop, the receiving host answers over the       *)
(* reversed path, and a router that cannot forward a packet answers with an  *)
(* SCMP message over the path that it reverses itself.                       *)
(*                                                                           *)
(* One packet is in flight.  A single fault strikes at any time or never: a  *)
(* BFD session on a link or with a sibling router goes down, a hop field     *)
(* expires, an AS replaces its key, the packet is truncated on a link, or    *)
(* the service it is for has no instance.  A packet written to a link is     *)
(* carried whatever the state of the link's BFD session.                     *)
EXTENDS PathCombinator, FiniteSetsExt

CONSTANTS
    Router,     \* the router <<as, interface>> is attached to
    Kinds       \* the kinds of fault that may strike

VARIABLES
    route,      \* the path that the host chose: [src, dst, intfs]
    pkt,        \* the packet: header fields and path
    at,         \* the router that holds it: [as, rtr, in, from]; in is the ingressID
    st,         \* "flying", "arrived" or "dropped"
    why,        \* the check that the packet failed when it was dropped
    crossed,    \* the interfaces the packet has crossed
    trail,      \* the interfaces it is meant to cross
    fault       \* the fault that has struck

vars == <<route, pkt, at, st, why, crossed, trail, fault>>

NoFault == [kind |-> "none", as |-> "", intf |-> 0, mac |-> {}]

-----------------------------------------------------------------------------
(* The path header (scion.Base, scion.Raw, scion.Decoded).  CurrINF and      *)
(* CurrHF count from 0.                                                      *)

NumINF(p) == Len(p.inf)
NumHops(p) == Len(p.hops)

infIndexForHF(p, hf) ==
    LET Before(i) == FoldLeft(+, 0, SubSeq(p.segLen, 1, i))
        hits == {i \in 0..(NumINF(p) - 1) : Before(i) <= hf /\ hf < Before(i + 1)}
    IN  IF hits = {} THEN NumINF(p) - 1 ELSE Min(hits)

IsXover(p) == p.currINF # infIndexForHF(p, p.currHF + 1)

IncPath(p) ==
    IF p.currHF >= NumHops(p) - 1 THEN [p EXCEPT !.currHF = NumHops(p) - 1]
    ELSE [p EXCEPT !.currHF = @ + 1, !.currINF = infIndexForHF(p, p.currHF + 1)]

ReversePath(p) ==
    [p EXCEPT !.inf = [i \in DOMAIN @ |->
                         [@[NumINF(p) + 1 - i] EXCEPT !.consDir = ~@]],
              !.segLen = Reverse(@),
              !.hops = Reverse(@),
              !.currINF = NumINF(p) - @ - 1,
              !.currHF = NumHops(p) - @ - 1]

hopField(p) == p.hops[p.currHF + 1]
infoField(p) == p.inf[p.currINF + 1]

SetSegID(p) ==
    [p EXCEPT !.inf[p.currINF + 1].segID = UpdateSegID(@, hopField(p).mac)]

ingressInterface(p) == IF infoField(p).consDir THEN hopField(p).in ELSE hopField(p).out
egressInterface(p) == IF infoField(p).consDir THEN hopField(p).out ELSE hopField(p).in

-----------------------------------------------------------------------------
(* The configuration of the router that holds the packet. *)

Known(i) == i \in Interfaces(at.as)
external(i) == Known(i) /\ Router[<<at.as, i>>] = at.rtr
internalNextHops(i) == Known(i) /\ Router[<<at.as, i>>] # at.rtr

\* bfdSessions[i].IsUp: the session over the link, or with the sibling that owns it.
IsUp(i) ==
    IF external(i)
    THEN ~(fault.kind = "down" /\ <<fault.as, fault.intf>> \in {<<at.as, i>>, Remote(at.as, i)})
    ELSE ~(fault.kind = "sibling" /\ fault.as = at.as)

-----------------------------------------------------------------------------
(* The checks of process(), in the code's order.  A check names the state of *)
(* the packet at which a failure is reported.                                *)

Check(ok, reason, p) == [ok |-> ok, reason |-> reason, p |-> p]

validateHopExpiry(p) ==
    Check(~(fault.kind = "expired" /\ fault.mac = hopField(p).mac), "expired", p)

validateIngressID(p) == Check(at.in \in {0, ingressInterface(p)}, "ingress", p)

validatePktLen(p) == Check(~p.short, "truncated", p)

updateNonConsDirIngressSegID(p) ==
    IF ~infoField(p).consDir /\ at.in # 0 THEN SetSegID(p) ELSE p

verifyCurrentMAC(p) ==
    LET key == IF fault.kind = "rekeyed" /\ fault.as = at.as THEN "new key" ELSE at.as
        h == hopField(p)
    IN  Check(h.mac = MAC(key, infoField(p).segID, h.in, h.out), "mac", p)

ClearAlerts(p) ==
    [p EXCEPT !.hops[p.currHF + 1].alertIn = FALSE, !.hops[p.currHF + 1].alertOut = FALSE]

ingressRouterAlertFlag(p) ==
    IF infoField(p).consDir THEN hopField(p).alertIn ELSE hopField(p).alertOut
egressRouterAlertFlag(p) ==
    IF infoField(p).consDir THEN hopField(p).alertOut ELSE hopField(p).alertIn

handleIngressRouterAlert(p) ==
    Check(~(at.in # 0 /\ ingressRouterAlertFlag(p)), "trace", ClearAlerts(p))

handleEgressRouterAlert(p) ==
    Check(~(egressRouterAlertFlag(p) /\ external(egressInterface(p))), "trace", ClearAlerts(p))

Inbound(p) == p.dst = at.as /\ p.currHF + 1 = NumHops(p)

resolveInbound(p) == Check(~(fault.kind = "nosvc" /\ fault.as = at.as /\ p.kind = "request"), "nosvc", p)

validSegmentChange(i, e) ==
    <<LinkType(at.as, i), LinkType(at.as, e)>> \in
        {<<"core", "child">>, <<"child", "core">>, <<"child", "child">>}

validateEgressID(p, changed) ==
    LET e == egressInterface(p) IN
    << Check(Known(e), "egress", p),
       Check(changed => validSegmentChange(at.in, e), "segment change", p) >>

\* A variant that looks at the link after the packet was made ready to leave.
validateEgressUpLate(p) ==
    Check(IsUp(egressInterface(p)), "down",
          IncPath(IF infoField(p).consDir THEN SetSegID(p) ELSE p))

validateEgressUp(p) == Check(IsUp(egressInterface(p)), "down", p)

\* Before the SegID is updated: parsePath and validatePktLen.
EarlyChecks(p) == <<validateHopExpiry(p), validateIngressID(p), validatePktLen(p)>>

\* doXover moves to the next segment.
doXover(p) == IF IsXover(p) THEN IncPath(p) ELSE p

Checks(p, q) ==
    EarlyChecks(pkt)
    \o <<verifyCurrentMAC(p), handleIngressRouterAlert(p)>>
    \o IF Inbound(p) THEN <<resolveInbound(p)>>
       ELSE (IF IsXover(p) THEN <<validateHopExpiry(q), verifyCurrentMAC(q)>> ELSE <<>>)
            \o validateEgressID(q, IsXover(p))
            \o <<handleEgressRouterAlert(q), validateEgressUp(q)>>

\* A variant that answers errors too.
AnsweredAlways == TRUE

\* packSCMP: an SCMP error is not answered.
Answered == pkt.kind # "error"

\* What process() decides: the first check that fails, or where the packet goes.
Verdict(p, q, cs) ==
    LET failed == {i \in DOMAIN cs : ~cs[i].ok} IN
    CASE failed # {} ->
            [do |-> IF Answered THEN "report" ELSE "drop", p |-> cs[Min(failed)].p,
             reason |-> cs[Min(failed)].reason,
             early |-> Min(failed) <= 3 /\ at.in # 0 /\ ~infoField(pkt).consDir]
      [] failed = {} /\ Inbound(p) -> [do |-> "deliver", p |-> p, reason |-> "", early |-> FALSE]
      [] OTHER ->
            [do |-> IF external(egressInterface(q)) THEN "transmit" ELSE "relay",
             p |-> q, reason |-> "", early |-> FALSE]

-----------------------------------------------------------------------------
(* SCMP replies *)

\* Step back over the segment change that doXover made.
RevertXover(p) == IF IsXover(p) THEN IncPath(p) ELSE p

\* Reverse the path, revert a segment change, and if the packet came from outside, do what
\* an egress router does.
prepareSCMP(p, kind, early) ==
    LET r == RevertXover(ReversePath(p))
        s == IF infoField(r).consDir THEN SetSegID(r) ELSE r
    IN  [(IF at.in # 0 THEN IncPath(s) ELSE r)
            EXCEPT !.kind = kind, !.dst = p.src, !.src = at.as, !.short = FALSE,
                   !.early = early, !.of = p.kind]

\* At router r of the AS, from outside (i # 0) or from a neighbour in the AS.
Hold(as, rtr, i, from) == [as |-> as, rtr |-> rtr, in |-> i, from |-> from]

\* A variant that takes every internal sender for a host.
GoBackToHost ==
    IF at.in # 0
    THEN LET r == Remote(at.as, at.in) IN
         /\ at' = Hold(r[1], Router[r], r[2], "link")
         /\ crossed' = <<<<at.as, at.in>>, r>>
         /\ st' = "flying"
    ELSE crossed' = <<>> /\ at' = at /\ st' = "arrived"

\* "SCMP go back the way they came": over the ingress link, to the sibling router that
\* forwarded the packet, or to the host that sent it.
GoBack ==
    IF at.in # 0
    THEN LET r == Remote(at.as, at.in) IN
         /\ at' = Hold(r[1], Router[r], r[2], "link")
         /\ crossed' = <<<<at.as, at.in>>, r>>
         /\ st' = "flying"
    ELSE /\ crossed' = <<>>
         /\ IF at.from = "host" THEN at' = at /\ st' = "arrived"
            ELSE at' = Hold(at.as, at.from, 0, at.rtr) /\ st' = "flying"

-----------------------------------------------------------------------------
Flying == st = "flying"

Init ==
    \E src \in ASes, dst \in ASes : src # dst /\
    \E p \in Combine(src, dst), kind \in {"request", "trace"} :
    \E h \in (IF kind = "trace" THEN DOMAIN p.hops ELSE {1}),
       side \in (IF kind = "trace" THEN {"in", "out"} ELSE {"in"}) :
        /\ route = [src |-> src, dst |-> dst, intfs |-> p.intfs]
        /\ pkt = [type |-> "scion", kind |-> kind, src |-> src, dst |-> dst, inf |-> p.inf, segLen |-> p.segLen,
                  hops |-> [p.hops EXCEPT ![h].alertIn = kind = "trace" /\ side = "in",
                                          ![h].alertOut = kind = "trace" /\ side = "out"],
                  currINF |-> 0, currHF |-> 0, short |-> FALSE, early |-> FALSE, of |-> ""]
        /\ at = Hold(src, Router[p.intfs[1]], 0, "host")
        /\ st = "flying" /\ why = "" /\ fault = NoFault
        /\ crossed = <<>> /\ trail = p.intfs

\* packSCMP for the first check that failed; an SCMP error is never answered.
Report(v) ==
    /\ v.do = "report"
    /\ pkt' = prepareSCMP(v.p, IF v.reason = "trace" THEN "traced" ELSE "error", v.early)
    /\ GoBack
    /\ trail' = Reverse(crossed)
    /\ UNCHANGED <<route, why, fault>>

Drop(v) ==
    /\ v.do = "drop"
    /\ st' = "dropped" /\ why' = v.reason
    /\ UNCHANGED <<route, pkt, at, crossed, trail, fault>>

\* The packet is for the local AS.
Deliver(v) ==
    /\ v.do = "deliver"
    /\ pkt' = v.p /\ st' = "arrived"
    /\ UNCHANGED <<route, at, why, crossed, trail, fault>>

processEgress(p) == IncPath(IF infoField(p).consDir THEN SetSegID(p) ELSE p)

\* BRTransit, or the egress router of AS transit.
Transmit(v) ==
    LET e == egressInterface(v.p)
        r == Remote(at.as, e)
    IN  /\ v.do = "transmit"
        /\ at' = Hold(r[1], Router[r], r[2], "link")
        /\ crossed' = crossed \o <<<<at.as, e>>, r>>
        /\ pkt' = processEgress(v.p)
        /\ UNCHANGED <<route, st, why, trail, fault>>

\* ASTransit: to the router of this AS that owns the egress interface.
Relay(v) ==
    /\ v.do = "relay"
    /\ at' = Hold(at.as, Router[<<at.as, egressInterface(v.p)>>], 0, at.rtr)
    /\ pkt' = v.p
    /\ UNCHANGED <<route, st, why, crossed, trail, fault>>

\* The receiving host answers over the reversed path, through the router it heard from.
Answer ==
    /\ st = "arrived" /\ pkt.type = "scion" /\ pkt.kind \in {"request", "trace"}
    /\ pkt' = [ReversePath(pkt) EXCEPT !.kind = "reply", !.src = pkt.dst, !.dst = pkt.src]
    /\ at' = Hold(at.as, at.rtr, 0, "host")
    /\ st' = "flying"
    /\ crossed' = <<>> /\ trail' = Reverse(trail)
    /\ UNCHANGED <<route, why, fault>>

Strike ==
    /\ Flying /\ pkt.type = "scion" /\ fault.kind = "none"
    /\ \/ \E k \in Kinds \ {"expired", "truncated", "late"}, x \in Range(route.intfs) :
            fault' = [NoFault EXCEPT !.kind = k, !.as = x[1],
                                     !.intf = IF k = "down" THEN x[2] ELSE 0]
            /\ pkt' = pkt
       \/ /\ "expired" \in Kinds /\ pkt' = pkt
          /\ \E h \in Range(pkt.hops) : fault' = [NoFault EXCEPT !.kind = "expired", !.mac = h.mac]
       \/ /\ "truncated" \in Kinds /\ at.in # 0
          /\ fault' = [NoFault EXCEPT !.kind = "truncated"]
          /\ pkt' = [pkt EXCEPT !.short = TRUE]
    /\ UNCHANGED <<route, at, st, why, crossed, trail>>

\* processPkt, for the SCION path type.
Process ==
    /\ Flying /\ pkt.type = "scion"
    /\ \E p \in {updateNonConsDirIngressSegID(pkt)} : \E q \in {doXover(p)} :
       \E cs \in {Checks(p, q)} : \E v \in {Verdict(p, q, cs)} :
            Report(v) \/ Drop(v) \/ Deliver(v) \/ Transmit(v) \/ Relay(v)

\* Nothing more happens to a packet that arrived or was dropped.
Settled == st = "dropped" \/ (st = "arrived" /\ pkt.kind \in {"reply", "traced", "error"})

Next == Process \/ Answer \/ Strike \/ (Settled /\ UNCHANGED vars)

Spec == Init /\ [][Next]_vars

-----------------------------------------------------------------------------
(* Type invariant: what the header, the position and the fault may be. *)
TypeOK ==
    /\ pkt.kind \in {"request", "trace", "reply", "traced", "error", "control", "turned"}
    /\ pkt.currHF \in 0..(NumHops(pkt) - 1)
    /\ pkt.type = "scion" => /\ pkt.currINF \in 0..(NumINF(pkt) - 1)
                             /\ pkt.currINF = infIndexForHF(pkt, pkt.currHF)
    /\ st \in {"flying", "arrived", "dropped"}
    /\ at.as \in ASes /\ at.in \in Interfaces(at.as) \union {0}
    /\ fault.kind \in Kinds \union {"none"}

(* An error about a traceroute answer is addressed to a router inside the    *)
(* path, where no check recognises it as inbound.                            *)
ForRouter == pkt.kind = "error" /\ pkt.of = "traced"

(* A packet crosses the interfaces that the path's metadata lists, in order, *)
(* and has crossed all of them when it arrives; an answer crosses the ones   *)
(* its request crossed, backwards, from wherever it was sent.  A COLIBRI     *)
(* control packet crosses one link and stops at the service behind it.       *)
StaysOnPath ==
    ~ForRouter =>
        /\ IsPrefix(crossed, trail)
        /\ st = "arrived" => crossed = trail /\ (pkt.type = "scion" => at.as = pkt.dst)

(* Every path that Combine returns passes all the checks of the routers (MAC *)
(* chain, interfaces, segment changes) in both directions: without a fault   *)
(* there is no error.                                                        *)
PathsAreValid == fault.kind = "none" /\ pkt.type = "scion" => pkt.kind # "error" /\ st # "dropped"

(* What a struck fault looks like to a router. *)
Symptom == IF fault.kind = "rekeyed" THEN "mac" ELSE fault.kind

(* An SCMP error reaches the sender of the packet that failed: it is lost    *)
(* only to the fault itself, met again on the way back, or if it was raised  *)
(* before the router updated the SegID of a packet against construction      *)
(* direction (ErrorsReturn does without this exception).                     *)
LateErrorsReturn ==
    pkt.type = "scion" /\ st = "dropped" => ForRouter \/ pkt.early \/ (why = Symptom /\ (why = "mac" => at.as = fault.as))

(* "SCMP go back the way they came" (dataplane.go:518): an SCMP error is     *)
(* lost only to the fault itself.                                            *)
ErrorsReturn ==
    pkt.type = "scion" /\ st = "dropped" => ForRouter \/ (why = Symptom /\ (why = "mac" => at.as = fault.as))

(* Combine finds every route that goes up, across the core and down without  *)
(* visiting an AS twice, and no other.                                       *)
RoutesAreFound ==
    pkt.type = "scion" /\ pkt.kind = "request" /\ at.from = "host" /\ fault.kind = "none" =>
        {p.intfs : p \in Combine(route.src, route.dst)} = Routes(route.src, route.dst)

(* How far the packet is from rest: answers and errors still to come, hop    *)
(* fields left, and what may still happen to it inside the AS.               *)
Distance ==
    LET rank == CASE pkt.kind \in {"request", "trace", "control"} -> 3
                  [] pkt.kind \in {"traced", "turned"} \/ (pkt.kind = "reply" /\ pkt.type = "scion") -> 2
                  [] OTHER -> 1
        inside == CASE Flying /\ at.in # 0 -> 3
                    [] st = "arrived" /\ pkt.kind \in {"control", "turned"} -> 2
                    [] Flying /\ at.in = 0 -> 1
                    [] OTHER -> 0
    IN  1000 * rank + (IF inside = 0 THEN 0 ELSE 4 * (NumHops(pkt) - pkt.currHF) + inside)

(* No packet circles: whatever a router or a host does with it brings it     *)
(* closer to rest (only a fault that strikes changes nothing).               *)
ApproachesRest == [][fault'.kind = fault.kind => Distance' < Distance]_vars
=============================================================================
