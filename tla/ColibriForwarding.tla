-------------------------- MODULE ColibriForwarding --------------------------
(* The border routers' handling of a packet on a COLIBRI path                *)
(* (pkg/router/colibri_processing.go), from the token that the COLIBRI       *)
(* services of a reservation build hop by hop to the packets that travel on  *)
(* it in both directions:                                                    *)
(*   - control packets over a segment reservation, which every AS on the way *)
(*     hands to its COLIBRI service; the service answers the previous one    *)
(*     and sends the request on to the next one;                             *)
(*   - data packets over an end-to-end reservation, which go from host to    *)
(*     host.                                                                 *)
(* The packet and the router that holds it are the variables of Forwarding:  *)
(* processPkt dispatches on the path type.  What identifies the version of a *)
(* reservation (suffix, index, expiration, bandwidth class, RLC) is the same *)
(* in the token and in every packet and is left out of the MAC's input.      *)
(* Packets that fail a check are dropped without an SCMP message.            *)
EXTENDS Forwarding

VARIABLE now    \* seconds since ExpirationOffset before the reservation expires

(* Seconds.  Hosts leave the packet timestamp at 0, ExpirationOffset before  *)
(* the expiration.                                                           *)
ExpirationOffset == 16
packetLifetime == 2
clockSkew == 1

-----------------------------------------------------------------------------
(* The token *)

\* PathSteps of a list of interfaces: the first step has no ingress, the last no egress.
StepsFromInterfaces(intfs) ==
    [i \in 1..(Len(intfs) \div 2 + 1) |->
        [as |-> IF i = 1 THEN intfs[1][1] ELSE intfs[2 * i - 2][1],
         in |-> IF i = 1 THEN 0 ELSE intfs[2 * i - 2][2],
         eg |-> IF 2 * i > Len(intfs) THEN 0 ELSE intfs[2 * i - 1][2]]]

\* A variant that takes the MAC of a reversed packet over the interfaces as they stand.
MACInputNoSwap(key, c, r, src, dst, in, eg) ==
    [key |-> key, c |-> c, src |-> IF r THEN dst ELSE src, in |-> in, eg |-> eg]

\* MACInputStatic: the MAC always covers the hop in the direction of the reservation.
MACInputStatic(key, c, r, src, dst, in, eg) ==
    [key |-> key, c |-> c, src |-> IF r THEN dst ELSE src,
     in |-> IF r THEN eg ELSE in, eg |-> IF r THEN in ELSE eg]

\* Token.AddNewHopField.
AddNewHopField(type, hfs, hf) == IF type = "down" THEN Append(hfs, hf) ELSE <<hf>> \o hfs

\* computeMAC for the hop of one step.
HopFieldOf(type, steps, s) ==
    [in |-> s.in, eg |-> s.eg,
     mac |-> MACInputStatic(s.as, type # "e2e", FALSE, Head(steps).as, Last(steps).as, s.in, s.eg)]

\* The last AS creates the token, each AS before it adds its hop field as the answer passes.
Token(type, steps) ==
    FoldLeft(LAMBDA hfs, s : AddNewHopField(type, hfs, HopFieldOf(type, steps, s)),
             <<>>, Reverse(steps))

-----------------------------------------------------------------------------
(* The path *)

\* ColibriPath.Reverse.
ReverseColibri(p) ==
    [p EXCEPT !.r = ~@, !.currHF = NumHops(p) - @ - 1,
              !.hops = [i \in DOMAIN @ |-> LET h == @[NumHops(p) + 1 - i] IN
                                           [in |-> h.eg, eg |-> h.in, mac |-> h.mac]],
              !.src = p.dst, !.dst = p.src]

\* A path at the start of a reservation with these hop fields; C = S for a segment.
ColibriPath(kind, steps, hfs, currHF, c) ==
    [type |-> "colibri", kind |-> kind, src |-> Head(steps).as, dst |-> Last(steps).as,
     hops |-> hfs, currHF |-> currHF, c |-> c, s |-> c, r |-> FALSE,
     short |-> FALSE, early |-> FALSE, of |-> ""]

\* deriveColibriPath: at the source, or at the destination (the initiator) of a down-segment.
deriveColibriPath(type, steps) ==
    LET hfs == Token(type, steps) IN
    IF type = "down"
    THEN ReverseColibri(ColibriPath("control", steps, Reverse(hfs), Len(hfs) - 1, TRUE))
    ELSE ColibriPath("control", steps, hfs, 0, TRUE)

\* DeriveColibriPath of an end-to-end reservation.
DeriveColibriPath(steps) == ColibriPath("request", steps, Token("e2e", steps), 0, FALSE)

UpdateCurrHF(p) == [p EXCEPT !.currHF = @ + 1]
IsLastHop(p) == p.currHF = NumHops(p) - 1

-----------------------------------------------------------------------------
(* The router *)

VerifyExpirationTick == now <= ExpirationOffset
VerifyTimestamp(ts) == now >= ts - clockSkew /\ now <= ts + packetLifetime + clockSkew

basicValidation(p) ==
    LET h == hopField(p)
        isLocal == h.eg = 0
    IN  << Check(p.s => p.c, "flags", p),
           Check(at.in \in {0, h.in}, "ingress", p),
           Check(~p.short, "truncated", p),
           Check(NumHops(p) >= 2 /\ p.currHF < NumHops(p), "hop fields", p),
           Check(VerifyExpirationTick, "expired", p),
           Check(p.c \/ VerifyTimestamp(0), "stale", p),
           Check(isLocal = IsLastHop(p) /\ isLocal = (p.dst = at.as), "inconsistent", p) >>

cryptographicValidation(p) ==
    LET key == IF fault.kind = "rekeyed" /\ fault.as = at.as THEN "new key" ELSE at.as
        h == hopField(p)
    IN  Check(h.mac = MACInputStatic(key, p.c, p.r, p.src, p.dst, h.in, h.eg), "mac", p)

\* svc.Any(SvcCOL)
SvcRegistered == ~(fault.kind = "nosvc" /\ fault.as = at.as)

\* forward: where a packet that passed the checks goes, or why it is dropped.
forward(p) ==
    LET e == hopField(p).eg IN
    CASE at.in = 0 -> IF external(e) THEN "transmit" ELSE "other router"
      [] at.in # 0 /\ p.c -> IF SvcRegistered THEN "deliver" ELSE "nosvc"
      [] at.in # 0 /\ ~p.c /\ e = 0 -> "deliver"
      [] at.in # 0 /\ ~p.c /\ external(e) -> "transmit"
      [] OTHER -> IF internalNextHops(e) THEN "relay" ELSE "no router"

DropColibri(reason) ==
    /\ st' = "dropped" /\ why' = reason
    /\ UNCHANGED <<route, pkt, at, crossed, trail, fault>>

forwardToLocalEgress ==
    LET e == hopField(pkt).eg
        r == Remote(at.as, e)
    IN  /\ pkt' = UpdateCurrHF(pkt)
        /\ at' = Hold(r[1], Router[r], r[2], "link")
        /\ crossed' = crossed \o <<<<at.as, e>>, r>>
        /\ UNCHANGED <<route, st, why, trail, fault>>

forwardToRemoteEgress ==
    /\ at' = Hold(at.as, Router[<<at.as, hopField(pkt).eg>>], 0, at.rtr)
    /\ UNCHANGED <<route, pkt, st, why, crossed, trail, fault>>

\* forwardToLocalAS, or forwardToColibriSvc at every AS of a segment.
forwardInside ==
    /\ st' = "arrived"
    /\ UNCHANGED <<route, pkt, at, why, crossed, trail, fault>>

ProcessColibri ==
    /\ Flying /\ pkt.type = "colibri"
    /\ now' = now
    /\ LET cs == Append(basicValidation(pkt), cryptographicValidation(pkt))
           failed == {i \in DOMAIN cs : ~cs[i].ok}
       IN  IF failed # {} THEN DropColibri(cs[Min(failed)].reason)
           ELSE LET d == forward(pkt) IN
                \/ d = "transmit" /\ forwardToLocalEgress
                \/ d = "relay" /\ forwardToRemoteEgress
                \/ d = "deliver" /\ forwardInside
                \/ d \notin {"transmit", "relay", "deliver"} /\ DropColibri(d)

-----------------------------------------------------------------------------
(* The services and the hosts *)

\* The link over which a control packet leaves for the next service.
LinkAhead(as, p) == LET e == hopField(p).eg IN <<<<as, e>>, Remote(as, e)>>

\* A packet leaves through the router that owns its egress interface.
SendFrom(as, p) ==
    /\ pkt' = p
    /\ at' = Hold(as, Router[<<as, hopField(p).eg>>], 0, "host")
    /\ st' = "flying" /\ crossed' = <<>>
    /\ now' = now
    /\ UNCHANGED <<route, why, fault>>

AtService == st = "arrived" /\ pkt.type = "colibri" /\ pkt.kind \in {"control", "turned"}

\* The service sends the request on to the next service of the segment.
ServiceForwards ==
    /\ AtService /\ ~IsLastHop(pkt)
    /\ SendFrom(at.as, pkt)
    /\ trail' = LinkAhead(at.as, pkt)

\* sendUpstreamForAdmission: at the first AS of a down-segment the request turns back.
ServiceTurns ==
    /\ AtService /\ IsLastHop(pkt) /\ pkt.r /\ pkt.kind = "control"
    /\ \E p \in {[ReverseColibri(pkt) EXCEPT !.kind = "turned"]} :
           SendFrom(at.as, p) /\ trail' = LinkAhead(at.as, p)

\* The service answers the service before it (ReplyPath).
ServiceAnswers ==
    /\ AtService
    /\ \E p \in {[ReverseColibri(pkt) EXCEPT !.kind = "reply"]} :
           SendFrom(at.as, p) /\ trail' = LinkAhead(at.as, p)

\* The receiving host answers (ReplyPath), through the router it heard from.
HostAnswers ==
    /\ st = "arrived" /\ pkt.type = "colibri" /\ pkt.kind = "request"
    /\ SendFrom(at.as, [ReverseColibri(pkt) EXCEPT !.kind = "reply"])
    /\ trail' = Reverse(trail)

-----------------------------------------------------------------------------
\* Paths over whole segments: what segment reservations are made of.
Whole(src, dst) == {s \in GetPaths(src, dst) : \A i \in DOMAIN s : s[i].shortcut = 0}

ColibriInit ==
    \E src \in ASes, dst \in ASes : src # dst /\
    \E sol \in Whole(src, dst), e2e \in BOOLEAN :
    \E intfs \in {Path(sol).intfs} : \E steps \in {StepsFromInterfaces(intfs)} :
    \E p \in {IF e2e THEN DeriveColibriPath(steps) ELSE deriveColibriPath(sol[1].type, steps)} :
        /\ e2e \/ Len(sol) = 1
        /\ filterLongPaths({Path(sol)}) # {}
        /\ route = [src |-> src, dst |-> dst, intfs |-> intfs]
        /\ pkt = p
        /\ at = Hold(p.src, Router[<<p.src, hopField(p).eg>>], 0, "host")
        /\ st = "flying" /\ why = "" /\ fault = NoFault
        /\ crossed = <<>>
        /\ trail = IF e2e THEN intfs ELSE LinkAhead(p.src, p)
        /\ now \in {-clockSkew, 0}

\* The packet is truncated, an AS changes its key or loses its services, or the packet is
\* overtaken by the time.
StrikeColibri ==
    /\ Flying /\ pkt.type = "colibri" /\ fault.kind = "none"
    /\ \/ \E k \in Kinds \cap {"rekeyed", "nosvc"}, x \in Range(route.intfs) :
            fault' = [NoFault EXCEPT !.kind = k, !.as = x[1]] /\ pkt' = pkt /\ now' = now
       \/ /\ "truncated" \in Kinds /\ at.in # 0
          /\ fault' = [NoFault EXCEPT !.kind = "truncated"]
          /\ pkt' = [pkt EXCEPT !.short = TRUE] /\ now' = now
       \/ /\ "late" \in Kinds
          /\ fault' = [NoFault EXCEPT !.kind = "late"]
          /\ now' \in 1..(ExpirationOffset + 1) /\ pkt' = pkt
    /\ UNCHANGED <<route, at, st, why, crossed, trail>>

RouterInit == (Init /\ now = 0) \/ ColibriInit

RouterNext ==
    \/ Next /\ now' = now
    \/ ProcessColibri \/ StrikeColibri
    \/ ServiceForwards \/ ServiceTurns \/ ServiceAnswers \/ HostAnswers

colVars == <<route, pkt, at, st, why, crossed, trail, fault, now>>
RouterSpec == RouterInit /\ [][RouterNext]_colVars

-----------------------------------------------------------------------------
(* Every hop of a reservation passes the checks of the router it leads to,   *)
(* in both directions and for all types of path: a packet is dropped only    *)
(* once the reservation has expired, a data packet is outside the lifetime   *)
(* of its timestamp, the packet is truncated, or the AS changed its key or   *)
(* has no COLIBRI service.                                                   *)
ReservationsAreHonoured ==
    pkt.type = "colibri" /\ st = "dropped" =>
        \/ why = "expired" /\ now > ExpirationOffset
        \/ why = "stale" /\ ~pkt.c /\ now > packetLifetime + clockSkew
        \/ why = "truncated" /\ fault.kind = "truncated"
        \/ why = "mac" /\ fault.kind = "rekeyed" /\ fault.as = at.as
        \/ why = "nosvc" /\ fault.kind = "nosvc" /\ fault.as = at.as
=============================================================================
