--------------------------- MODULE PathCombinator ---------------------------
(* Beaconing and path combination: how the AS entries of a path segment     *)
(* chain their MACs (cs/beaconing/extender.go) and how an end host builds    *)
(* forwarding paths from up-, core- and down-segments                        *)
(* (lib/infra/modules/combinator/graph.go, combinator.go).                   *)
(*                                                                           *)
(* A MAC is the record of its inputs (distinct inputs, distinct MACs), and   *)
(* the 16-bit SegID that accumulates MACs by XOR is the set of the values    *)
(* XORed into it: XOR is the symmetric difference.  Interfaces are numbered  *)
(* per AS.  Timestamps are equal in all segments.                            *)
EXTENDS Integers, Sequences, SequencesExt, FiniteSets

CONSTANTS
    ASes,       \* ISD-AS numbers
    Core,       \* the core ASes
    Links       \* links [a, ai, b, bi, type]; a is the parent of b, or type is "core"

ASSUME TopologyAssumption ==
    /\ Core \subseteq ASes
    /\ \A l \in Links : l.a \in ASes /\ l.b \in ASes /\ l.type \in {"core", "child"}
    /\ \A l \in Links : l.type = "core" <=> (l.a \in Core /\ l.b \in Core)

Xor(S, T) == (S \ T) \union (T \ S)

\* Hop field MAC: keyed by the AS, over SegID and the two interfaces.
MAC(key, beta, in, out) == [key |-> key, beta |-> beta, in |-> in, out |-> out]

\* The random SegmentID of a beacon, one per originating egress interface.
SegmentID(as, out) == {MAC(as, {}, 0, out)}

\* InfoField.UpdateSegID: XOR the first two bytes of a MAC.
UpdateSegID(beta, mac) == Xor(beta, {mac})

-----------------------------------------------------------------------------
(* Beaconing *)

extractBeta(pseg) ==
    FoldLeft(LAMBDA beta, e : UpdateSegID(beta, e.mac), pseg.id, pseg.entries)

\* DefaultExtender.Extend: the AS entry with a hop field over the current beta.
Extend(pseg, as, in, out) ==
    [pseg EXCEPT !.entries = Append(@,
        [as |-> as, in |-> in, out |-> out,
         mac |-> MAC(as, extractBeta(pseg), in, out)])]

\* The interfaces of the topology, their far ends and their topology.LinkType as seen
\* from the AS.
Ends == {<<l.a, l.ai>> : l \in Links} \union {<<l.b, l.bi>> : l \in Links}
FarEnd == [x \in Ends |->
    CHOOSE r \in Ends : \E l \in Links : {x, r} = {<<l.a, l.ai>>, <<l.b, l.bi>>} /\ x # r]
EndType == [x \in Ends |->
    CASE \E l \in Links : l.type = "child" /\ x = <<l.a, l.ai>> -> "child"
      [] \E l \in Links : l.type = "child" /\ x = <<l.b, l.bi>> -> "parent"
      [] OTHER -> "core"]

Remote(as, i) == FarEnd[<<as, i>>]
Interfaces(as) == {x[2] : x \in {y \in Ends : y[1] = as}}
LinkType(as, i) == IF <<as, i>> \in Ends THEN EndType[<<as, i>>] ELSE "unset"

\* Interfaces over which a beacon of this type is propagated.
Downstream(as, type) == {i \in Interfaces(as) : LinkType(as, i) = type}

Visits(pseg, as) == \E i \in DOMAIN pseg.entries : pseg.entries[i].as = as

\* A beacon on the wire has its last egress set; loops are filtered out.
Originate(type) ==
    {Extend([id |-> SegmentID(as, i), entries |-> <<>>], as, 0, i) :
        <<as, i>> \in {x \in Ends : x[1] \in Core /\ x[2] \in Downstream(x[1], type)}}

Receiver(pseg) == LET e == Last(pseg.entries) IN Remote(e.as, e.out)

Propagate(beacons, type) ==
    UNION {LET r == Receiver(b) IN
           {Extend(b, r[1], r[2], i) :
               i \in {j \in Downstream(r[1], type) : ~Visits(b, Remote(r[1], j)[1])}}
           : b \in beacons}

Beacons[n \in Nat, type \in {"core", "child"}] ==
    IF n = 0 THEN Originate(type)
    ELSE LET sent == Beacons[n-1, type] IN sent \union Propagate(sent, type)

\* Segments terminated at the receiving AS and registered.
Segments(type) ==
    {LET r == Receiver(b) IN Extend(b, r[1], r[2], 0) :
        b \in Beacons[Cardinality(ASes), type]}

CoreSegments == Segments("core")
NonCoreSegments == Segments("child")

-----------------------------------------------------------------------------
(* Combination *)

Edge(src, dst, pseg, type, shortcut) ==
    [src |-> src, dst |-> dst, seg |-> pseg, type |-> type, shortcut |-> shortcut]

\* dmg.traverseSegment: a core segment is one edge from its last AS to its first; an up-
\* (down-) segment has an edge from (to) its last AS for each earlier AS of the segment.
traverseSegment(pseg, type) ==
    LET es == pseg.entries
        pinned == Last(es).as
    IN  IF type = "core" THEN {Edge(pinned, es[1].as, pseg, type, 0)}
        ELSE {IF type = "up" THEN Edge(pinned, es[i].as, pseg, type, i - 1)
                             ELSE Edge(es[i].as, pinned, pseg, type, i - 1)
              : i \in 1..(Len(es) - 1)}

\* newDMG over the segments that a lookup for src and dst returns.
newDMG(src, dst) ==
    UNION {traverseSegment(s, "up") : s \in {p \in NonCoreSegments : Last(p.entries).as = src}}
    \union UNION {traverseSegment(s, "core") : s \in CoreSegments}
    \union UNION {traverseSegment(s, "down") :
                    s \in {p \in NonCoreSegments : Last(p.entries).as = dst}}

validNextSeg(curr, next) ==
    \/ curr = "up" /\ next \in {"core", "down"}
    \/ curr = "core" /\ next = "down"

\* dmg.GetPaths: the chains of edges from src that end where they first meet dst.
GetPaths(src, dst) ==
    LET g == newDMG(src, dst)
        First == {<<e>> : e \in {x \in g : x.src = src}}
        Open(sols) == {s \in sols : Last(s).dst # dst}
        Step(sols) == UNION {{Append(s, e) : e \in {x \in g :
                                /\ x.src = Last(s).dst
                                /\ validNextSeg(Last(s).type, x.type)}}
                             : s \in Open(sols)}
        Second == Step(First)
    IN  {s \in First \union Second \union Step(Second) : Last(s).dst = dst}

\* A down-segment entered at a shortcut, but with the SegID of its first AS.
calculateBetaNoShortcut(e) ==
    IF e.type = "down" THEN e.seg.id
    ELSE extractBeta([e.seg EXCEPT !.entries = Front(@)])

\* The SegID with which a packet starts on the edge's segment.
calculateBeta(e) ==
    extractBeta([e.seg EXCEPT !.entries =
        SubSeq(@, 1, IF e.type = "down" THEN e.shortcut ELSE Len(@) - 1)])

HopField(e) == [as |-> e.as, in |-> e.in, out |-> e.out, mac |-> e.mac,
                alertIn |-> FALSE, alertOut |-> FALSE]

\* The hop fields of an edge in travel order (pathSolution.Path).
EdgeHops(e) ==
    LET used == SubSeq(e.seg.entries, e.shortcut + 1, Len(e.seg.entries))
        hops == [i \in DOMAIN used |-> HopField(used[i])]
    IN  IF e.type = "down" THEN hops ELSE Reverse(hops)

\* The interfaces of an edge in travel order; the AS entered at a shortcut is not traversed
\* completely, so its ingress (in construction direction) is left out.
EdgeInterfaces(e) ==
    LET es == e.seg.entries
        Of(i) == (IF es[i].in # 0 /\ i # e.shortcut + 1 THEN <<<<es[i].as, es[i].in>>>> ELSE <<>>)
                    \o (IF es[i].out # 0 THEN <<<<es[i].as, es[i].out>>>> ELSE <<>>)
        cons == FlattenSeq([k \in 1..(Len(es) - e.shortcut) |-> Of(e.shortcut + k)])
    IN  IF e.type = "down" THEN cons ELSE Reverse(cons)

\* pathSolution.Path and segmentList.ScionPath.
Path(sol) ==
    [inf |-> [i \in DOMAIN sol |-> [segID |-> calculateBeta(sol[i]), consDir |-> sol[i].type = "down"]],
     segLen |-> [i \in DOMAIN sol |-> Len(EdgeHops(sol[i]))],
     hops |-> FlattenSeq([i \in DOMAIN sol |-> EdgeHops(sol[i])]),
     intfs |-> FlattenSeq([i \in DOMAIN sol |-> EdgeInterfaces(sol[i])])]

\* A variant that keeps paths with loops.
filterNothing(paths) == paths

\* filterLongPaths: no AS has more than two interfaces on the path.
filterLongPaths(paths) ==
    {p \in paths : \A as \in ASes :
        Cardinality({i \in DOMAIN p.intfs : p.intfs[i][1] = as}) <= 2}

\* Combine with findAllIdentical: filterDuplicates would keep one path per interface list,
\* any of them as far as this model can tell.
Combine(src, dst) == filterLongPaths({Path(s) : s \in GetPaths(src, dst)})

-----------------------------------------------------------------------------
(* Reference: the routes of the topology that go up, across the core and     *)
(* down again and visit no AS twice, as lists of interfaces.                 *)

Phase(type) == CASE type = "parent" -> 1 [] type = "core" -> 2 [] OTHER -> 3

\* All simple walks from src as [at, seen, phase, intfs], extended n times.
Walks[n \in Nat, src \in ASes] ==
    IF n = 0 THEN {[at |-> src, seen |-> {src}, phase |-> 1, intfs |-> <<>>]}
    ELSE LET shorter == Walks[n-1, src] IN shorter \union
         UNION {{[at |-> Remote(w.at, i)[1],
                  seen |-> w.seen \union {Remote(w.at, i)[1]},
                  phase |-> Phase(LinkType(w.at, i)),
                  intfs |-> w.intfs \o <<<<w.at, i>>, Remote(w.at, i)>>] :
                 i \in {j \in Interfaces(w.at) :
                          /\ Phase(LinkType(w.at, j)) >= w.phase
                          /\ Remote(w.at, j)[1] \notin w.seen}}
                : w \in shorter}

Routes(src, dst) == {w.intfs : w \in {x \in Walks[Cardinality(ASes), src] : x.at = dst}}
=============================================================================
