----------------------------- MODULE Dispatcher -----------------------------
(***************************************************************************)
(* The dispatcher (go/dispatcher): two goroutines move packets from the    *)
(* IPv4 and IPv6 underlay sockets to the ingress rings of applications,    *)
(* and for every application a handler goroutine owns its registration and *)
(* a second goroutine moves packets from its ring to its socket.  Packets  *)
(* are reference counted and recycled through a pool.                      *)
(*                                                                         *)
(* The registration table is guarded by the RWMutex of iaTable: Register,  *)
(* Free and RegisterID hold it exclusively, lookups share it.  A service   *)
(* lookup nevertheless advances the round-robin position of a port list    *)
(* (portlist.go:50-51), so its load and its store are steps of their own,  *)
(* which the other dataplane may interleave with.  Lookups that only read  *)
(* are one step.  A ring is the bounded queue that RingBuf implements.     *)
(*                                                                         *)
(* A packet that is not put on a ring (not decoded, no destination, an     *)
(* SCMP request that SCMPHandler answers, a packet from an application)    *)
(* never leaves the goroutine that took it from the pool: apart from the   *)
(* IDs that AppSends registers, handling it is a stuttering step.          *)
(***************************************************************************)
EXTENDS Registration, TLC

CONSTANTS Apps,          \* connections of applications, each used once
          Dataplanes,
          Packets,       \* packet buffers
          RingSize,      \* bound: 128 in table.go:31
          Requests,      \* bound: the registrations applications ask for
          Destinations   \* what packets from the network are addressed to

VARIABLES table,     \* the AS's Table in iaTable.ia, or NoTable
          conn,      \* the handler of each application
          ring,      \* the ingress ring of each application
          reader,    \* the goroutine from ring to application
          dp,        \* the dataplanes
          refCount, content

appVars == <<conn, reader>>
poolVars == <<refCount, content>>
vars == <<table, appVars, ring, dp, poolVars>>

NoTable == [absent |-> TRUE]
Current == IF table = NoTable THEN NewTable ELSE table

Idle == [pc |-> "idle"]
NoContent == [kind |-> "none"]
NewConn == [phase |-> "new", ip |-> CHOOSE ip \in IP : TRUE, port |-> 0, svc |-> SvcNone, ids |-> {}]

Init ==
  /\ table = NoTable
  /\ conn = [a \in Apps |-> NewConn]
  /\ ring = [a \in Apps |-> <<>>]
  /\ reader = [a \in Apps |-> "off"]
  /\ dp = [d \in Dataplanes |-> Idle]
  /\ refCount = [p \in Packets |-> 0]
  /\ content = [p \in Packets |-> NoContent]

(* ring.closed: only Conn.Close closes a ring.                              *)
Closed(a) == conn[a].phase = "done"

(* The table's RWMutex is held by readers exactly during service lookups.   *)
Unlocked == \A d \in Dataplanes : dp[d].pc # "lookup"
-----------------------------------------------------------------------------
(* Handler goroutines.                                                      *)

(* doRegExchange up to Server.Register.  A failed registration closes the   *)
(* socket and ends the handler; the table of the AS it created stays.       *)
RegisterApp(a) ==
  /\ conn[a].phase = "new"
  /\ Unlocked
  /\ \E q \in Requests :
       LET r == Register(Current, q.ip, q.port, q.svc, a)
       IN /\ table' = r.table
          /\ IF r.ok
             THEN /\ conn' = [conn EXCEPT ![a] = [phase |-> "confirm", ip |-> q.ip, port |-> r.port,
                                                  svc |-> q.svc, ids |-> {}]]
                  /\ UNCHANGED reader
             ELSE /\ conn' = [conn EXCEPT ![a].phase = "failed"]
                  /\ reader' = [reader EXCEPT ![a] = "done"]
  /\ UNCHANGED <<ring, dp, poolVars>>

(* sendConfirmation: the handler starts the reader and serves the           *)
(* application, or closes the connection when the write fails.              *)
Confirm(a) ==
  /\ conn[a].phase = "confirm"
  /\ \/ /\ conn' = [conn EXCEPT ![a].phase = "running"]
        /\ reader' = [reader EXCEPT ![a] = "read"]
     \/ /\ conn' = [conn EXCEPT ![a].phase = "closing"]
        /\ reader' = [reader EXCEPT ![a] = "done"]
  /\ UNCHANGED <<table, ring, dp, poolVars>>

(* Conn.Write of an SCMP request: the ID is registered for the application, *)
(* unless somebody has it.  The packet is private to the goroutine.         *)
AppSends(a) ==
  /\ conn[a].phase = "running"
  /\ reader[a] # "failed"
  /\ Unlocked
  /\ \E id \in ID :
       /\ table.scmp[id] = NoApp
       /\ table' = [table EXCEPT !.scmp[id] = a]
       /\ conn' = [conn EXCEPT ![a].ids = @ \cup {id}]
  /\ UNCHANGED <<reader, ring, dp, poolVars>>

(* RunAppToNetDataplane fails to read from the socket and returns: the      *)
(* application went away, or the reader closed the socket.                  *)
HandlerEnds(a) ==
  /\ conn[a].phase = "running"
  /\ conn' = [conn EXCEPT ![a].phase = "closing"]
  /\ UNCHANGED <<table, reader, ring, dp, poolVars>>

(* Conn.Close, first regReference.Free: the table of the AS goes with the   *)
(* last reference to it.                                                    *)
FreeReference(a) ==
  /\ conn[a].phase = "closing"
  /\ Unlocked
  /\ LET t == Free(table, conn[a]) IN table' = IF t.size = 0 THEN NoTable ELSE t
  /\ conn' = [conn EXCEPT ![a].phase = "freed"]
  /\ UNCHANGED <<reader, ring, dp, poolVars>>

(* Conn.Close, then ring.Close, and the deferred close of the socket.       *)
CloseRing(a) ==
  /\ conn[a].phase = "freed"
  /\ conn' = [conn EXCEPT ![a].phase = "done"]
  /\ UNCHANGED <<table, reader, ring, dp, poolVars>>
-----------------------------------------------------------------------------
(* RunRingToAppDataplane.                                                   *)

(* Conn.Read: a closed ring is drained first.                               *)
ReadRing(a) ==
  /\ reader[a] = "read"
  /\ \/ /\ ring[a] # <<>>
        /\ reader' = [reader EXCEPT ![a] = Head(ring[a])]
        /\ ring' = [ring EXCEPT ![a] = Tail(@)]
     \/ /\ ring[a] = <<>> /\ Closed(a)
        /\ reader' = [reader EXCEPT ![a] = "done"]
        /\ UNCHANGED ring
  /\ UNCHANGED <<table, conn, dp, poolVars>>

(* Free: the last reference returns the packet, reset, to the pool.         *)
FreePacket(p) ==
  /\ refCount' = [refCount EXCEPT ![p] = @ - 1]
  /\ content' = IF refCount[p] = 1 THEN [content EXCEPT ![p] = NoContent] ELSE content

(* The packet goes to the application and is freed; when the write fails    *)
(* the socket is closed and the packet left to the garbage collector.       *)
SendToApp(a) ==
  /\ reader[a] \in Packets
  /\ \/ /\ conn[a].phase # "done"
        /\ reader' = [reader EXCEPT ![a] = "read"]
        /\ FreePacket(reader[a])
     \/ /\ reader' = [reader EXCEPT ![a] = "failed"]
        /\ UNCHANGED poolVars
  /\ UNCHANGED <<table, conn, ring, dp>>
-----------------------------------------------------------------------------
(* Dataplanes.                                                              *)

(* The references to packet p: a dataplane has one per copy still to send,  *)
(* and rings and readers have those they took over.                         *)
Copies(d) == IF dp[d].pc = "send" THEN Len(dp[d].todo) ELSE 1
PlaneRefs(p) ==
  UNION {{d} \X (1..Copies(d)) : d \in {e \in Dataplanes : dp[e].pc # "idle" /\ dp[e].pkt = p}}
RingRefs(p) == UNION {{a} \X {i \in 1..Len(ring[a]) : ring[a][i] = p} : a \in Apps}
ReaderRefs(p) == {a \in Apps : reader[a] = p}
Holders(p) == Cardinality(PlaneRefs(p)) + Cardinality(RingRefs(p)) + Cardinality(ReaderRefs(p))

(* GetPacket: a packet from the pool, or new memory, which is never memory  *)
(* somebody still refers to.                                                *)
GetPacket(p) == refCount[p] = 0 \/ Holders(p) = 0

(* Run with a UDPDestination or an SCMPDestination, up to the unlock.       *)
ReceiveUnicast(d) ==
  /\ dp[d].pc = "idle"
  /\ \E p \in Packets, dst \in Destinations :
       /\ GetPacket(p)
       /\ \E a \in CASE dst.kind = "udp" -> LookupPublic(Current, dst.ip, dst.port)
                     [] dst.kind = "scmp" -> {Current.scmp[dst.id]} \ {NoApp}
                     [] dst.kind = "svc" -> {} :
            dp' = [dp EXCEPT ![d] = [pc |-> "send", pkt |-> p, todo |-> <<a>>]]
       /\ refCount' = [refCount EXCEPT ![p] = 1]
       /\ content' = [content EXCEPT ![p] = dst]
  /\ UNCHANGED <<table, appVars, ring>>

(* Run with an SVCDestination: LookupService takes the read lock.  The nil  *)
(* address makes an anycast pick the list of any IP, a multicast visits     *)
(* them all in the map's order.                                             *)
Listening(svc) == {ip \in IP : Current.svc[svc][ip].items # <<>>}
Visit(svc, ip, mcast) ==
  [ip |-> ip, left |-> IF mcast THEN Len(Current.svc[svc][ip].items) ELSE 1]

ReceiveService(d) ==
  /\ dp[d].pc = "idle"
  /\ \E p \in Packets, dst \in Destinations :
       /\ dst.kind = "svc"
       /\ GetPacket(p)
       /\ refCount' = [refCount EXCEPT ![p] = 1]
       /\ content' = [content EXCEPT ![p] = dst]
       /\ \E ip \in Listening(dst.svc) :
            dp' = [dp EXCEPT ![d] =
              [pc |-> "lookup", pkt |-> p, dst |-> dst, at |-> Visit(dst.svc, ip, dst.mcast),
               rest |-> IF dst.mcast THEN Listening(dst.svc) \ {ip} ELSE {},
               next |-> 0, got |-> <<>>]]
  /\ UNCHANGED <<table, appVars, ring>>

List(d) == table.svc[dp[d].dst.svc][dp[d].at.ip]

(* portList.Get loads l.list, once for its value and its successor, and     *)
(* then stores the successor.                                               *)
GetLoad(d) ==
  /\ dp[d].pc = "lookup" /\ dp[d].next = 0
  /\ dp' = [dp EXCEPT ![d].got = Append(@, List(d).items[List(d).head].app),
                      ![d].next = NextOf(List(d), List(d).head)]
  /\ UNCHANGED <<table, appVars, ring, poolVars>>

(* Variants: no reference for the extra copies, and one too many.           *)
DupNone(p, n) == refCount' = refCount
(* SVCDestination.Send after the lookup: one more reference per extra copy. *)
DupAll(p, n) == refCount' = [refCount EXCEPT ![p] = @ + n - 1]

GetStore(d) ==
  /\ dp[d].pc = "lookup" /\ dp[d].next # 0
  /\ table' = [table EXCEPT !.svc[dp[d].dst.svc][dp[d].at.ip].head = dp[d].next]
  /\ \/ /\ dp[d].at.left > 1
        /\ dp' = [dp EXCEPT ![d].at.left = @ - 1, ![d].next = 0]
        /\ UNCHANGED refCount
     \/ /\ dp[d].at.left = 1
        /\ \E ip \in dp[d].rest :
             dp' = [dp EXCEPT ![d].at = Visit(dp[d].dst.svc, ip, TRUE), ![d].rest = @ \ {ip},
                              ![d].next = 0]
        /\ UNCHANGED refCount
     \/ /\ dp[d].at.left = 1 /\ dp[d].rest = {}
        /\ DupAll(dp[d].pkt, Len(dp[d].got))
        /\ dp' = [dp EXCEPT ![d] = [pc |-> "send", pkt |-> dp[d].pkt, todo |-> dp[d].got]]
  /\ UNCHANGED <<appVars, ring, content>>

(* sendPacket for the next entry: the ring takes the reference over, or it  *)
(* is closed or full and the reference is freed.                            *)
SendPacket(d) ==
  /\ dp[d].pc = "send"
  /\ LET a == Head(dp[d].todo)
         p == dp[d].pkt
         taken == ~Closed(a) /\ Len(ring[a]) < RingSize
     IN \/ /\ taken
           /\ ring' = [ring EXCEPT ![a] = Append(@, p)]
           /\ UNCHANGED poolVars
        \/ /\ ~taken
           /\ FreePacket(p)
           /\ UNCHANGED ring
  /\ dp' = [dp EXCEPT ![d] =
       IF Len(dp[d].todo) = 1 THEN Idle ELSE [dp[d] EXCEPT !.todo = Tail(@)]]
  /\ UNCHANGED <<table, appVars>>
-----------------------------------------------------------------------------
Handler(a) ==
  \/ RegisterApp(a) \/ Confirm(a) \/ HandlerEnds(a) \/ FreeReference(a) \/ CloseRing(a)
Reader(a) == ReadRing(a) \/ SendToApp(a)
Dataplane(d) ==
  \/ ReceiveUnicast(d) \/ ReceiveService(d)
  \/ GetLoad(d) \/ GetStore(d) \/ SendPacket(d)

Next ==
  \/ \E a \in Apps : Handler(a) \/ AppSends(a) \/ Reader(a)
  \/ \E d \in Dataplanes : Dataplane(d)

Spec == Init /\ [][Next]_vars
-----------------------------------------------------------------------------
Registered == {a \in Apps : conn[a].phase \in {"confirm", "running", "closing"}}

TypeOK ==
  /\ \A a \in Apps : /\ conn[a].phase \in {"new", "confirm", "running", "closing", "freed", "done",
                                           "failed"}
                     /\ reader[a] \in {"off", "read", "failed", "done"} \cup Packets
                     /\ Len(ring[a]) <= RingSize
  /\ \A p \in Packets : refCount[p] \in 0..Cardinality(Apps)

(* A packet is recycled only when nobody refers to it any more: every       *)
(* reference held by a dataplane, a ring or a reader is counted, whichever  *)
(* of the copies of a multicast is freed, refused or abandoned first.       *)
ReferencesAreCounted == \A p \in Packets : refCount[p] >= Holders(p)

(* What dst is addressed to includes the application a.                     *)
AddressedTo(dst, a) ==
  \/ /\ dst.kind = "udp"
     /\ dst.port = conn[a].port /\ Family[dst.ip] = Family[conn[a].ip]
     /\ conn[a].ip \in Unspecified \cup {dst.ip}
  \/ dst.kind = "svc" /\ dst.svc \in ServicesOf(conn[a].svc)
  \/ dst.kind = "scmp" /\ dst.id \in conn[a].ids

(* A packet in the hands of an application's goroutine, or on its way       *)
(* there, is addressed to what that application registered: also when the   *)
(* application closed, and another one registered its address, after the    *)
(* lookup; and also when the packet's buffer was recycled in between.       *)
DeliveredToAddressee ==
  \A a \in Apps, p \in Packets :
    conn[a].phase # "failed" /\ p \in ToSet(ring[a]) \cup {reader[a]}
      => AddressedTo(content[p], a)

(* The table finds every registered application under its own address, no   *)
(* wildcard or allocated port shadows it, and it hands out no other.        *)
AddressesAreUnique ==
  \A a \in Registered :
    /\ \E e \in table.udp : e = [ip |-> conn[a].ip, port |-> conn[a].port, app |-> a]
    /\ \A ip \in IP \ Unspecified :
         AddressedTo([kind |-> "udp", ip |-> ip, port |-> conn[a].port], a)
           => Route(table, ip, conn[a].port) = {a}

(* The service lists and the IDs are those of the registered applications,  *)
(* each once, through any order of registrations and frees; the table       *)
(* exists for as long as a reference to it does.                            *)
ServicesAndIDsMatch ==
  /\ Registered # {} => table # NoTable /\ table.size = Cardinality(Registered)
  /\ \A s \in Services, ip \in IP :
       LET l == Current.svc[s][ip]
       IN /\ ToSet(l.items) = {[port |-> conn[a].port, app |-> a] :
                                 a \in {b \in Registered : conn[b].ip = ip /\ s \in ServicesOf(conn[b].svc)}}
          /\ IsInjective(l.items)
          /\ l.head \in 1..Max({1, Len(l.items)})
  /\ \A id \in ID : \A a \in Apps :
       Current.scmp[id] = a <=> a \in Registered /\ id \in conn[a].ids

=============================================================================
