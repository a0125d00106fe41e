---------------------------- MODULE Registration ----------------------------
(***************************************************************************)
(* The registration table of one AS in the dispatcher                      *)
(* (go/dispatcher/internal/registration): the UDP port table, the service  *)
(* table with its round-robin port lists, and the table of SCMP IDs, as    *)
(* operators on one record.                                                *)
(*                                                                         *)
(*   udp       the entries of the v4 and v6 port tables                    *)
(*   nextPort  the allocator's next candidate                              *)
(*   svc       svc[s][ip] is the port list of service s on ip, empty when  *)
(*             the maps hold none; items is the ring in Next() order and   *)
(*             head the position of l.list in it                           *)
(*   scmp      the owner of each SCMP ID, or NoApp                         *)
(*   size      the number of references handed out                         *)
(***************************************************************************)
EXTENDS Integers, Sequences, SequencesExt, FiniteSetsExt

CONSTANTS IP, Family,    \* addresses, and "v4" or "v6" for each
          Unspecified,   \* the addresses 0.0.0.0 and ::
          MinPort, MaxPort,
          Services,      \* the services a registration may name
          Wildcard,      \* SvcWildcard: registers for every one of WildcardServices
          WildcardServices,
          SvcNone,
          ID,            \* SCMP identifiers
          NoApp

ASSUME RegistrationAssumption ==
  /\ Unspecified \subseteq IP
  /\ MinPort \in Nat \ {0} /\ MaxPort \in Nat /\ MinPort <= MaxPort
  /\ WildcardServices \subseteq Services
  /\ Wildcard \notin Services /\ SvcNone \notin Services \cup {Wildcard}

EmptyList == [items |-> <<>>, head |-> 1]

NewTable ==
  [udp |-> {},
   nextPort |-> MinPort,
   svc |-> [s \in Services |-> [ip \in IP |-> EmptyList]],
   scmp |-> [id \in ID |-> NoApp],
   size |-> 0]
-----------------------------------------------------------------------------
(* The UDP port table.                                                      *)

SamePort(t, ip, port) == {e \in t.udp : e.port = port /\ Family[e.ip] = Family[ip]}

(* IPTable.Route: the entry for the zero address comes before an exact one. *)
Route(t, ip, port) ==
  LET any == {e \in SamePort(t, ip, port) : e.ip \in Unspecified}
      exact == {e \in SamePort(t, ip, port) : e.ip = ip}
  IN IF any # {} THEN {e.app : e \in any} ELSE {e.app : e \in exact}

(* Variant: one port table for both address families.                       *)
LookupPublicAnyFamily(t, ip, port) ==
  IF ip \in Unspecified THEN {} ELSE {e.app : e \in {f \in t.udp : f.port = port}}

LookupPublic(t, ip, port) == IF ip \in Unspecified THEN {} ELSE Route(t, ip, port)

(* Variant: a registration for the zero address only collides with itself.  *)
overlapsExactly(t, ip, port) == \E e \in SamePort(t, ip, port) : e.ip = ip

overlapsWith(t, ip, port) ==
  \/ ip \in Unspecified /\ SamePort(t, ip, port) # {}
  \/ Route(t, ip, port) # {}

(* Allocate tries every port once, starting at nextPort.                    *)
Candidate(t, i) == MinPort + ((t.nextPort - MinPort + i) % (MaxPort - MinPort + 1))
FreeCandidates(t, ip) ==
  {i \in 0..(MaxPort - MinPort) : ~overlapsWith(t, ip, Candidate(t, i))}

(* Insert: the tables with the new entry and the port it got, or nothing.   *)
Insert(t, ip, port, app) ==
  IF overlapsWith(t, ip, port) THEN {}
  ELSE IF port # 0
  THEN {[table |-> [t EXCEPT !.udp = @ \cup {[ip |-> ip, port |-> port, app |-> app]}],
         port |-> port]}
  ELSE IF FreeCandidates(t, ip) = {} THEN {}
  ELSE LET i == Min(FreeCandidates(t, ip))
           p == Candidate(t, i)
       IN {[table |-> [t EXCEPT !.udp = @ \cup {[ip |-> ip, port |-> p, app |-> app]},
                                !.nextPort = Candidate(t, i + 1)],
            port |-> p]}

RemoveUDP(t, ip, port) ==
  [t EXCEPT !.udp = {e \in @ : ~(e.ip = ip /\ e.port = port)}]
-----------------------------------------------------------------------------
(* The port lists.                                                          *)

(* The list starting at position k of the ring.                             *)
From(l, k) == SubSeq(l.items, k, Len(l.items)) \o SubSeq(l.items, 1, k - 1)
NextOf(l, k) == (k % Len(l.items)) + 1

(* portList.Insert links the new element behind the head.                   *)
ListInsert(l, item) ==
  IF l.items = <<>> THEN [items |-> <<item>>, head |-> 1]
  ELSE LET r == From(l, l.head)
       IN [items |-> <<r[1], item>> \o Tail(r), head |-> 1]

(* Variant: Unlink(1) on the element instead of its predecessor.            *)
ListRemoveSuccessor(l, port) ==
  LET k == CHOOSE i \in 1..Len(l.items) : l.items[i].port = port
      r == From(l, k)
  IN IF Len(r) = 1 THEN EmptyList
     ELSE [items |-> <<r[1]>> \o SubSeq(r, 3, Len(r)), head |-> 1]

(* portList.Remove makes the predecessor of the removed element the head.   *)
ListRemove(l, port) ==
  LET k == CHOOSE i \in 1..Len(l.items) : l.items[i].port = port
      r == From(l, k)
  IN IF Len(r) = 1 THEN EmptyList
     ELSE [items |-> <<Last(r)>> \o SubSeq(r, 2, Len(r) - 1), head |-> 1]

Find(l, port) == \E i \in 1..Len(l.items) : l.items[i].port = port

ServicesOf(svc) ==
  IF svc = Wildcard THEN WildcardServices ELSE Services \cap {svc}

(* svcTable.Register: nothing on a zero IP, a zero port or a taken entry.   *)
RegisterSVC(t, svc, ip, port, app) ==
  IF ip \in Unspecified \/ port = 0 \/ (\E s \in ServicesOf(svc) : Find(t.svc[s][ip], port))
  THEN {}
  ELSE {[t EXCEPT !.svc = [s \in Services |->
           IF s \in ServicesOf(svc)
           THEN [@[s] EXCEPT ![ip] = ListInsert(@, [port |-> port, app |-> app])]
           ELSE @[s]]]}

FreeSVC(t, svc, ip, port) ==
  [t EXCEPT !.svc = [s \in Services |->
     IF s \in ServicesOf(svc) THEN [@[s] EXCEPT ![ip] = ListRemove(@, port)] ELSE @[s]]]
-----------------------------------------------------------------------------
(* Table.Register: the resulting table, and the assigned port when the      *)
(* registration succeeded.  The service entry is made for the requested     *)
(* port, and a failure of it removes the requested address again.           *)
Register(t, ip, port, svc, app) ==
  LET ins == Insert(t, ip, port, app)
      u == CHOOSE r \in ins : TRUE
      withSvc == IF svc = SvcNone THEN {u.table} ELSE RegisterSVC(u.table, svc, ip, port, app)
  IN IF ins = {} THEN [ok |-> FALSE, table |-> t]
     ELSE IF withSvc = {} THEN [ok |-> FALSE, table |-> RemoveUDP(u.table, ip, port)]
     ELSE [ok |-> TRUE, port |-> u.port,
           table |-> [(CHOOSE w \in withSvc : TRUE) EXCEPT !.size = @ + 1]]

(* TableReference.Free: the UDP entry, the service entries and the IDs.     *)
Free(t, ref) ==
  LET u == RemoveUDP(t, ref.ip, ref.port)
      s == IF ref.svc = SvcNone THEN u ELSE FreeSVC(u, ref.svc, ref.ip, ref.port)
  IN [s EXCEPT !.size = @ - 1,
               !.scmp = [id \in ID |-> IF id \in ref.ids THEN NoApp ELSE @[id]]]
=============================================================================
