---------------------------- MODULE MCDispatcher ----------------------------
(* Small instances of Dispatcher. *)
EXTENDS Dispatcher

CONSTANTS a1, a2, p1, p2, d4, d6

mcApps == {a1, a2}
mcDataplanes == {d4, d6}
mcPackets == {p1, p2}
mcFamily == [ip \in {"0.0.0.0", "10.0.0.1", "fd00::1"} |-> IF ip = "fd00::1" THEN "v6" ELSE "v4"]
mcSvc(m) == [kind |-> "svc", svc |-> "CS", mcast |-> m]
mcDestinations ==
  {[kind |-> "udp", ip |-> "10.0.0.1", port |-> 2], mcSvc(TRUE), mcSvc(FALSE),
   [kind |-> "scmp", id |-> 7]}
mcRequests ==
  {[ip |-> "10.0.0.1", port |-> 2, svc |-> "CS"], [ip |-> "10.0.0.1", port |-> 3, svc |-> "*"],
   [ip |-> "0.0.0.0", port |-> 2, svc |-> "none"], [ip |-> "10.0.0.1", port |-> 0, svc |-> "none"],
   [ip |-> "10.0.0.1", port |-> 0, svc |-> "CS"], [ip |-> "fd00::1", port |-> 2, svc |-> "none"]}
mcSymmetry == Permutations(mcApps) \cup Permutations(mcPackets) \cup Permutations(mcDataplanes)
=============================================================================
