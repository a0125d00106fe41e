CONSTANTS
  a1 = a1
  a2 = a2
  p1 = p1
  p2 = p2
  Apps <- mcApps
  Dataplanes <- mcDataplanes
  d4 = d4
  d6 = d6
  Packets <- mcPackets
  RingSize = 1
  Requests <- mcRequests
  Destinations <- mcDestinations
  IP = {"0.0.0.0", "10.0.0.1", "fd00::1"}
  Family <- mcFamily
  Unspecified = {"0.0.0.0"}
  MinPort = 2
  MaxPort = 3
  Services = {"CS", "DS"}
  Wildcard = "*"
  WildcardServices = {"CS", "DS"}
  SvcNone = "none"
  ID = {7}
  NoApp = NoApp
SPECIFICATION Spec
CHECK_DEADLOCK FALSE
INVARIANT ReferencesAreCounted
INVARIANT DeliveredToAddressee
INVARIANT AddressesAreUnique
INVARIANT ServicesAndIDsMatch
SYMMETRY mcSymmetry
