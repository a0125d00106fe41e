SPECIFICATION Spec
CONSTANTS
  MaxCls = 8
  Rsvs <- mcRsvs
  Path <- mcPath
  Segments <- mcSegments
  Segs <- mcSegs
  SegPath <- mcSegPath
  PathType <- mcPathType
  SegBW <- mcSegBW
  Requests <- mcRequests
  Split <- mcSplit
  Modulus = 4
  MaxPerExp = 1
  Lifetime = 2
  Deadline = 1
  WordSize = 4096
  MaxRequests = 3
  MaxFaults = 1
INVARIANTS  TokenIsBacked 
