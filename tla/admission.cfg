CONSTANTS
  r1 = r1
  r2 = r2
  r3 = r3
  ID = {r2, r3}
  LastStep = {r2, r3}
  Src <- MCSrc
  In <- MCIn
  Eg <- MCEg
  CapIn <- MCCapIn
  CapEg <- MCCapEg
  Delta <- MCDelta
  WordSize = 1024
  MaxCls = 4
  BWCls = {0, 1, 2, 3, 4}
  MaxBWs = {4}
  PrevBWs = {16, 45}
  Modulus = 2
  MaxPerExp = 1
  Lifetime = 1
  NoRsv = NoRsv
SPECIFICATION Spec
INVARIANTS NeverOvercommitted IdealIsAShare
