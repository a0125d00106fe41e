CONSTANTS
  r1 = r1
  r2 = r2
  ID = {r1, r2}
  In <- MCIn
  Eg <- MCEg
  MaxTicks = 2
  MaxCls = 3
  BWCls = {1, 3}
  Modulus = 2
  MaxPerExp = 1
  Lifetime = 1
  NoRsv = NoRsv
SPECIFICATION Spec
INVARIANTS ExactUntilExpiry UsageCoversBlocked
