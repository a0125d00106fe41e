CONSTANTS
  Modulus = 8
  MaxPerExp = 3
  Lifetime = 4
  MinDuration = 2
  BWCls = {1}
  NoRsv = NoRsv
  MaxFaults = 0
SPECIFICATION FairSpec
PROPERTY StaysActive
