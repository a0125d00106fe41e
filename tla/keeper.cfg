CONSTANTS
  Modulus = 8
  MaxPerExp = 3
  Lifetime = 4
  MinDuration = 2
  BWCls = {1, 2}
  NoRsv = NoRsv
  MaxFaults = 3
SPECIFICATION Spec
INVARIANTS CompliantIsBacked ActivationHasTarget
PROPERTY StaysCovered
