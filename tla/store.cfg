CONSTANTS
  N = 3
  MaxFaults = 1
  Modulus = 3
  MaxPerExp = 1
  Lifetime = 1
  BWCls = {1}
  NoRsv = NoRsv
  NoCall = NoCall
SPECIFICATION FairSpec
INVARIANTS SuccessIsEverywhere ConfirmedDownstream ActivationOrder
PROPERTIES EveryRequestEnds TransitImplements
