CONSTANTS
  Modulus = 5
  MaxPerExp = 2
  Lifetime = 3
  BWCls = {1}
  NoRsv = NoRsv
SPECIFICATION Spec
INVARIANTS WindowStaysValid ActiveIsFirst LookupIsExact RenewalIsAccepted ReloadIsIdentity
PROPERTY SwitchForward
