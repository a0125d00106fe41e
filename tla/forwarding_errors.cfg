SPECIFICATION RouterSpec
CONSTANTS
  ASes <- mcASes
  Core <- mcCore
  Links <- mcLinks
  Router <- mcRouter
  Kinds = {"down", "sibling", "expired", "rekeyed", "truncated", "nosvc"}
INVARIANT ErrorsReturn
