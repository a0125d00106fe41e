CONSTANTS
  Capacity = 3
  Entry = {e1, e2}
  Nil = Nil
  Writers = {w1}
  Readers = {r1, r2}
  MaxBatch = 2
SPECIFICATION FairSpec
INVARIANTS NoLostWakeup HoldsWhatIsReadable
PROPERTIES ImplementsQueue CloseReleases
CHECK_DEADLOCK TRUE
