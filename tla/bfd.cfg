CONSTANTS
  A = A
  B = B
  Sessions = {A, B}
  NoDisc = NoDisc
  Peer <- MCPeer
  DesiredMinTxInterval <- MCTx
  RequiredMinRxInterval <- MCRx
  DetectMult <- MCMult
  DefaultTx = 4
  DefaultDetect = 4
  MaxDelay = 1
  MaxLoss = 1
  MaxRestarts = 1
  MayCut = {A}
  Foreign = {}
SPECIFICATION FairSpec
INVARIANTS DetectionBound UpNeedsBothDirections NoFalseAlarm
PROPERTIES EventuallyUp BrokenLinkGoesDown
CHECK_DEADLOCK TRUE
