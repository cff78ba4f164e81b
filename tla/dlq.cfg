SPECIFICATION Spec
CONSTANTS
  Adders = {a1, a2}
  Keys = {k1, k2}
  QueueSize = 2
  MaxCalls = 2
  MaxClock = 1
  MaxDepth = 2
  Nobody = Nobody
INVARIANTS
  TypeOK
  NothingDropped
  CloseTriesAll
PROPERTY OverwriteKeepsData
CHECK_DEADLOCK FALSE
