SPECIFICATION FairSpec
CONSTANTS
  MaxRounds = 3
  MaxEvents = 2
INVARIANTS
  TypeOK
  OneLiveReader
  HandledOnce
  AtMostOneMoreRound
PROPERTIES
  ListenersLeave
CHECK_DEADLOCK FALSE
