SPECIFICATION Spec
CONSTANTS
  Adders = {handleEvents}
  Keys = {k1}
  QueueSize = 2
  MaxCalls = 2
  MaxClock = 0
  MaxDepth = 2
  Nobody = Nobody
PROPERTY FlushMovesToS3
CHECK_DEADLOCK FALSE
