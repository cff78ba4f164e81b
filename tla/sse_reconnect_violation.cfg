SPECIFICATION BusySpec
CONSTANTS
  MaxRounds = 2
  MaxEvents = 1
PROPERTY Reconnects
CHECK_DEADLOCK FALSE
