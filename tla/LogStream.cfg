SPECIFICATION LogSpec
CONSTANTS
  Retries = 10
  Log <- MCLog
CHECK_DEADLOCK FALSE
INVARIANTS ExitZeroIsServersWord WholeStreamIsHeard
PROPERTIES ClientEnds
