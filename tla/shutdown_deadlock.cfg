SPECIFICATION FairSpec

CONSTANTS
  MaxRollouts = 1
  Faults = {"crash"}

PROPERTIES
  EarlyDisconnectIsFatal

\* The session ends, and it can hang (see the runs that show it).
CHECK_DEADLOCK FALSE
