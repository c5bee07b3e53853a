SPECIFICATION FairSpec

CONSTANTS
  MaxRestarts = 1
  MaxLines = 1
  Faults = {"fatal", "exit", "report", "service", "sensor", "worker", "slow"}

INVARIANTS
  NoOrphan

PROPERTIES
  ReadyMeansCamerasSeen
  WarmupFinalizedFirst
  FailStopFinalizes

\* Startup ends ready, or run() returns.
CHECK_DEADLOCK FALSE
