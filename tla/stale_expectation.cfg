SPECIFICATION Spec

CONSTANTS
  MaxRestarts = 1
  MaxLines = 1
  Faults = {"fatal", "exit"}

PROPERTIES
  UnexpectedExitIsFatal

\* Startup ends ready, or run() returns.
CHECK_DEADLOCK FALSE
