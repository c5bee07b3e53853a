SPECIFICATION Spec

CONSTANTS
  MaxInputs = 3
  MaxFaults = 0
  Faults = {"camera"}

INVARIANTS
  FaultyCameraIsNotUsed

\* The run ends when the controller has stopped.
CHECK_DEADLOCK FALSE
