SPECIFICATION FairSpec

CONSTANTS
  MaxInputs = 3
  MaxFaults = 2
  Faults = {"command", "check", "fatal", "camera", "exit", "disk", "monitor", "interrupt"}

INVARIANTS
  ControllerMatchesDevices
  NeverConfused
  EveryDemoSettled
  LossIsReported

PROPERTIES
  ManifestTruthful
  FatalEnds

\* The run ends when the controller has stopped.
CHECK_DEADLOCK FALSE
