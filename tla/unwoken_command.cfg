SPECIFICATION FairSpec

CONSTANTS
  Unlimited = {"DEMO_DONE_REQ"}
  MaxDemos = 1
  MaxCommands = 2
  MaxFrames = 0
  MaxConnections = 2
  MaxFaults = 1
  Faults = {"slow", "garbage"}

PROPERTY DisconnectWakes

\* The run ends when the controller has stopped.
CHECK_DEADLOCK FALSE
