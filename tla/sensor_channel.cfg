SPECIFICATION FairSpec

CONSTANTS
  Unlimited = {"DEMO_DONE_REQ"}
  MaxDemos = 2
  MaxCommands = 4
  MaxFrames = 1
  MaxConnections = 2
  MaxFaults = 1
  Faults = {"slow", "error", "others", "close", "garbage"}

INVARIANTS
  AnswerIsOwn
  FrameOfThisDemo

PROPERTIES
  LossIsReported
  CommandReturns

\* The run ends when the controller has stopped.
CHECK_DEADLOCK FALSE
