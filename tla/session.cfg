SPECIFICATION FairMCSpec

CONSTANTS
  MaxRollouts = 2
  Faults = {"complete", "abort", "report", "rosbag", "sensor", "crash", "error", "slow", "reject",
            "interrupt", "disk", "health"}

INVARIANTS
  IdleMeansQuiescent
  NoDeferredCommand
  ManifestRecordsMode
  WorkerGoneBeforeTeardown

PROPERTIES
  DoneMeansSettled
  StoppedSensorsStayStopped
  DiscardBeforeStop
  IntentNotWithdrawn
  RolloutManifestIsFinal
  TerminationSpec
  FailStopFinalizes
  RolloutSettles

\* The session ends, and it can hang (see the runs that show it).
CHECK_DEADLOCK FALSE
