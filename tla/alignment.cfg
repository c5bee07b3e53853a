SPECIFICATION FairSpec

CONSTANTS
  CameraCount = 2
  Scalars = {"robot"}
  SpanWarn = 2
  Inputs <- MCInputs
  ImageTolerance <- MCImageTolerance
  ScalarTolerance <- MCScalarTolerance

INVARIANTS
  BundlesAdvance
  NoBlindStep
  ValidSampleIsCoherent
  MatchIsRight

PROPERTIES
  AlignmentEnds

\* The call returns.
CHECK_DEADLOCK FALSE
