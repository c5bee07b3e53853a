SPECIFICATION Spec

CONSTANTS
  Streams = {"zmq", "realsense"}
  MaxDemos = 2
  MaxFrames <- MCMaxFrames
  MaxStretches = 2

INVARIANTS
  ArchiveIsTheDemo
  CountsMatchArchive
  GapsAreLosses

PROPERTIES
  ThreadsSurvive

\* The run ends.
CHECK_DEADLOCK FALSE
