SPECIFICATION FairSessionSpec
CONSTANTS
  Sessions = {s1, s2}
  TransferTypes = {"SimplexIn", "SimplexOut", "HalfDuplexIn", "HalfDuplexOut"}
INVARIANTS StoppedSessionDrains FirstTransferIsWatched AfterStopRuns
PROPERTIES OneTransferAtATime FirstTransferEnds OneWaySessionEnds ServesConnection
CHECK_DEADLOCK TRUE
