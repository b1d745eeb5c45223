SPECIFICATION FairServerSpec
CONSTANTS
  Sessions = {s1, s2}
  TransferTypes = {"SimplexIn"}
  Loops = {l1}
  SocketsLimit = 2
PROPERTY OneWaySessionEnds
\* The accepting coroutine may end and the caller may spin: then nothing is left to do.
CHECK_DEADLOCK FALSE
