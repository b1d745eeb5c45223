SPECIFICATION ServingSpec
CONSTANTS
  Sessions = {s1, s2, s3, s4}
  TransferTypes = {"SimplexIn"}
  Loops = {l1}
  SocketsLimit = 3
SYMMETRY Symmetry
INVARIANT ServedWithinLimit
\* The accepting coroutine may end and the caller may spin: then nothing is left to do.
CHECK_DEADLOCK FALSE
