SPECIFICATION ServerSpec
CONSTANTS
  Sessions = {s1, s2, s3}
  TransferTypes = {"SimplexIn"}
  Loops = {l1, l2}
  SocketsLimit = 1
SYMMETRY Symmetry
INVARIANTS CountNeverOverReports AdmissionBound CountAtLeastMinusOne OpenMeansAccepting
\* The accepting coroutines may end and the caller may spin: then nothing is left to do.
CHECK_DEADLOCK FALSE
