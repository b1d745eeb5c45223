SPECIFICATION FairSpec
CONSTANTS
  Sessions = {s1}
  TransferTypes = {"SimplexIn"}
  SocketsLimit = 1
  Connects = {l1, l2}
INVARIANT ClientSafe
PROPERTY SpinningEnds
