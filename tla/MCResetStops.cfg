SPECIFICATION Spec
CONSTANTS
  Bytes = {170}
  BufferSize = 3
  MaxTaken = 1
  Names = {97}
  Contents <- MCContents
  Digits = {"0", "7"}
  Uppers = {"B"}
  Lowers = {"a"}
  Symbols = {"+", "~"}
  Ambiguous = {"0", "B"}
  Vowels = {"0", "a"}
  MinLength = 2
  Lengths = {1, 3}
  Removings = {{}, {"7"}, {"+"}, {"+", "~"}}
  Walkers = {"w1", "w2"}
  Lists <- MCFileList
  Directories = {}
  Entries <- MCNoEntries
  Unmatched = {}
  MaxResets = 1
  Packages = {"p", "q"}
  Texts <- MCTexts
  MaxContent = 1
  MaxSent = 1
  Pools = {"a", "b"}
  Elements = {"e"}
  Numbers = {"0"}
  MaxSize = 2
  Watchable <- MCPaths
  MaxRuns = 2
  Cells = {"x", "y"}
  Codes = {"e1"}
  Setters = {"t1", "t2"}
  Sessions = {"s1", "s2"}
  TransferTypes = {"SimplexIn", "SimplexOut"}
  Listeners = {"l1", "l2"}
  SocketsLimit = 2
  MaxLost = 1
PROPERTY ResetStops
\* Two walks over files; the bound MaxTaken ends the stream of packages.
CHECK_DEADLOCK FALSE
