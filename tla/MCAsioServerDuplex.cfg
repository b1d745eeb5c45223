SPECIFICATION DuplexSpec
CONSTANTS
  Openers = {t1, t2, t3}
  Acceptors = {"in", "out"}
  Failures = {"out"}
  MaxCalls = 2
SYMMETRY Symmetry
INVARIANTS ActiveMeansServing TrueMeansServing
\* A thread may stay in TryOpen for ever.
CHECK_DEADLOCK FALSE
