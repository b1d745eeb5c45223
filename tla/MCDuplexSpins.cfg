SPECIFICATION DuplexSpec
CONSTANTS
  Openers = {t1, t2}
  Acceptors = {"in", "out"}
  Failures = {}
  MaxCalls = 1
PROPERTY StartComesThrough
CHECK_DEADLOCK FALSE
