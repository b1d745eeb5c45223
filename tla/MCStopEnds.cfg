SPECIFICATION FairSpec
CONSTANTS
  Callers = {c1}
  Threads = {t1}
  Acceptor = TRUE
  Signals = FALSE
  Polls = FALSE
PROPERTY StopEnds
\* A caller whose Start or Poll hangs in TryOpen does nothing any more.
CHECK_DEADLOCK FALSE
