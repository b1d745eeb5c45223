SPECIFICATION FairSpec
CONSTANTS
  Callers = {c1}
  Threads = {t1, t2}
  Acceptor = TRUE
  Signals = TRUE
  Polls = TRUE
INVARIANT ActiveHasThread
PROPERTIES EndsOnlyByStop StartActivates
\* A caller whose Start or Poll hangs in TryOpen does nothing any more.
CHECK_DEADLOCK FALSE
