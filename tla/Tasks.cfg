SPECIFICATION FairSpec
CONSTANTS
  Stopper = {s1, s2}
  Watcher = watcher
INVARIANTS Tombstone ClosedMeansTerminal
PROPERTIES Contracted RunReturns TerminalCloses
CHECK_DEADLOCK FALSE
