SPECIFICATION Spec
CONSTANTS
  Stopper = {s1, s2}
  Watcher = watcher
INVARIANT ClosedOnce
CHECK_DEADLOCK FALSE
