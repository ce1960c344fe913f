SPECIFICATION Spec
CONSTANTS
  MaxItems = 3
  MaxDepth = 2
  MaxBlockers = 1
  MaxFailedSaves = 1
INVARIANTS
  LockedIffTerminal
  Acyclic
  Rooted
  NoLostBlocker
PROPERTIES
  EndedStaysEnded
CHECK_DEADLOCK FALSE
