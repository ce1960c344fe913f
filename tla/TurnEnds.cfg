SPECIFICATION Spec
CONSTANTS
  MaxItems = 2
  MaxDepth = 2
  MaxInline = 1
  MaxRollup = 1
  MaxIndeterminate = 1
  MaxMessages = 1
  MaxSetbacks = 0
  MaxTodos = 1
  MaxDelegates = 0
  MaxCrashes = 0
  MaxSplit = 2
PROPERTIES
  TurnEnds
CHECK_DEADLOCK FALSE
