SPECIFICATION Spec
CONSTANTS
  MaxItems = 4
  MaxDepth = 2
  MaxInline = 1
  MaxRollup = 1
  MaxIndeterminate = 1
  MaxMessages = 2
  MaxSetbacks = 1
  MaxTodos = 1
  MaxDelegates = 1
  MaxCrashes = 1
  MaxSplit = 2
INVARIANTS
  SplitHasChildren
PROPERTIES
    TurnEndsOrSpins
CHECK_DEADLOCK FALSE
