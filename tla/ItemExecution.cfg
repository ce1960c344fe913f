SPECIFICATION Spec
CONSTANTS
  Budget = 4
  SystemSize = 0
  RoundSizes = {1, 2}
  MaxIters = 2
  MaxExecutions = 3
  MaxFaults = 2
INVARIANTS PromptPaired RoundsKept EvidenceSeen
CHECK_DEADLOCK FALSE
