SPECIFICATION PlanFairSpec
CONSTANTS
  s1 = s1  w1 = w1  a = a  b = b  sub = sub
  NoWave = NoWave  NoTask = NoTask  NoGroup = NoGroup
  Session = {s1}  Wave = {w1}  Task = {a, b}  Type = {sub}  Group = {}
  SessionOf <- PlanSessionOf
  Nodes <- PlanNodes
  TypeOf <- PlanTypeOf
  DependsOn <- ChainDependsOn
  Upstream <- PlanUpstream
  Rank <- PlanRank
  GroupOf <- PlanGroupOf
  ReadOnly = {}
  Overlaps = {}
  Capacity <- PlanCapacity
  Runners = {sub}
  Stoppable <- ChainStoppable
  Interrupted = {w1}  Aborting = {w1}  Waiting = {}
PROPERTIES TroubleEndsRound AbortFreesSlots
CHECK_DEADLOCK FALSE
