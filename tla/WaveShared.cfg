SPECIFICATION Spec
CONSTANTS
  s1 = s1  s2 = s2  w1 = w1  w2 = w2  a = a  b = b  c = c
  sub = sub  cli = cli  g = g
  NoWave = NoWave  NoTask = NoTask  NoGroup = NoGroup
  Session = {s1,s2}  Wave = {w1,w2}  Task = {a,b,c}  Type = {sub,cli}  Group = {g}
  SessionOf <- SharedSessionOf
  Nodes <- SharedNodes
  TypeOf <- SharedTypeOf
  DependsOn <- SharedDependsOn
  Upstream <- SharedUpstream
  Rank <- SharedRank
  GroupOf <- SharedGroupOf
  ReadOnly = {}
  Overlaps <- SharedOverlaps
  Capacity <- SharedCapacity
  Runners = {sub,cli}
  Stoppable = {}
  Interrupted = {w2}  Aborting = {w2}  Waiting = {}
INVARIANTS PoolRespected NoConflictingWorkers NoSlotLeak
CHECK_DEADLOCK FALSE
