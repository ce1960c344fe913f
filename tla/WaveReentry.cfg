SPECIFICATION FairSpec
CONSTANTS
  s1 = s1  s2 = s2  w1 = w1  w2 = w2  a = a  b = b  c = c
  sub = sub  cli = cli  g = g
  NoWave = NoWave  NoTask = NoTask  NoGroup = NoGroup
  Session = {s1}  Wave = {w1,w2}  Task = {a,b}  Type = {sub,cli}  Group = {}
  SessionOf <- ReentrySessionOf
  Nodes <- ReentryNodes
  TypeOf <- ReentryTypeOf
  DependsOn <- ReentryDependsOn
  Upstream <- ReentryUpstream
  Rank <- ReentryRank
  GroupOf <- ReentryGroupOf
  ReadOnly = {}
  Overlaps = {}
  Capacity <- ReentryCapacity
  Runners = {sub}
  Stoppable <- ReentryStoppable
  Interrupted = {}  Aborting = {}  Waiting = {w1}
INVARIANTS DependenciesFirst ResultBeforeState
PROPERTIES Exclusive SupersededEnds
CHECK_DEADLOCK FALSE
