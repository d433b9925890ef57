SPECIFICATION Spec
CONSTANTS
  c1 = c1
  c2 = c2
  s1 = s1
  s2 = s2
  Clients = {c1, c2}
  Shards = {s1, s2}
  ShardOf <- MCShardOf
  Filters <- MCFilters
  Topics <- MCTopics
  Opts = {o1, o2}
  MaxCalls = 5
  Idle = Idle
INVARIANTS WellFormed  ExactWithoutOverlap
CHECK_DEADLOCK FALSE
SYMMETRY Symmetry
