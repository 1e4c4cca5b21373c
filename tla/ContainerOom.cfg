\* OomCheckRoutine reads usage and cache at two moments and subtracts
\* them as uint64: cache growing in between wraps the difference
CONSTANTS
  Ids = {c1}
  Pids = {1, 2}
  NCg = 2
  MemLimit = 1
  MaxMem = 2
  Width = 2
SPECIFICATION Spec
INVARIANT OomKillJustified
