CONSTANTS
  Agents = {1}
  Groups = {1}
  MaxReplica = 1
  Descs <- MCDescs2
  Priorities = {"BestEffort"}
  Pools = {"p1", "p2"}
  Tags = {}
  CpuTotal = 2
  MemTotal = 2
  MaxVersion = 1
  CheckContainerVersion = TRUE
  ReportsUsage = TRUE
  NoAgent = NoAgent
  MaxRestarts = 0
SPECIFICATION Spec
INVARIANTS AllocationAligned BookkeepingExact
PROPERTIES GroupsRefined
