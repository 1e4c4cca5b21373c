CONSTANTS
  Agents = {1}
  Groups = {1}
  MaxReplica = 2
  Descs <- MCDescs5
  Priorities = {"Service"}
  Pools = {"p1"}
  Tags = {}
  CpuTotal = 2
  MemTotal = 2
  MaxVersion = 0
  CheckContainerVersion = TRUE
  ReportsUsage = FALSE
  NoAgent = NoAgent
  MaxRestarts = 0
SPECIFICATION Spec
INVARIANTS AllocationAligned BookkeepingExact
