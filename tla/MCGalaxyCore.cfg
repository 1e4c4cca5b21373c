CONSTANTS
  Agents = {1, 2}
  Groups = {1}
  MaxReplica = 1
  Descs <- MCDescs0
  Priorities = {"Service"}
  Pools = {"p1"}
  Tags = {}
  CpuTotal = 2
  MemTotal = 2
  MaxVersion = 0
  CheckContainerVersion = TRUE
  ReportsUsage = FALSE
  NoAgent = NoAgent
  MaxRestarts = 0
SPECIFICATION Spec
INVARIANTS TypeOK AllocationAligned BookkeepingExact
