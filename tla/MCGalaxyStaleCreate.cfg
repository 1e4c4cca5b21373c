CONSTANTS
  Agents = {1}
  Groups = {1}
  MaxReplica = 1
  Descs <- MCDescs1
  Priorities = {"Service"}
  Pools = {"p1"}
  Tags = {}
  CpuTotal = 2
  MemTotal = 2
  MaxVersion = 1
  CheckContainerVersion = TRUE
  ReportsUsage = FALSE
  NoAgent = NoAgent
  MaxRestarts = 0
SPECIFICATION Spec
INVARIANT RunMatchesCharge
