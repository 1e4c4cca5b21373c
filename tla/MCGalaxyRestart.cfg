\* a restart of the resource manager (Reload of the persisted groups, then
\* Start) at any point, with the agent re-registering before or after Start
CONSTANTS
  Agents = {1}
  Groups = {1}
  MaxReplica = 1
  Descs <- MCDescs6
  Priorities = {"Service"}
  Pools = {"p1", "p2"}
  Tags = {"t"}
  CpuTotal = 2
  MemTotal = 2
  MaxVersion = 0
  CheckContainerVersion = TRUE
  ReportsUsage = FALSE
  NoAgent = NoAgent
  MaxRestarts = 2
SPECIFICATION Spec
INVARIANTS AllocationAligned BookkeepingExact
PROPERTIES GroupsRefined VisitLeavesAccepted
