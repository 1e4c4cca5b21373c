\* one agent moved between pools p1 and p2 at any time, fair heartbeats and
\* agent steps; SetPool, AddTag, Kill and the other operator calls are not fair
CONSTANTS
  Agents = {1}
  Groups = {1}
  MaxReplica = 1
  Descs <- MCDescs0
  Priorities = {"Service"}
  Pools = {"p1", "p2"}
  Tags = {}
  CpuTotal = 2
  MemTotal = 2
  MaxVersion = 0
  CheckContainerVersion = TRUE
  ReportsUsage = FALSE
  NoAgent = NoAgent
  MaxRestarts = 0
SPECIFICATION FairSpec
PROPERTIES AllocatingResolves OrphanDestroyed
