\* a killed group whose agent SetPool moves out of the group's pool while
\* its pod is Destroying
CONSTANTS
  Agents = {1}
  Groups = {1}
  MaxReplica = 1
  Descs <- MCDescs0
  Priorities = {"Service"}
  Pools = {"p1", "p2"}
  Tags = {}
  CpuTotal = 2
  MemTotal = 2
  MaxVersion = 0
  CheckContainerVersion = TRUE
  ReportsUsage = FALSE
  NoAgent = NoAgent
  MaxRestarts = 0
SPECIFICATION FairSpec
PROPERTIES KilledGroupCollected
