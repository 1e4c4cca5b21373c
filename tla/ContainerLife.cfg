\* the containers of one agent with the host's process table, cgroups,
\* volumes and memory: refinement of AgentHost and release of resources
CONSTANTS
  Ids = {c1}
  Pids = {1, 2}
  NCg = 2
  MemLimit = 1
  MaxMem = 2
  Width = 2
SPECIFICATION Spec
INVARIANTS CTypeOK ResourcesReleased
PROPERTY HostRefined
