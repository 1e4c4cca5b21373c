# TLA+ models of Galaxy's resource manager, agents and AppMaster

These modules model the core of Galaxy's cluster manager: the resource
manager's `Scheduler` and its `Agent` resource model
(`src/src/resman/scheduler.cc`), the agents' container lifecycle
(`src/src/agent/container/container.cc`) and the AppMaster's job service
(`src/src/appmaster/appmaster_impl.cc`). TLC checks them.

## The system

- **Scheduler** (`scheduler.cc`, one mutex `mu_`).
  - It keeps container groups. Each group has a replica count, a priority, a
    requirement with a version, the `container_desc` it sends to agents, and
    per-status buckets (`states`) of its containers `pod_0 .. pod_{n-1}`.
  - It keeps a queue of groups, and the agents (`agents_`) with their pools
    and frozen set.
  - Users call `Submit`, `Update`, `ChangeReplica` (`ScaleUp`/`ScaleDown`),
    `Kill` and `ManualSchedule`. `Kill` leaves `CheckContainerGroupGC` on a
    thread pool.
  - The placement loop `ScheduleNextAgent` visits the agents one at a time in
    endpoint order and skips frozen ones. On each agent it runs
    `CheckVersion` (under `--check_container_version`) and `CheckTagAndPool`,
    then tries one pending container per group with `Agent::TryPut`/`Put`.
  - `ManualSchedule` puts a group's first pending container on a named agent,
    evicting the agent's containers back to Pending, BestEffort ones first,
    until `TryPut` succeeds.
- **Agent resource model** (`Agent` in `scheduler.cc`). An agent has
  hard-assigned cpu and memory, "deep" totals for BestEffort containers, a
  reserved baseline from reported usage, volumes per device path (size and an
  exclusive flag), assigned ports and its containers map. `TryPut` checks
  feasibility, `Put` charges a container and `Evict` releases it. Devices are
  chosen by a backtracking search (`SelectDevices`, `RecurSelectDevices`);
  dynamic ports by a scan from a random start (`SelectFreePorts`).
- **Heartbeats.** An agent reports its containers: id, status and description
  version. `MakeCommand` answers with DESTROYs for containers that are unknown
  or have the wrong version, moves each local container along its lifecycle
  from the reported status, and sends a CREATE for one still Allocating. The
  resource manager registers an unknown agent with `AddAgent`, which adopts
  the Ready containers it reports, and drops an agent whose heartbeats time
  out with `RemoveAgent`. The RPC service around these calls is not under
  `src/`; the steps it takes come from the specification.
- **Agent containers** (`container.cc`). `Construct` goes
  Allocating → Ready/Error. `Destroy` goes Destroying → Terminated/Error, or
  back to Ready while the appworker is still alive before the kill timeout.
  `KeepAlive` moves Ready → Finish/Error when the process is gone.
- **AppMaster** (`appmaster_impl.cc`). `SubmitJob`, `UpdateJob` (update and
  rollback) and `RemoveJob` send an asynchronous request to the resource
  manager (5 s timeout, no retry) and return. The callback records the outcome
  in `job_manager_`. A timed-out request may still be carried out. A restart
  of the AppMaster (lost nexus lock) reloads the job manager.
- **Resource manager restart.** A new `Scheduler` starts with `stop_` set, no
  agents and no containers. `Reload` is called for every persisted
  `ContainerGroupMeta` (id, replica, update interval, terminated status and
  `container_desc`); `Start` then calls `ChangeReplica` on every group and
  `Kill` on the terminated ones, and starts the placement loop. Agents come
  back by registering, and `AddAgent` adopts the containers they still run.
- **Inside a container** (`container.cc`, `galaxy_memory_subsystem.cc`).
  `Construct_` builds the description's cgroups one by one (rolling back on a
  failure), then the volum group, then clones the appworker. `Destroy_` kills
  the appworker's pid, destroys the cgroups and the volum group. The agent
  reaps an exited appworker at once (`SigChldHandler`), so its pid is free for
  the kernel to reuse. `OomCheckRoutine` reads the cgroup's usage and cache
  and kills the appworker when their difference exceeds the limit.

## Modules

| Module | Models | State |
|---|---|---|
| `Scheduler` | every scheduler operation and the cpu, memory, tmpfs, tag, pool and fixed-port dimensions of the agent model | `agents`, `freezed`, `pool`, `tags`, the totals, `agentContainers`; per group `groups`, `queue`, `terminated`, `replica`, `require`, `gdesc`, `priority`, `updateInterval`, `due`, `lastSched`; per container `status`, `states`, `allocAgent`, `creq`, `cprio`; `schedAfter`, `stop`, `restarts` |
| `AgentDevices` | the device and port dimensions of one agent: `SelectDevices`, `RecurSelectDevices`, `SelectFreePorts`, and those parts of `TryPut`, `Put`, `Evict` | `placed`, `volAssigned`, `portAssigned`, `allocVols`, `allocPorts` |
| `AgentHost` | the containers each agent runs and its handling of commands | `hstatus`, `hdesc`, `inbox` |
| `Container` | one agent's containers in detail: `Construct_`'s steps, `Destroy` (kill timeout, SIGTERM, `Destroy_`), `KeepAlive`, the OOM check, and the host (process table, cgroups, volumes, memory) | `status`, `inbox`, `obj` (step, cgroups built, pid, kill deadline, age, exit file), `cgLive`, `vol`, `procs`, `rss`, `cache`, `oomUsage`, `oomRss`, `oomUnjust` |
| `Galaxy` | the composition: heartbeats, registration, timeouts, fairness, properties, the refinement of `GroupStore` | both of the above (`AgentHost` is INSTANCEd) |
| `GroupStore` | the abstract resource manager seen by clients: a group id is created once, holds its last description, stays killed, is eventually erased | `rmStatus`, `rmDesc` |
| `AppMaster` | the job service and its callbacks against `GroupStore` (INSTANCEd as the RM) | `running`, `jmStatus`, `jmDesc`, `jmLast`, `calls`, and the RM's state |
| `MCGalaxy`, `MCAgentDevices`, `MCAppMaster` | constants for TLC | — |

How the code becomes TLA+:

- Each scheduler operation is one action or one helper on a state record
  (`SchedState`, written back by `Commit`). A loop over a map is `FoldLeft`
  over the ids in the map's order (`Sorted`).
- `ManualSchedule` sorts the victims with `ContainerPriorityLess`, which is
  not under `src/`; `VictimOrders` allows every order that puts BestEffort
  containers before the others, and the action takes any of them.
- `RecurSelectDevices` is a `RECURSIVE` operator whose inner `Try` walks the
  free devices in map order. It threads `path_used` through the recursion the
  way the C++ shares it by reference, erase on backtracking included.
- `SelectFreePorts` takes the value of `rand()` as an input: `RandomStarts`
  are every start the expression can give. `TryPut` and `Put` each pick their
  own, as the code calls `rand()` twice. Ports are numbers (the code keeps
  decimal strings) and `Dynamic` is 0.
- Time is the flag `due[g]` (the pacing interval has passed). Usage is the set
  of containers whose usage reaches their request. Versions are numbers:
  clients send 0 and `Update` mints 1..`MaxVersion`.
- The AppMaster's `JobManager` is not under `src/`; its operations are
  modelled from the specification and marked so in `PROJECT.json`.
- `Reload` resets everything a new `Scheduler` has and keeps the group maps
  (the persisted meta); `require` is rebuilt from `gdesc`, the stored
  `container_desc`. `Start` is one action: the loop over groups in id order
  of `Rescale` (the scaling of `ChangeReplica`) or `KillGroup` (the loop of
  `Kill`). The code releases `mu_` between the groups; with one group, as in
  the runs, the atomic step is exact. `stop` blocks the placement loop between
  the two, and `MaxRestarts` bounds the restarts.
- `Container` keeps one agent's commands (`inbox`) and statuses the way
  `AgentHost` does, and shows that it implements `AgentHost` for that agent:
  `HostRefined` is `AgentHost`'s specification under `INSTANCE ... WITH`
  mapping `Container`'s `status` and `inbox` to the agent's. Cgroup, volum
  group, process and kill calls succeed or fail nondeterministically. The
  OOM check's unsigned subtraction is `% 2^Width`.
- `Galaxy` shows that the scheduler implements `GroupStore`: a refinement
  mapping from the group maps to `rmStatus`/`rmDesc`, and `GroupsRefined`
  (`GS!GSSpec`) checked as a property.

`PROJECT.json` maps every definition to the lines it models. The operators
named `…NoEvict`, `…KeepExcl`, `…FirstFit` and so on are variants of a mapped
definition with one plausible bug, each defined just before it.

## Runs

In `MCGalaxy`, `CpuTotal = MemTotal = 2`: two Small containers or one Big fill
an agent.

| Run | Bounds | Checks | Result |
|---|---|---|---|
| core | 2 agents, 1 pod, Small | TypeOK, AllocationAligned, BookkeepingExact | pass |
| rollout | 1 agent, 1 BestEffort pod, Small/Web, pools p1/p2, 1 minted version, usage | AllocationAligned, BookkeepingExact, GroupsRefined | pass |
| live | 1 agent in p1/p2, 1 pod, fairness | AllocatingResolves, OrphanDestroyed | pass |
| restart | 1 agent in p1/p2 with or without tag t, 1 pod needing t and p1, up to 2 restarts | AllocationAligned, BookkeepingExact, GroupsRefined, VisitLeavesAccepted | pass |
| container | 1 container, 2 cgroups, pids 1..2, limit 1, memory 0..2, 2-bit arithmetic | CTypeOK, ResourcesReleased, HostRefined | pass |
| devices | 1 agent, 3 devices, ports 1..4, 4 containers, 4 requirements | ADTypeOK, VolumesExact, PortsExact, SelectComplete | pass |
| appmaster | 2 jobs, 2 descriptions, 2 requests in flight | AMTypeOK, RemovedJobKilled | pass |
| killed_requeued | as live | KilledGroupCollected | violated |
| stale_create | 1 agent, 1 pod, Small/Big | RunMatchesCharge | violated |
| appmaster_leak | as appmaster | JobsMatchGroups | violated |
| pid_reuse | as container | OthersUntouched | violated |
| oom_false_kill | as container | OomKillJustified | violated |

### What the properties say

- **AllocationAligned**: a container that holds resources sits in the
  containers map of the registered agent it is allocated to; a Pending
  container has no agent.
- **BookkeepingExact**: an agent's hard, deep and port totals are exactly what
  its containers add up to.
- **GroupsRefined**: every behaviour of the scheduler, seen through the
  group maps, is a behaviour of `GroupStore`.
- **AllocatingResolves**, **OrphanDestroyed**: a placed container does not
  stay Allocating; a container an agent runs that the scheduler does not
  hold there is eventually destroyed or adopted.
- **KilledGroupCollected** (violated): a killed group is eventually erased by
  `CheckContainerGroupGC`.
- **VolumesExact**, **PortsExact**: `volum_assigned_` and `port_assigned_`
  equal what the placed containers hold, after any placements and evictions.
  `ADTypeOK` also bounds each device's assigned size by its total.
- **SelectComplete**: the backtracking search accepts every request some
  valid choice of devices (medium, size, exclusivity) satisfies.
- **RemovedJobKilled**: a job the AppMaster records as removed has no live
  group at the resource manager.
- In the restart run, **AllocationAligned**, **BookkeepingExact** and
  **GroupsRefined** say that a restart at any point, with agents registering
  before or after `Start`, loses no allocation, charges no adopted container
  twice, and neither revives a killed group nor forgets a live one.
- **VisitLeavesAccepted**: after the placement loop visits an agent, every
  container left on it is accepted by the agent's current tags and pool.
  `RemoveTag` and `SetPool` change an agent under its placed containers.
  `CheckTagAndPool` must evict those it no longer accepts, and `TryPut` and
  preemption must place only accepted ones. The property states acceptance
  itself, not through `CheckTagAndPoolOnce`.
- **ResourcesReleased**: a container the agent reports Terminated (or has
  reaped) has no cgroup, no volum group and no process left.
- **HostRefined**: every behaviour of `Container` is a behaviour of
  `AgentHost` for one agent.
- **OthersUntouched**, **OomKillJustified** (violated): no step of the agent
  kills a process that is not one of its appworkers; the OOM check kills only
  an appworker whose rss exceeded the limit.

Each mutant in `PROJECT.json` is one plausible bug in the code, and TLC finds
it with the run's own bounds.

### What the violations show

Each violation has a finding in `PROJECT.json`.

- **A no-difference Update writes the client's version** into
  `container_desc` (`scheduler.cc:1341`), so `MakeCommand`'s version check
  accepts a CREATE whose resources differ from the charge (stale_create).
  The same write also blocks progress. Once `require` holds a minted version,
  every CREATE carries the client's version 0. The agent's container never
  matches the charged version, and the scheduler's container stays Allocating
  forever. `MCGalaxyLive.cfg` with `Pools = {"p1"}`, `MaxVersion = 1`,
  `Descs <- MCDescs1` and `PROPERTY AllocatingResolves` shows it (274k
  states). After a restart
  `require` is rebuilt from that `container_desc`, and every container of the
  group is redeployed.
- **A killed group's pod is re-queued** (`scheduler.cc:1101`).
  `CheckTagAndPool` sends every container the agent no longer accepts to
  Pending, whatever its status (killed_requeued). The group is killed while
  its pod is placed, so the pod goes to Destroying. `SetPool` then moves the
  agent to p2, and the next heartbeat puts the Destroying pod back to
  Pending. It never becomes Terminated, so the GC never erases the group.
  TLC's counterexample goes on: `SetPool` moves the agent back to p1, and
  the placement loop places the killed pod and sends a CREATE, so the killed
  job runs again. `RemoveTag` does the same to a tagged group.
  `CheckVersion` does it too (`scheduler.cc:1178`): `MCGalaxyKilledRequeued.cfg`
  with `Pools = {"p1"}`, `MaxVersion = 1` and `Descs <- MCDescs1` gives a
  9-state counterexample. There, a minted version sends the Destroying pod to
  Pending and the same heartbeat places it again. The one-pool live run of
  the earlier sittings could not move the agent, so it missed this.
- **A timed-out create leaks a group** (`appmaster_impl.cc:146`): the RM
  created it, the callback saw a failure and recorded nothing
  (appmaster_leak).
- **Destroy_ kills a reused pid** (`container.cc:351`). The agent reaps an
  exited appworker at once, but `Destroy_` kills `process_->Pid()` without
  the `Alive()` check that `Destroy` and `KeepAlive` make. The kernel may have
  given the pid to another process, and the agent kills it (pid_reuse).
- **The OOM check reads usage and cache at two moments**
  (`galaxy_memory_subsystem.cc:197`). It subtracts them as `uint64`. Page
  cache that grows between the reads wraps the difference past the limit, and
  the appworker is killed with its rss below the limit (oom_false_kill).

More violations were found and their runs retired to stay within the run
budget. Each property is still in its module, and each cfg below shows the
violation. Each cfg is `MCGalaxyCore.cfg` with the changes listed:

- `CapacityRespected` (overcommit). CREATE sends the group's current
  description (`scheduler.cc:1474`), not the requirement the container was
  charged with. After an `Update`, agents run containers bigger than charged.
  `AddAgent` then adopts them at that size with no capacity check. Changes:
  `Agents = {1}`, `MaxReplica = 2`, `Descs <- MCDescs1`, `MaxVersion = 1`,
  `INVARIANT CapacityRespected`.
- `BookkeepingExact` (ramdisk_evict). Evict subtracts a BestEffort
  container's tmpfs twice (`scheduler.cc:429,441`). Changes: `Agents = {1}`,
  `Descs <- MCDescs3`, `Priorities = {"BestEffort"}`,
  `INVARIANT BookkeepingExact`.
- `KilledStaysDown` (killed_revived). CheckVersion and CheckTagAndPool apply
  to Destroying containers (`scheduler.cc:1178,1101`). This is the step
  behind killed_requeued, stated as an action property. Changes: `Agents = {1}`,
  `Descs <- MCDescs1`, `MaxVersion = 1`, `PROPERTY KilledStaysDown`.
- `DeviceExclusive` (device_share, `AgentDevices`). An exclusive volume
  shares a device (`scheduler.cc:520-541`). `RecurSelectDevices` only avoids
  paths this request uses. On backtracking it also erases a path from
  `path_used` while an earlier volume still uses it. `MCAgentDevices.cfg` with
  `INVARIANT DeviceExclusive` shows it.

- `BucketsConsistent`: `AddAgent` sends a known non-Ready container to
  Terminated (`scheduler.cc:619`), then sets it Ready and calls
  `ChangeStatus`, leaving it in two buckets. `MCGalaxyCore.cfg` with
  `Agents = {1}` and `INVARIANT BucketsConsistent` shows it.
- `PortsExclusive`: `AddAgent` inserts the fixed ports of every adopted
  container without checking them (`scheduler.cc:665`). `MCGalaxyCore.cfg`
  with `Agents = {1}`, `MaxReplica = 2`, `Descs <- MCDescs4` (Web),
  `Pools = {"p1", "p2"}` and `INVARIANT PortsExclusive` shows it.

The pods run (1 agent, 2 Big pods: the second waits Pending and
`ManualSchedule` preempts the first) was retired to give killed_requeued a
slot. `MCGalaxyPods.cfg` still checks `AllocationAligned` and
`BookkeepingExact` and passes, in about 90 s. The core, rollout and restart
runs check both properties and keep their mutants. Folding the pods bounds
into core (2 agents with 2 pods) or into live (under fairness) did not
finish within the time limit.

### Why the bounds are enough

- **Agents and pods.** Two agents with one pod cover registration, loss and
  re-placement across agents. Two pods on one agent (`MCGalaxyPods.cfg`,
  above) cover preemption. Two agents with two pods did not finish within
  the time limit.
- **Pools in the live run.** Two pools let `SetPool` take the agent out of
  the pod's pool under a placed, Allocating or Destroying pod. With one pool
  the killed_requeued counterexample cannot happen.
- **Restarts.** Two restarts let a second restart hit the state the first
  one left: before `Start`, or before the agent re-registers. One agent and
  one pod reach adoption before and after `Start`. Two agents, or two pods,
  exceed the time limit with restarts. Two pools and one tag give an agent
  that accepts the pod and one that does not, both ways.
- **Versions.** One minted version gives an old and a new requirement, which
  is all `CheckVersion` and `MakeCommand` compare.
- **Devices.** On a 3-unit and a 1-unit disk and a 1-unit ssd, first-fit
  fails where backtracking succeeds, and the `path_used` erase matters; four
  ports let a dynamic scan collide, wrap and
  run past `MaxPort`.

### Fairness (run live)

- Every agent keeps sending heartbeats and not every response is lost (weak
  fairness per agent on a delivered heartbeat), and carries out the commands
  it received.
- Per container: a Construct ends and a Terminated container is reaped (weak
  fairness); a Destroy retried forever eventually succeeds (strong fairness:
  after the kill timeout `Destroy` stops waiting for the appworker).
- `CheckContainerGroupGC` runs.
- After a restart `Start` runs. The resource manager calls it right after
  reloading the groups.

Registration, timeouts, user requests and the placement loop get no fairness.
AllocatingResolves and OrphanDestroyed hold even if agents flap or change
pools forever. KilledGroupCollected fails even when `SetPool` is called only
once.

## Not modelled

- **Resource manager restart.** `Start` is atomic across groups, which is
  exact for the one-group runs. The liveness run has no restarts: with one
  restart it took more than the time limit. Two agents with a restart also
  did not fit the time limit.
- **ScaleDown and ScaleUp count Destroying containers**
  (`scheduler.cc:974,1003`). `ReplicaHonoured` in `Galaxy` is stated but has
  no run slot. It says that after `ChangeReplica` a live group has exactly
  `replica` containers that are Pending, Allocating or Ready.
  `MCGalaxyPods.cfg` with `PROPERTY ReplicaHonoured` (and no invariants)
  violates it in 6 states. The group is scaled to 0 while its pod is placed.
  The pod goes to Destroying. Scaling back to 1 then creates nothing, because
  `Replica()` counts the Destroying pod. Nothing but `ChangeReplica` scales
  up, so after the pod terminates the group runs nothing at replica 1.
  (Spec §8.1 counts Destroying containers in `replica` the same way.)
- **Port range overflow** (`scheduler.cc:363`): the dynamic scan hands out
  ports above `sMaxPort`. In `MCAgentDevices` an invariant
  `\A p \in portAssigned : p <= MaxPort` fails after three placements; no
  run slot is left for it.
- **Volum containers and the batch cap**: further `TryPut` dimensions of
  the same kind. Tags are modelled. An agent registers with any set of tags,
  because its tags come from the agent's info, which is not under `src/`.
- **Agent restart** (`Container::Reload`), `Container::RunRoutine`'s
  other routines, and the statistics calls (read only).
- **Client, SDK, event log**: I/O and formatting. Of the memory cgroup
  subsystem only the OOM check is modelled; the rest writes cgroup files.
