------------------------------ MODULE Scheduler ------------------------------
(***************************************************************************)
(* The resource manager's scheduler, src/src/resman/scheduler.cc: the     *)
(* per-agent bookkeeping (class Agent), the container groups and their    *)
(* containers, and the Scheduler operations that run under its mutex mu_. *)
(* Every Scheduler method holds mu_ for its whole body, so each one is a  *)
(* single atomic step here.                                               *)
(*                                                                        *)
(* The helpers Evict, Put, ChangeStatus, ... are written as functions of  *)
(* a record SchedState holding every variable they touch, so that a loop  *)
(* of the code over a container map is a FoldLeft over the map's keys in  *)
(* key order, and an action commits the final record.                     *)
(***************************************************************************)
EXTENDS Integers, FiniteSets, Sequences, SequencesExt, FiniteSetsExt

CONSTANTS
  Agents,          \* agent endpoints; naturals, ordered like the endpoints
  Groups,          \* container group ids; naturals, ordered like the ids
  MaxReplica,      \* a group has the pods pod_0 .. pod_{MaxReplica-1}
  Descs,           \* container descriptions (the requirement's content)
  Priorities,      \* job priorities; BestEffort is the headroom class
  Pools,           \* pool names
  Tags,            \* agent tags
  CpuTotal,        \* cpu_total_ of every agent
  MemTotal,        \* memory_total_ of every agent
  MaxVersion,      \* bound on the versions Update mints per group
  CheckContainerVersion, \* FLAGS_check_container_version
  NoAgent,         \* allocated_agent is the empty string
  MaxRestarts      \* bound on the restarts of the resource manager

ASSUME Agents \subseteq Nat /\ Groups \subseteq Nat /\ 0 \notin Agents
ASSUME MaxReplica \in Nat \ {0} /\ MaxVersion \in Nat
ASSUME CheckContainerVersion \in BOOLEAN
ASSUME Priorities # {}
\* a description's tag, NoTag when empty
NoTag == ""
ASSUME \A d \in Descs : d.pools \subseteq Pools /\ d.maxPerHost \in Nat
                        /\ d.tag \in Tags \cup {NoTag}

\* proto::ContainerStatus values the scheduler uses
Pending    == "Pending"
Allocating == "Allocating"
Ready      == "Ready"
Destroying == "Destroying"
Terminated == "Terminated"
Status == {Pending, Allocating, Ready, Destroying, Terminated}
\* statuses only an agent reports, and a container an agent does not have
Error  == "Error"
Finish == "Finish"
Absent == "Absent"
\* statuses in which a container holds resources of its allocated agent
Placed == {Allocating, Ready, Destroying}

BestEffort == "BestEffort"
\* Update's update_interval: 0, or a positive number of seconds
Intervals == {0, 1}

Pods == 0 .. MaxReplica - 1
\* ContainerId <group>.pod_<i>
Containers == Groups \X Pods
GroupOf(c) == c[1]
\* std::map order of container ids (fewer than 10 pods per group)
ContainerLess(c1, c2) ==
  c1[1] < c2[1] \/ (c1[1] = c2[1] /\ c1[2] < c2[2])
Sorted(S) == SetToSortSeq(S, ContainerLess)
\* last_sched_container_id is "" before the first placement
NoContainer(g) == <<g, -1>>

(* Requirement: the content of a description and its version token.     *)
Requirements == [d : Descs, v : 0 .. MaxVersion]
CpuNeed(r)    == r.d.cpu
MemoryNeed(r) == r.d.mem
TmpfsNeed(r)  == r.d.tmpfs

VARIABLES
  agents,          \* agents_ (key set)
  freezed,         \* freezed_agents_
  pool,            \* Agent::pool_name_
  tags,            \* Agent::tags_
  cpuAssigned,     \* Agent::cpu_assigned_
  memAssigned,     \* Agent::memory_assigned_
  cpuDeepAssigned, \* Agent::cpu_deep_assigned_
  memDeepAssigned, \* Agent::memory_deep_assigned_
  portAssigned,    \* Agent::port_assigned_
  agentContainers, \* Agent::containers_ (key set)
  cpuReserved,     \* Agent::cpu_reserved_
  memReserved,     \* Agent::memory_reserved_
  groups,          \* container_groups_ (key set)
  queue,           \* container_group_queue_, in submit-time order
  submitted,       \* ids Submit has generated (ids are never reused)
  terminated,      \* ContainerGroup::terminated
  replica,         \* ContainerGroup::replica
  require,         \* ContainerGroup::require
  gdesc,           \* ContainerGroup::container_desc (content and version)
  priority,        \* ContainerGroup::priority
  updateInterval,  \* ContainerGroup::update_interval
  due,             \* now - last_update_time >= update_interval
  lastSched,       \* ContainerGroup::last_sched_container_id
  members,         \* union of ContainerGroup::containers (key sets)
  status,          \* Container::status
  states,          \* the ContainerGroup::states buckets holding a container
  allocAgent,      \* Container::allocated_agent
  creq,            \* Container::require
  cprio,           \* Container::priority
  schedAfter,      \* pre_endpoint of the pending ScheduleNextAgent task
  stop,            \* stop_
  restarts         \* restarts of the resource manager so far

agentVars == <<agents, freezed, pool, tags, cpuReserved, memReserved>>
groupVars == <<groups, queue, submitted, terminated, replica, require,
               gdesc, priority, updateInterval>>
stVars == <<status, states, allocAgent, creq, cprio, members, cpuAssigned,
            memAssigned, cpuDeepAssigned, memDeepAssigned, portAssigned,
            agentContainers, due, lastSched>>
loopVars == <<schedAfter, stop, restarts>>
schedVars == <<agentVars, groupVars, stVars, loopVars>>

(* The state the helpers read and write, as one record.                  *)
SchedState ==
  [status |-> status, states |-> states, allocAgent |-> allocAgent,
   creq |-> creq, cprio |-> cprio, members |-> members,
   cpuAssigned |-> cpuAssigned, memAssigned |-> memAssigned,
   cpuDeepAssigned |-> cpuDeepAssigned, memDeepAssigned |-> memDeepAssigned,
   portAssigned |-> portAssigned, agentContainers |-> agentContainers,
   due |-> due, lastSched |-> lastSched]

Commit(s) ==
  /\ status' = s.status
  /\ states' = s.states
  /\ allocAgent' = s.allocAgent
  /\ creq' = s.creq
  /\ cprio' = s.cprio
  /\ members' = s.members
  /\ cpuAssigned' = s.cpuAssigned
  /\ memAssigned' = s.memAssigned
  /\ cpuDeepAssigned' = s.cpuDeepAssigned
  /\ memDeepAssigned' = s.memDeepAssigned
  /\ portAssigned' = s.portAssigned
  /\ agentContainers' = s.agentContainers
  /\ due' = s.due
  /\ lastSched' = s.lastSched

GroupMembers(s, g) == {c \in s.members : GroupOf(c) = g}
InBucket(s, g, st) == {c \in GroupMembers(s, g) : st \in s.states[c]}
\* ContainerGroup::Replica(): containers minus the Terminated bucket
Replica(s, g) == Cardinality(GroupMembers(s, g)) - Cardinality(InBucket(s, g, Terminated))
CountOnAgent(s, a, g) == Cardinality({c \in s.agentContainers[a] : GroupOf(c) = g})

\* the fee a container pays on its agent, as Put and SetAssignment count it
CpuCharge(s, c)     == IF s.cprio[c] = BestEffort THEN 0 ELSE CpuNeed(s.creq[c])
MemCharge(s, c)     == (IF s.cprio[c] = BestEffort THEN 0 ELSE MemoryNeed(s.creq[c]))
                         + TmpfsNeed(s.creq[c])
DeepCpuCharge(s, c) == IF s.cprio[c] = BestEffort THEN CpuNeed(s.creq[c]) ELSE 0
DeepMemCharge(s, c) == IF s.cprio[c] = BestEffort THEN MemoryNeed(s.creq[c]) ELSE 0
SumOver(S, f(_)) == MapThenSumSet(f, S)

(***************************************************************************)
(* Agent: feasibility, commit and eviction.                               *)
(***************************************************************************)

\* variant of CheckTagAndPoolOnce: the tag is not compared
CheckTagAndPoolOnceNoTag(a, r) == pool[a] \in r.d.pools

\* Scheduler::CheckTagAndPoolOnce: agent a carries the requirement's tag, if
\* it has one, and is in one of its pools
CheckTagAndPoolOnce(a, r) ==
  /\ r.d.tag # NoTag => r.d.tag \in tags[a]
  /\ pool[a] \in r.d.pools

\* Agent::TryPut: tag, pool, max_per_host, cpu and memory by
\* priority class, tmpfs, fixed ports.  Devices, dynamic ports, volum
\* containers and the batch cap are not in this model.
TryPut(s, a, c) ==
  LET r  == s.creq[c]
      be == s.cprio[c] = BestEffort
  IN /\ CheckTagAndPoolOnce(a, r)
     /\ r.d.maxPerHost > 0 => CountOnAgent(s, a, GroupOf(c)) < r.d.maxPerHost
     /\ ~be => /\ CpuNeed(r) + s.cpuAssigned[a] <= CpuTotal
               /\ MemoryNeed(r) + s.memAssigned[a] <= MemTotal
     /\ be  => /\ cpuReserved[a] + s.cpuDeepAssigned[a] + CpuNeed(r) <= CpuTotal
               /\ memReserved[a] + s.memDeepAssigned[a] + MemoryNeed(r) <= MemTotal
     /\ ~be => TmpfsNeed(r) + s.memAssigned[a] + MemoryNeed(r) <= MemTotal
     /\ be  => TmpfsNeed(r) + s.memAssigned[a] <= MemTotal
     /\ r.d.ports \cap s.portAssigned[a] = {}

\* variant of Put: the priority class ignored, a BestEffort container
\* charged to the hard totals
\* Agent::Put: charge the container's requirement to agent a.
Put(s, a, c) ==
  LET r  == s.creq[c]
      be == s.cprio[c] = BestEffort
  IN [s EXCEPT
       !.cpuAssigned[a]     = IF be THEN @ ELSE @ + CpuNeed(r),
       !.memAssigned[a]     = (IF be THEN @ ELSE @ + MemoryNeed(r)) + TmpfsNeed(r),
       !.cpuDeepAssigned[a] = IF be THEN @ + CpuNeed(r) ELSE @,
       !.memDeepAssigned[a] = IF be THEN @ + MemoryNeed(r) ELSE @,
       !.portAssigned[a]    = @ \cup r.d.ports,
       !.agentContainers[a] = @ \cup {c},
       !.allocAgent[c]      = a]

\* variants of Evict: cpu not given back; no check that the agent holds
\* the container
EvictKeepCpu(s, a, c) ==
  LET r == s.creq[c]  be == s.cprio[c] = BestEffort
  IN IF c \notin s.agentContainers[a] THEN s
     ELSE [s EXCEPT
       !.memAssigned[a]     = (IF be THEN @ - TmpfsNeed(r) ELSE @ - MemoryNeed(r)) - TmpfsNeed(r),
       !.cpuDeepAssigned[a] = IF be THEN @ - CpuNeed(r) ELSE @,
       !.memDeepAssigned[a] = IF be THEN @ - MemoryNeed(r) ELSE @,
       !.portAssigned[a]    = @ \ r.d.ports,
       !.agentContainers[a] = @ \ {c}]
EvictAnyContainer(s, a, c) ==
  LET r == s.creq[c]  be == s.cprio[c] = BestEffort
  IN [s EXCEPT
       !.cpuAssigned[a]     = IF be THEN @ ELSE @ - CpuNeed(r),
       !.memAssigned[a]     = (IF be THEN @ - TmpfsNeed(r) ELSE @ - MemoryNeed(r)) - TmpfsNeed(r),
       !.cpuDeepAssigned[a] = IF be THEN @ - CpuNeed(r) ELSE @,
       !.memDeepAssigned[a] = IF be THEN @ - MemoryNeed(r) ELSE @,
       !.portAssigned[a]    = @ \ r.d.ports,
       !.agentContainers[a] = @ \ {c}]

\* Agent::Evict: a BestEffort container's tmpfs is subtracted in its
\* priority branch and again with size_ramdisk, as the code does.
Evict(s, a, c) ==
  LET r  == s.creq[c]
      be == s.cprio[c] = BestEffort
  IN IF c \notin s.agentContainers[a] THEN s
     ELSE [s EXCEPT
       !.cpuAssigned[a]     = IF be THEN @ ELSE @ - CpuNeed(r),
       !.memAssigned[a]     = (IF be THEN @ - TmpfsNeed(r) ELSE @ - MemoryNeed(r))
                                - TmpfsNeed(r),
       !.cpuDeepAssigned[a] = IF be THEN @ - CpuNeed(r) ELSE @,
       !.memDeepAssigned[a] = IF be THEN @ - MemoryNeed(r) ELSE @,
       !.portAssigned[a]    = @ \ r.d.ports,
       !.agentContainers[a] = @ \ {c}]

(***************************************************************************)
(* Scheduler::ChangeStatus(container_group, container, new_status): move  *)
(* the container between the states buckets (erasing the bucket of its    *)
(* current status); entering Pending or Terminated evicts it from its     *)
(* agent and rebinds it to the group's requirement; only Pending clears   *)
(* allocated_agent.                                                       *)
(***************************************************************************)
\* variant of ChangeStatus: allocated_agent never cleared
ChangeStatusKeepAgent(s, c, new) ==
  LET a  == s.allocAgent[c]
      s1 == [s EXCEPT !.states[c] = (@ \ {s.status[c]}) \cup {new}]
      s2 == IF a \in agents THEN Evict(s1, a, c) ELSE s1
      s3 == [s2 EXCEPT !.creq[c] = require[GroupOf(c)]]
  IN [(IF new \in {Pending, Terminated} THEN s3 ELSE s1)
        EXCEPT !.status[c] = new]

ChangeStatus(s, c, new) ==
  LET a  == s.allocAgent[c]
      s1 == [s EXCEPT !.states[c] = (@ \ {s.status[c]}) \cup {new}]
      s2 == IF a \in agents THEN Evict(s1, a, c) ELSE s1
      s3 == [s2 EXCEPT !.creq[c] = require[GroupOf(c)],
                       !.allocAgent[c] = IF new = Pending THEN NoAgent ELSE @]
  IN [(IF new \in {Pending, Terminated} THEN s3 ELSE s1)
        EXCEPT !.status[c] = new]


\* the reserved baseline of SetReserved: min(used * reserved_percent, need)
\* is abstracted to the full need for the containers in busy, 0 otherwise;
\* memory_reserved_ also takes the full tmpfs size of every container.
CpuReservedOf(s, live, busy) ==
  SumOver({c \in busy : s.cprio[c] # BestEffort}, LAMBDA c : CpuNeed(s.creq[c]))
MemReservedOf(s, live, busy) ==
  SumOver(live, LAMBDA c : TmpfsNeed(s.creq[c]))
  + SumOver({c \in busy : s.cprio[c] # BestEffort}, LAMBDA c : MemoryNeed(s.creq[c]))

(***************************************************************************)
(* Agent registration and administration.                                 *)
(***************************************************************************)

\* One reported Ready container adopted by AddAgent.  A known container in
\* another status is first sent to Terminated; its status is then
\* overwritten with Ready before ChangeStatus(container, Ready), so the
\* bucket erased is Ready's, not Terminated's.
Adopt(s, a, r, c) ==
  IF c \in s.members /\ s.status[c] = Ready THEN s
  ELSE LET s1 == IF c \in s.members THEN ChangeStatus(s, c, Terminated) ELSE s
       IN [s1 EXCEPT !.members = @ \cup {c},
                     !.creq[c] = r,
                     !.cprio[c] = priority[GroupOf(c)],
                     !.status[c] = Ready,
                     !.states[c] = IF c \in s.members THEN @ \cup {Ready} ELSE {Ready},
                     !.allocAgent[c] = a,
                     !.agentContainers[a] = @ \cup {c}]

\* Agent::SetAssignment: the registering agent's totals are the sums AddAgent
\* built while adopting; containers_ and the per-group counts are the
\* adopted containers (counts, allocated_agent and the batch count follow
\* from agentContainers here; volum containers are not modelled)
SetAssignment(s, a, cpu, cpuDeep, mem, memDeep, ports) ==
  [s EXCEPT !.cpuAssigned[a]     = cpu,
            !.cpuDeepAssigned[a] = cpuDeep,
            !.memAssigned[a]     = mem,
            !.memDeepAssigned[a] = memDeep,
            !.portAssigned[a]    = ports]

\* Scheduler::AddAgent(agent, agent_info) with the agent's report rep: a
\* function from container ids to [st, desc] (its status, Absent for one it
\* does not have, and the description it runs).  A reported description whose version is the
\* group's takes the group's requirement.  A fresh Agent starts empty;
\* SetAssignment then sets its totals to the sums over the adopted
\* containers and SetReserved the reserved baseline (busy as in MakeCommand).
AddAgent(a, p, t, rep, busy) ==
  /\ a \notin agents
  /\ LET adoptable == {c \in Containers :
                          /\ rep[c].st # Absent
                          /\ rep[c].st = Ready
                          /\ GroupOf(c) \in groups \ terminated}
         reqOf(c) == IF require[GroupOf(c)].v = rep[c].desc.v
                     THEN require[GroupOf(c)] ELSE rep[c].desc
         s0 == [SchedState EXCEPT !.agentContainers[a] = {}]
         s1 == FoldLeft(LAMBDA acc, c : Adopt(acc, a, reqOf(c), c), s0,
                        Sorted(adoptable))
         on == s1.agentContainers[a]
         s2 == SetAssignment(s1, a,
                 SumOver(on, LAMBDA c : CpuCharge(s1, c)),
                 SumOver(on, LAMBDA c : DeepCpuCharge(s1, c)),
                 SumOver(on, LAMBDA c : MemCharge(s1, c)),
                 SumOver(on, LAMBDA c : DeepMemCharge(s1, c)),
                 UNION {s1.creq[c].d.ports : c \in on})
     IN /\ Commit(s2)
        /\ cpuReserved' = [cpuReserved EXCEPT ![a] = CpuReservedOf(s1, on, busy \cap on)]
        /\ memReserved' = [memReserved EXCEPT ![a] = MemReservedOf(s1, on, busy \cap on)]
  /\ agents' = agents \cup {a}
  /\ pool' = [pool EXCEPT ![a] = p]
  /\ tags' = [tags EXCEPT ![a] = t]
  /\ UNCHANGED <<freezed, groupVars, loopVars>>

\* variant of RemoveAgent: the agent left in freezed_agents_
RemoveAgentKeepFreezed(a) ==
  /\ a \in agents
  /\ LET step(s, c) == ChangeStatus(s, c, IF s.status[c] = Destroying
                                          THEN Terminated ELSE Pending)
     IN Commit(FoldLeft(step, SchedState, Sorted(agentContainers[a])))
  /\ agents' = agents \ {a}
  /\ UNCHANGED <<freezed, pool, tags, cpuReserved, memReserved, groupVars, loopVars>>

\* Scheduler::RemoveAgent: Destroying containers (killed) go to Terminated,
\* the others to Pending (volum containers are not modelled).
RemoveAgent(a) ==
  /\ a \in agents
  /\ LET step(s, c) == ChangeStatus(s, c, IF s.status[c] = Destroying
                                          THEN Terminated ELSE Pending)
     IN Commit(FoldLeft(step, SchedState, Sorted(agentContainers[a])))
  /\ agents' = agents \ {a}
  /\ freezed' = freezed \ {a}
  /\ UNCHANGED <<pool, tags, cpuReserved, memReserved, groupVars, loopVars>>

\* Scheduler::SetPool
SetPool(a, p) ==
  /\ a \in agents
  /\ pool' = [pool EXCEPT ![a] = p]
  /\ UNCHANGED <<agents, freezed, tags, cpuReserved, memReserved, groupVars, stVars,
                 loopVars>>

\* Scheduler::FreezeAgent
FreezeAgent(a) ==
  /\ a \in agents
  /\ freezed' = freezed \cup {a}
  /\ UNCHANGED <<agents, pool, tags, cpuReserved, memReserved, groupVars, stVars,
                 loopVars>>

\* Scheduler::ThawAgent
ThawAgent(a) ==
  /\ a \in freezed
  /\ freezed' = freezed \ {a}
  /\ UNCHANGED <<agents, pool, tags, cpuReserved, memReserved, groupVars, stVars,
                 loopVars>>

\* Scheduler::AddTag
AddTag(a, t) ==
  /\ a \in agents
  /\ tags' = [tags EXCEPT ![a] = @ \cup {t}]
  /\ UNCHANGED <<agents, freezed, pool, cpuReserved, memReserved, groupVars,
                 stVars, loopVars>>

\* Scheduler::RemoveTag: containers already placed stay until the loop's
\* CheckTagAndPool next visits the agent
RemoveTag(a, t) ==
  /\ a \in agents
  /\ tags' = [tags EXCEPT ![a] = @ \ {t}]
  /\ UNCHANGED <<agents, freezed, pool, cpuReserved, memReserved, groupVars,
                 stVars, loopVars>>

(***************************************************************************)
(* Container groups.                                                      *)
(***************************************************************************)

\* the version clients put in a description; versions 1..MaxVersion are the
\* ones GetNewVersion mints
ClientVersion == 0

\* Scheduler::Submit: a fresh id, replica containers pod_0.. in Pending, the
\* group appended to the queue (submit times increase).
Submit(g, d, n, p) ==
  /\ g \notin submitted
  /\ LET pods == {<<g, i>> : i \in 0 .. n - 1}
         req  == [d |-> d, v |-> ClientVersion]
     IN /\ members' = members \cup pods
        /\ status' = [c \in Containers |-> IF c \in pods THEN Pending ELSE status[c]]
        /\ states' = [c \in Containers |-> IF c \in pods THEN {Pending} ELSE states[c]]
        /\ creq' = [c \in Containers |-> IF c \in pods THEN req ELSE creq[c]]
        /\ cprio' = [c \in Containers |-> IF c \in pods THEN p ELSE cprio[c]]
        /\ require' = [require EXCEPT ![g] = req]
        /\ gdesc' = [gdesc EXCEPT ![g] = req]
  /\ groups' = groups \cup {g}
  /\ submitted' = submitted \cup {g}
  /\ queue' = Append(queue, g)
  /\ replica' = [replica EXCEPT ![g] = n]
  /\ priority' = [priority EXCEPT ![g] = p]
  /\ UNCHANGED <<agentVars, terminated, updateInterval, due, lastSched, allocAgent,
                 cpuAssigned, memAssigned, cpuDeepAssigned, memDeepAssigned,
                 portAssigned, agentContainers, loopVars>>

\* the loop of Scheduler::Kill on the state s0: Pending containers
\* terminate at once, the others that are not Terminated go to Destroying
KillGroup(s0, g) ==
  LET step(s, c) == CASE s.status[c] = Pending    -> ChangeStatus(s, c, Terminated)
                      [] s.status[c] # Terminated -> ChangeStatus(s, c, Destroying)
                      [] OTHER                    -> s
  IN FoldLeft(step, s0, Sorted(GroupMembers(s0, g)))

\* Scheduler::Kill: the loop, and the group is marked terminated
Kill(g) ==
  /\ g \in groups
  /\ Commit(KillGroup(SchedState, g))
  /\ terminated' = terminated \cup {g}
  /\ UNCHANGED <<agentVars, groups, queue, submitted, replica, require, gdesc,
                 priority, updateInterval, loopVars>>

CheckContainerGroupGCAnyGroup(g) ==
  /\ g \in groups
  /\ \A c \in GroupMembers(SchedState, g) : status[c] = Terminated
  /\ groups' = groups \ {g}
  /\ queue' = SelectSeq(queue, LAMBDA x : x # g)
  /\ members' = members \ GroupMembers(SchedState, g)
  /\ UNCHANGED <<agentVars, submitted, terminated, replica, require, gdesc,
                 priority, updateInterval, due, lastSched, status, states,
                 allocAgent, creq, cprio, cpuAssigned, memAssigned,
                 cpuDeepAssigned, memDeepAssigned, portAssigned,
                 agentContainers, loopVars>>

\* Scheduler::CheckContainerGroupGC, the task Kill leaves on gc_pool_: once
\* every container is Terminated the group leaves the map and the queue.
CheckContainerGroupGC(g) ==
  /\ g \in groups /\ g \in terminated
  /\ \A c \in GroupMembers(SchedState, g) : status[c] = Terminated
  /\ groups' = groups \ {g}
  /\ queue' = SelectSeq(queue, LAMBDA x : x # g)
  /\ members' = members \ GroupMembers(SchedState, g)
  /\ UNCHANGED <<agentVars, submitted, terminated, replica, require, gdesc,
                 priority, updateInterval, due, lastSched, status, states,
                 allocAgent, creq, cprio, cpuAssigned, memAssigned,
                 cpuDeepAssigned, memDeepAssigned, portAssigned,
                 agentContainers, loopVars>>

\* Scheduler::ScaleDown: first the Pending bucket, then Allocating, then
\* Ready, in id order, until Replica() - replica containers are taken.
ScaleDown(s, g, n) ==
  LET delta0 == Replica(s, g) - n
      \* acc is <<state, containers still to take>>
      take(acc, c, new) ==
        IF acc[2] <= 0 THEN acc
        ELSE <<ChangeStatus(acc[1], c, new), acc[2] - 1>>
      pend == FoldLeft(LAMBDA acc, c : take(acc, c, Terminated), <<s, delta0>>,
                       Sorted(InBucket(s, g, Pending)))
      alloc == FoldLeft(LAMBDA acc, c : take(acc, c, Destroying), pend,
                        Sorted(InBucket(pend[1], g, Allocating)))
      ready == FoldLeft(LAMBDA acc, c : take(acc, c, Destroying), alloc,
                        Sorted(InBucket(alloc[1], g, Ready)))
  IN ready[1]

\* Scheduler::ScaleUp: pod_0 .. pod_{replica-1} in turn, while Replica() is
\* below replica; a missing pod is created with the group's requirement
\* and a priority the code never sets (the Container default, modelled as
\* any priority); a pod neither Ready nor Allocating is sent to Pending.
ScaleUp(s, g, n, newPrio) ==
  LET step(acc, i) ==
        LET c == <<g, i>>
            s1 == IF c \in acc.members THEN acc
                  ELSE [acc EXCEPT !.members = @ \cup {c}, !.creq[c] = require[g],
                                   !.cprio[c] = newPrio, !.status[c] = Pending,
                                   !.states[c] = {}, !.allocAgent[c] = NoAgent]
        IN IF Replica(acc, g) >= n THEN acc
           ELSE IF s1.status[c] \in {Ready, Allocating} THEN s1
           ELSE ChangeStatus(s1, c, Pending)
  IN FoldLeft(step, s, [i \in 1 .. n |-> i - 1])

\* the scaling of Scheduler::ChangeReplica on the state s: ScaleDown or
\* ScaleUp against Replica(), nothing if the replica does not change
Rescale(s, g, n, newPrio) ==
  LET cur == Replica(s, g)
  IN CASE n < cur -> ScaleDown(s, g, n)
       [] n > cur -> ScaleUp(s, g, n, newPrio)
       [] OTHER   -> s

\* Scheduler::ChangeReplica on a live group
ChangeReplica(g, n, newPrio) ==
  /\ g \in groups \ terminated
  /\ Commit(Rescale(SchedState, g, n, newPrio))
  /\ replica' = [replica EXCEPT ![g] = n]
  /\ UNCHANGED <<agentVars, groups, queue, submitted, terminated, require, gdesc,
                 priority, updateInterval, loopVars>>

\* Scheduler::RequireHasDiff on two descriptions: every field it compares;
\* pool_names is not among them.
RequireHasDiff(d1, d2) ==
  \/ d1.tag # d2.tag
  \/ d1.maxPerHost # d2.maxPerHost
  \/ d1.cpu # d2.cpu
  \/ d1.mem # d2.mem
  \/ d1.tmpfs # d2.tmpfs
  \/ d1.ports # d2.ports

\* variant of Update: a new version rebinds every container of the group,
\* placed ones included
UpdateRebindAll(g, d, interval) ==
  /\ g \in groups
  /\ updateInterval' = [updateInterval EXCEPT ![g] = interval]
  /\ \/ /\ ~RequireHasDiff(d, require[g].d)
        /\ gdesc' = [gdesc EXCEPT ![g] = [d |-> d, v |-> ClientVersion]]
        /\ UNCHANGED <<require, stVars>>
     \/ /\ RequireHasDiff(d, require[g].d)
        /\ require[g].v < MaxVersion
        /\ LET req == [d |-> d, v |-> require[g].v + 1]
           IN /\ require' = [require EXCEPT ![g] = req]
              /\ gdesc' = [gdesc EXCEPT ![g] = req]
              /\ creq' = [c \in Containers |->
                            IF c \in GroupMembers(SchedState, g) THEN req ELSE creq[c]]
        /\ due' = [due EXCEPT ![g] = interval = 0]
        /\ UNCHANGED <<status, states, allocAgent, cprio, members, cpuAssigned,
                       memAssigned, cpuDeepAssigned, memDeepAssigned,
                       portAssigned, agentContainers, lastSched>>
  /\ UNCHANGED <<agentVars, groups, queue, submitted, terminated, replica,
                 priority, loopVars>>

\* Scheduler::Update.  Without a difference only update_interval and
\* container_desc (with the client's version) change.  Otherwise a new
\* version is minted, last_update_time is now, and the Pending bucket is
\* rebound to the new requirement.
Update(g, d, interval) ==
  /\ g \in groups
  /\ updateInterval' = [updateInterval EXCEPT ![g] = interval]
  /\ \/ /\ ~RequireHasDiff(d, require[g].d)
        /\ gdesc' = [gdesc EXCEPT ![g] = [d |-> d, v |-> ClientVersion]]
        /\ UNCHANGED <<require, stVars>>
     \/ /\ RequireHasDiff(d, require[g].d)
        /\ require[g].v < MaxVersion
        /\ LET req == [d |-> d, v |-> require[g].v + 1]
           IN /\ require' = [require EXCEPT ![g] = req]
              /\ gdesc' = [gdesc EXCEPT ![g] = req]
              /\ creq' = [c \in Containers |->
                            IF c \in InBucket(SchedState, g, Pending) THEN req ELSE creq[c]]
        /\ due' = [due EXCEPT ![g] = interval = 0]
        /\ UNCHANGED <<status, states, allocAgent, cprio, members, cpuAssigned,
                       memAssigned, cpuDeepAssigned, memDeepAssigned,
                       portAssigned, agentContainers, lastSched>>
  /\ UNCHANGED <<agentVars, groups, queue, submitted, terminated, replica,
                 priority, loopVars>>

\* the clock reaches last_update_time + update_interval of group g
TimePasses(g) ==
  /\ g \in groups /\ ~due[g]
  /\ due' = [due EXCEPT ![g] = TRUE]
  /\ UNCHANGED <<agentVars, groupVars, status, states, allocAgent, creq, cprio,
                 members, cpuAssigned, memAssigned, cpuDeepAssigned,
                 memDeepAssigned, portAssigned, agentContainers, lastSched,
                 loopVars>>

(***************************************************************************)
(* A restart of the resource manager: a new Scheduler (stop_ set, no      *)
(* agents, no containers) to which every persisted ContainerGroupMeta is *)
(* given by Reload, then Start.  The meta holds the group's id, replica,  *)
(* update_interval, terminated status and container_desc; agents come back *)
(* by registering, their containers with them.                            *)
(***************************************************************************)

\* variant of Reload: the old containers are kept (no reset of the
\* container maps)
ReloadKeepContainers ==
  /\ restarts < MaxRestarts
  /\ agents' = {} /\ freezed' = {}
  /\ cpuAssigned' = [a \in Agents |-> 0] /\ memAssigned' = [a \in Agents |-> 0]
  /\ cpuDeepAssigned' = [a \in Agents |-> 0] /\ memDeepAssigned' = [a \in Agents |-> 0]
  /\ portAssigned' = [a \in Agents |-> {}] /\ agentContainers' = [a \in Agents |-> {}]
  /\ cpuReserved' = [a \in Agents |-> 0] /\ memReserved' = [a \in Agents |-> 0]
  /\ require' = gdesc /\ due' = [g \in Groups |-> TRUE]
  /\ lastSched' = [g \in Groups |-> NoContainer(g)]
  /\ stop' = TRUE /\ schedAfter' = 0 /\ restarts' = restarts + 1
  /\ UNCHANGED <<pool, tags, groups, queue, submitted, terminated, replica, gdesc,
                 priority, updateInterval, members, status, states, allocAgent,
                 creq, cprio>>

\* variant of Reload: the meta's terminated status is not restored
ReloadDropTerminated ==
  /\ restarts < MaxRestarts
  /\ agents' = {} /\ freezed' = {}
  /\ cpuAssigned' = [a \in Agents |-> 0] /\ memAssigned' = [a \in Agents |-> 0]
  /\ cpuDeepAssigned' = [a \in Agents |-> 0] /\ memDeepAssigned' = [a \in Agents |-> 0]
  /\ portAssigned' = [a \in Agents |-> {}] /\ agentContainers' = [a \in Agents |-> {}]
  /\ cpuReserved' = [a \in Agents |-> 0] /\ memReserved' = [a \in Agents |-> 0]
  /\ require' = gdesc /\ due' = [g \in Groups |-> TRUE]
  /\ lastSched' = [g \in Groups |-> NoContainer(g)]
  /\ members' = {}
  /\ status' = [c \in Containers |-> Pending] /\ states' = [c \in Containers |-> {}]
  /\ allocAgent' = [c \in Containers |-> NoAgent]
  /\ creq' = [c \in Containers |-> gdesc[GroupOf(c)]]
  /\ cprio' = [c \in Containers |-> priority[GroupOf(c)]]
  /\ stop' = TRUE /\ schedAfter' = 0 /\ restarts' = restarts + 1
  /\ terminated' = {}
  /\ UNCHANGED <<pool, tags, groups, queue, submitted, replica, gdesc,
                 priority, updateInterval>>

\* Scheduler::Reload of every group: require is rebuilt from the meta's
\* container_desc by SetRequirement, version included; the fresh group has
\* no containers and last_update_time 0
Reload ==
  /\ restarts < MaxRestarts
  /\ agents' = {} /\ freezed' = {}
  /\ cpuAssigned' = [a \in Agents |-> 0] /\ memAssigned' = [a \in Agents |-> 0]
  /\ cpuDeepAssigned' = [a \in Agents |-> 0] /\ memDeepAssigned' = [a \in Agents |-> 0]
  /\ portAssigned' = [a \in Agents |-> {}] /\ agentContainers' = [a \in Agents |-> {}]
  /\ cpuReserved' = [a \in Agents |-> 0] /\ memReserved' = [a \in Agents |-> 0]
  /\ require' = gdesc
  /\ due' = [g \in Groups |-> TRUE]
  /\ lastSched' = [g \in Groups |-> NoContainer(g)]
  /\ members' = {}
  /\ status' = [c \in Containers |-> Pending] /\ states' = [c \in Containers |-> {}]
  /\ allocAgent' = [c \in Containers |-> NoAgent]
  \* no container exists: these are written before they are read again
  /\ creq' = [c \in Containers |-> gdesc[GroupOf(c)]]
  /\ cprio' = [c \in Containers |-> priority[GroupOf(c)]]
  /\ stop' = TRUE /\ schedAfter' = 0
  /\ restarts' = restarts + 1
  /\ UNCHANGED <<pool, tags, groups, queue, submitted, terminated, replica, gdesc,
                 priority, updateInterval>>

\* Scheduler::Start: stop_ cleared, then for every group in id order
\* ChangeReplica(id, replica) (refused for a terminated group) and Kill
\* of the terminated ones; the placement loop then starts from ""
Start ==
  /\ stop
  /\ \E newPrio \in Priorities :
       LET step(s, g) == IF g \in terminated THEN KillGroup(s, g)
                         ELSE Rescale(s, g, replica[g], newPrio)
       IN Commit(FoldLeft(step, SchedState, SetToSortSeq(groups, <)))
  /\ stop' = FALSE /\ schedAfter' = 0
  /\ UNCHANGED <<agentVars, groupVars, restarts>>

(***************************************************************************)
(* The placement loop: the ScheduleNextAgent task on sched_pool_.         *)
(***************************************************************************)

\* variant of CheckVersion: the status set to Pending in place, without
\* ChangeStatus (no eviction)
\* Scheduler::CheckVersion: a container whose requirement is not the
\* group's current one is sent back to Pending, at most once per
\* update_interval per group (the pacing of a rolling update).
CheckVersion(s, a) ==
  LET step(acc, c) ==
        LET g == GroupOf(c) IN
        CASE g \notin groups                     -> Evict(acc, a, c)
          [] acc.creq[c].v = require[g].v        -> acc
          [] ~acc.due[g]                         -> acc
          [] OTHER -> [ChangeStatus(acc, c, Pending)
                         EXCEPT !.due[g] = updateInterval[g] = 0]
  IN FoldLeft(step, s, Sorted(s.agentContainers[a]))

\* variant of CheckTagAndPool: the status set to Pending in place
CheckTagAndPoolNoEvict(s, a) ==
  LET step(acc, c) == IF CheckTagAndPoolOnce(a, acc.creq[c]) THEN acc
                      ELSE [acc EXCEPT !.status[c] = Pending, !.states[c] = {Pending}]
  IN FoldLeft(step, s, Sorted(s.agentContainers[a]))

\* Scheduler::CheckTagAndPool: containers whose requirement no longer
\* accepts the agent's tags and pool go back to Pending.
CheckTagAndPool(s, a) ==
  LET step(acc, c) == IF CheckTagAndPoolOnce(a, acc.creq[c]) THEN acc
                      ELSE ChangeStatus(acc, c, Pending)
  IN FoldLeft(step, s, Sorted(s.agentContainers[a]))

\* the pending container of group g the loop tries next: the first one
\* after last_sched_container_id, wrapping to the first
NextPending(s, g) ==
  LET pend  == InBucket(s, g, Pending)
      after == {c \in pend : ContainerLess(s.lastSched[g], c)}
      first(S) == CHOOSE c \in S : \A o \in S : ~ContainerLess(o, c)
  IN IF after # {} THEN first(after) ELSE first(pend)

\* one group of the queue: try its next pending container on agent a
PlaceStep(s, a, g) ==
  IF InBucket(s, g, Pending) = {} THEN s
  ELSE LET c  == NextPending(s, g)
           s1 == [s EXCEPT !.lastSched[g] = c]
       IN IF TryPut(s1, a, c) THEN ChangeStatus(Put(s1, a, c), c, Allocating)
          ELSE s1

\* the agent ScheduleNextAgent(pre) visits: agents_.upper_bound(pre)
NextAgent(pre) == {a \in agents : a > pre /\ \A b \in agents : b > pre => a <= b}

\* past the last agent the task reschedules itself from ""; while stop_
\* is set, or no agent is registered, it only reschedules itself
SchedWrap ==
  /\ ~stop
  /\ agents # {} /\ NextAgent(schedAfter) = {}
  /\ schedAfter' = 0
  /\ UNCHANGED <<agentVars, groupVars, stVars, stop, restarts>>

\* a frozen agent is skipped
SchedSkipFrozen ==
  /\ ~stop
  /\ \E a \in NextAgent(schedAfter) :
       /\ a \in freezed
       /\ schedAfter' = a
  /\ UNCHANGED <<agentVars, groupVars, stVars, stop, restarts>>

\* one visit of an agent: CheckVersion (under the flag), CheckTagAndPool,
\* then one placement attempt per group in queue order
ScheduleAgent ==
  /\ ~stop
  /\ \E a \in NextAgent(schedAfter) :
    /\ a \notin freezed
    /\ LET s1 == IF CheckContainerVersion THEN CheckVersion(SchedState, a)
                 ELSE SchedState
           s2 == CheckTagAndPool(s1, a)
       IN Commit(FoldLeft(LAMBDA acc, g : PlaceStep(acc, a, g), s2, queue))
    /\ schedAfter' = a
  /\ UNCHANGED <<agentVars, groupVars, stop, restarts>>

\* the orders std::sort with ContainerPriorityLess may leave an agent's
\* containers in, walked from the back: BestEffort ones first (ties fall in
\* any order)
VictimOrders(s, a) ==
  {o \in SetToSeqs(s.agentContainers[a]) :
     \A i, j \in DOMAIN o : i < j => ~(s.cprio[o[i]] # BestEffort /\ s.cprio[o[j]] = BestEffort)}

\* Scheduler::ManualSchedule(a, g): the group's first Pending container is
\* put on agent a, evicting the agent's containers one by one (to Pending)
\* until TryPut succeeds; victims evicted before a failure stay evicted
ManualSchedule(a, g) ==
  /\ a \in agents
  /\ g \in groups
  /\ InBucket(SchedState, g, Pending) # {}
  /\ LET c == Sorted(InBucket(SchedState, g, Pending))[1]
         \* acc is <<state, preempt_succ>>
         step(acc, poor) ==
           IF acc[2] THEN acc
           ELSE LET s1 == IF TryPut(acc[1], a, c) THEN acc[1]
                          ELSE ChangeStatus(acc[1], poor, Pending)
                IN IF TryPut(s1, a, c)
                   THEN <<ChangeStatus(Put(s1, a, c), c, Allocating), TRUE>>
                   ELSE <<s1, FALSE>>
     IN /\ CheckTagAndPoolOnce(a, creq[c])
        /\ \E o \in VictimOrders(SchedState, a) :
             Commit(FoldLeft(step, <<SchedState, FALSE>>, o)[1])
  /\ UNCHANGED <<agentVars, groupVars, loopVars>>

(***************************************************************************)
(* Scheduler::MakeCommand: the heartbeat of agent a.  rep maps every      *)
(* container id to the [st, desc] (status or Absent, description) that  *)
(* the agent reports; busy is the set of reported containers whose usage  *)
(* reaches their request (the others report none).  The result is the new *)
(* state, the reserved totals and the commands returned to the agent.     *)
(***************************************************************************)
NoStatus == "NoStatus"     \* remote_status[id] when nothing was recorded
Create   == "Create"
Destroy  == "Destroy"
\* a DESTROY carries no description
NoDesc == [d |-> CHOOSE d \in Descs : TRUE, v |-> 0]
DestroyCmd(c) == [act |-> Destroy, c |-> c, desc |-> NoDesc]

Stale(s, rep, c) == CheckContainerVersion /\ rep[c].desc.v # s.creq[c].v

\* variant of ExpiredRemote: only version-expired containers destroyed
ExpiredRemoteStaleOnly(s, a, rep) ==
  {c \in Containers : rep[c].st # Absent /\ c \in s.agentContainers[a] /\ Stale(s, rep, c)}

\* first loop: the reported containers that get a DESTROY, those the agent
\* does not hold and (under the flag) those of another version
ExpiredRemote(s, a, rep) ==
  {c \in Containers : rep[c].st # Absent
                      /\ (c \notin s.agentContainers[a] \/ Stale(s, rep, c))}

\* the remote status the first loop records for a local container
RemoteSt(s, rep, c) ==
  IF rep[c].st = Absent \/ Stale(s, rep, c) THEN NoStatus ELSE rep[c].st

\* variants of Reconcile: a Ready container whose agent lost it set to
\* Pending in place; a Destroying one the agent no longer has kept
\* Destroying; an Allocating one the agent reports Ready left Allocating
ReconcileNoEvict(s, a, st, c) ==
  CASE GroupOf(c) \notin groups -> Evict(s, a, c)
    [] s.status[c] = Allocating /\ st = Ready  -> ChangeStatus(s, c, Ready)
    [] s.status[c] = Allocating /\ st = Finish -> ChangeStatus(s, c, Terminated)
    [] s.status[c] = Allocating /\ st = Error  -> ChangeStatus(s, c, Pending)
    [] s.status[c] = Ready /\ st = Finish      -> ChangeStatus(s, c, Terminated)
    [] s.status[c] = Ready /\ st # Ready       ->
           [s EXCEPT !.status[c] = Pending, !.states[c] = {Pending}]
    [] s.status[c] = Destroying /\ st = NoStatus -> ChangeStatus(s, c, Terminated)
    [] OTHER -> s
ReconcileNoTerminate(s, a, st, c) ==
  CASE GroupOf(c) \notin groups -> Evict(s, a, c)
    [] s.status[c] = Allocating /\ st = Ready  -> ChangeStatus(s, c, Ready)
    [] s.status[c] = Allocating /\ st = Finish -> ChangeStatus(s, c, Terminated)
    [] s.status[c] = Allocating /\ st = Error  -> ChangeStatus(s, c, Pending)
    [] s.status[c] = Ready /\ st = Finish      -> ChangeStatus(s, c, Terminated)
    [] s.status[c] = Ready /\ st # Ready       -> ChangeStatus(s, c, Pending)
    [] OTHER -> s
ReconcileNoReady(s, a, st, c) ==
  CASE GroupOf(c) \notin groups -> Evict(s, a, c)
    [] s.status[c] = Allocating /\ st = Finish -> ChangeStatus(s, c, Terminated)
    [] s.status[c] = Allocating /\ st = Error  -> ChangeStatus(s, c, Pending)
    [] s.status[c] = Ready /\ st = Finish      -> ChangeStatus(s, c, Terminated)
    [] s.status[c] = Ready /\ st # Ready       -> ChangeStatus(s, c, Pending)
    [] s.status[c] = Destroying /\ st = NoStatus -> ChangeStatus(s, c, Terminated)
    [] OTHER -> s

\* second loop: what the local container's status and the remote one lead to
Reconcile(s, a, st, c) ==
  CASE GroupOf(c) \notin groups -> Evict(s, a, c)
    [] s.status[c] = Allocating /\ st = Ready  -> ChangeStatus(s, c, Ready)
    [] s.status[c] = Allocating /\ st = Finish -> ChangeStatus(s, c, Terminated)
    [] s.status[c] = Allocating /\ st = Error  -> ChangeStatus(s, c, Pending)
    [] s.status[c] = Ready /\ st = Finish      -> ChangeStatus(s, c, Terminated)
    [] s.status[c] = Ready /\ st # Ready       -> ChangeStatus(s, c, Pending)
    [] s.status[c] = Destroying /\ st = NoStatus -> ChangeStatus(s, c, Terminated)
    [] OTHER -> s

\* the command the second loop emits for a local container, as a set
LocalCommand(s, st, c) ==
  IF GroupOf(c) \notin groups THEN {}
  ELSE CASE s.status[c] = Allocating /\ st = Error -> {DestroyCmd(c)}
         [] s.status[c] = Allocating /\ st \notin {Ready, Finish} ->
                {[act |-> Create, c |-> c, desc |-> gdesc[GroupOf(c)]]}
         [] s.status[c] = Ready /\ st = Error -> {DestroyCmd(c)}
         [] s.status[c] = Destroying /\ st \notin {NoStatus, Terminated} ->
                {DestroyCmd(c)}
         [] OTHER -> {}

MakeCommand(a, rep, busy) ==
  LET s0 == SchedState
      reported == {c \in Containers : rep[c].st # Absent}
      local    == s0.agentContainers[a]
      live     == reported \cap local
      sN == FoldLeft(LAMBDA acc, c : Reconcile(acc, a, RemoteSt(s0, rep, c), c),
                     s0, Sorted(local))
  IN IF a \notin agents
     THEN [s |-> s0, cmds |-> {DestroyCmd(c) : c \in reported},
           cpuR |-> cpuReserved[a], memR |-> memReserved[a]]
     ELSE [s |-> sN,
           cmds |-> {DestroyCmd(c) : c \in ExpiredRemote(s0, a, rep)}
                    \cup UNION {LocalCommand(s0, RemoteSt(s0, rep, c), c) : c \in local},
           cpuR |-> CpuReservedOf(s0, live, busy \cap live),
           memR |-> MemReservedOf(s0, live, busy \cap live)]

=============================================================================
