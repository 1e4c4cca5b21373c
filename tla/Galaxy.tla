------------------------------- MODULE Galaxy -------------------------------
(***************************************************************************)
(* The resource manager's scheduler together with the agent hosts it     *)
(* drives.  The two interact only through heartbeats: an agent reports    *)
(* its containers, Scheduler::MakeCommand answers with CREATE and DESTROY *)
(* commands, and the agent carries them out later (or never, when the     *)
(* response is lost).  The resource manager registers an agent with      *)
(* AddAgent and drops it with RemoveAgent when its heartbeats time out;   *)
(* the users' intent (Submit, Update, ChangeReplica, Kill, SetPool,       *)
(* FreezeAgent, ThawAgent) arrives at any time.                           *)
(***************************************************************************)
EXTENDS Scheduler

CONSTANT ReportsUsage  \* whether agents report usage (FALSE: always none)

VARIABLES hstatus, hdesc, inbox

Host == INSTANCE AgentHost WITH Ids <- Containers, DescValues <- Requirements

vars == <<schedVars, hstatus, hdesc, inbox>>

DefaultReq == [d |-> CHOOSE d \in Descs : TRUE, v |-> ClientVersion]

Init ==
  /\ agents = {} /\ freezed = {}
  /\ pool = [a \in Agents |-> CHOOSE p \in Pools : TRUE]
  /\ tags = [a \in Agents |-> {}]
  /\ cpuAssigned = [a \in Agents |-> 0] /\ memAssigned = [a \in Agents |-> 0]
  /\ cpuDeepAssigned = [a \in Agents |-> 0] /\ memDeepAssigned = [a \in Agents |-> 0]
  /\ portAssigned = [a \in Agents |-> {}]
  /\ agentContainers = [a \in Agents |-> {}]
  /\ cpuReserved = [a \in Agents |-> 0] /\ memReserved = [a \in Agents |-> 0]
  /\ groups = {} /\ queue = <<>> /\ submitted = {} /\ terminated = {}
  /\ replica = [g \in Groups |-> 0]
  /\ require = [g \in Groups |-> DefaultReq]
  /\ gdesc = [g \in Groups |-> DefaultReq]
  /\ priority = [g \in Groups |-> BestEffort]
  /\ updateInterval = [g \in Groups |-> 0]
  /\ due = [g \in Groups |-> TRUE]
  /\ lastSched = [g \in Groups |-> NoContainer(g)]
  /\ members = {}
  /\ status = [c \in Containers |-> Pending]
  /\ states = [c \in Containers |-> {}]
  /\ allocAgent = [c \in Containers |-> NoAgent]
  /\ creq = [c \in Containers |-> DefaultReq]
  /\ cprio = [c \in Containers |-> BestEffort]
  /\ schedAfter = 0 /\ stop = FALSE /\ restarts = 0
  /\ Host!HostInit(DefaultReq)

\* the containers agent a reports in a heartbeat
Reported(a) == {c \in Containers : hstatus[a][c] # Absent}
\* the reported containers whose usage may reach their request
BusySets(a) == IF ReportsUsage THEN SUBSET Reported(a) ELSE {{}}

\* an agent's heartbeat: Scheduler::MakeCommand on its report; the response
\* reaches the agent whole, or is lost whole (RPC failure) after the
\* scheduler has already acted on the report; the agent sends the next
\* heartbeat after it has carried out the commands it received
Heartbeat(a, delivered) ==
  /\ inbox[a] = {}
  /\ \E busy \in BusySets(a) :
       \E res \in {MakeCommand(a, Host!Report(a), busy)} :
       /\ Commit(res.s)
       /\ cpuReserved' = [cpuReserved EXCEPT ![a] = res.cpuR]
       /\ memReserved' = [memReserved EXCEPT ![a] = res.memR]
       /\ inbox' = [inbox EXCEPT ![a] = IF delivered THEN res.cmds ELSE {}]
  /\ UNCHANGED <<agents, freezed, pool, tags, groupVars, loopVars, hstatus, hdesc>>

\* the resource manager registers an agent that is not registered
Register(a) ==
  /\ \E p \in Pools, t \in SUBSET Tags, busy \in BusySets(a) :
       AddAgent(a, p, t, Host!Report(a), busy)
  /\ UNCHANGED <<hstatus, hdesc, inbox>>

\* the resource manager's heartbeat timeout for a registered agent
Expire(a) ==
  /\ RemoveAgent(a)
  /\ UNCHANGED <<hstatus, hdesc, inbox>>

SchedNext ==
  \/ \E g \in Groups, d \in Descs, n \in 1 .. MaxReplica, p \in Priorities :
       Submit(g, d, n, p)
  \/ \E g \in Groups : Kill(g) \/ CheckContainerGroupGC(g) \/ TimePasses(g)
  \/ \E g \in Groups, n \in 0 .. MaxReplica, p \in Priorities : ChangeReplica(g, n, p)
  \/ \E g \in Groups, d \in Descs, i \in Intervals : Update(g, d, i)
  \/ \E a \in Agents, p \in Pools : SetPool(a, p)
  \/ \E a \in Agents : FreezeAgent(a) \/ ThawAgent(a)
  \/ \E a \in Agents, t \in Tags : AddTag(a, t) \/ RemoveTag(a, t)
  \/ \E a \in Agents, g \in Groups : ManualSchedule(a, g)
  \/ SchedWrap \/ SchedSkipFrozen \/ ScheduleAgent
  \/ Reload \/ Start

Next ==
  \/ SchedNext /\ UNCHANGED <<hstatus, hdesc, inbox>>
  \/ \E a \in Agents, delivered \in BOOLEAN : Heartbeat(a, delivered)
  \/ \E a \in Agents : Register(a) \/ Expire(a)
  \/ Host!HostNext /\ UNCHANGED schedVars

Spec == Init /\ [][Next]_vars

(***************************************************************************)
(* Fairness.  Every agent keeps sending heartbeats and not every response *)
(* is lost; the GC check Kill leaves on gc_pool_ keeps running (the         *)
(* placement loop needs no fairness here); an agent carries out the      *)
(* commands it received; a Construct ends; a Destroy that                 *)
(* keeps being retried eventually succeeds (the kill timeout forces      *)
(* Destroy_, which is assumed to succeed eventually); Terminated          *)
(* containers are reaped; a restarted resource manager calls Start after *)
(* Reload.  Registration and timeouts get no fairness.                   *)
(***************************************************************************)
HostStep(A) == A /\ UNCHANGED schedVars

Fairness ==
  /\ \A a \in Agents :
       /\ WF_vars(Heartbeat(a, TRUE))
       /\ WF_vars(\E cmd \in inbox[a] :
                    HostStep(Host!ApplyCreate(a, cmd) \/ Host!ApplyDestroy(a, cmd)))
  /\ \A a \in Agents, c \in Containers :
       /\ WF_vars(HostStep(Host!ConstructDone(a, c) \/ Host!Reap(a, c)))
       /\ SF_vars(HostStep(Host!DestroyDone(a, c)) /\ hstatus'[a][c] = Terminated)
  /\ WF_vars(\E g \in Groups : CheckContainerGroupGC(g) /\ UNCHANGED <<hstatus, hdesc, inbox>>)
  /\ WF_vars(Start /\ UNCHANGED <<hstatus, hdesc, inbox>>)

FairSpec == Spec /\ Fairness

(***************************************************************************)
(* Properties.                                                            *)
(***************************************************************************)

TypeOK ==
  /\ agents \subseteq Agents /\ freezed \subseteq agents
  /\ tags \in [Agents -> SUBSET Tags]
  /\ cpuAssigned \in [Agents -> Int] /\ memAssigned \in [Agents -> Int]
  /\ agentContainers \in [Agents -> SUBSET Containers]
  /\ groups \subseteq submitted /\ terminated \subseteq submitted
  /\ members \subseteq Containers
  /\ status \in [Containers -> Status]
  /\ creq \in [Containers -> Requirements] /\ require \in [Groups -> Requirements]
  /\ allocAgent \in [Containers -> Agents \cup {NoAgent}]
  /\ schedAfter \in Agents \cup {0} /\ stop \in BOOLEAN
  /\ Host!HostTypeOK

\* The bookkeeping of Agent::Put, Agent::Evict and ChangeStatus keeps a
\* container that holds resources (Allocating, Ready, Destroying) in the
\* containers_ map of the agent it is allocated to, and no other container
\* there: the rule of the lifecycle that Pending never holds resources.
AllocationAligned ==
  /\ \A c \in members : status[c] \in Placed =>
        /\ allocAgent[c] \in agents
        /\ c \in agentContainers[allocAgent[c]]
  /\ \A c \in members : status[c] = Pending => allocAgent[c] = NoAgent
  /\ \A a \in agents : \A c \in agentContainers[a] :
        c \in members /\ allocAgent[c] = a /\ status[c] \in Placed

\* The totals an agent keeps (cpu_assigned_, memory_assigned_ and the deep
\* ones, port_assigned_) are what its containers' requirements add up to,
\* after any sequence of Put, Evict, SetAssignment and ChangeStatus.
BookkeepingExact ==
  \A a \in agents :
    /\ cpuAssigned[a] = SumOver(agentContainers[a], LAMBDA c : CpuCharge(SchedState, c))
    /\ memAssigned[a] = SumOver(agentContainers[a], LAMBDA c : MemCharge(SchedState, c))
    /\ cpuDeepAssigned[a] = SumOver(agentContainers[a], LAMBDA c : DeepCpuCharge(SchedState, c))
    /\ memDeepAssigned[a] = SumOver(agentContainers[a], LAMBDA c : DeepMemCharge(SchedState, c))
    /\ portAssigned[a] = UNION {creq[c].d.ports : c \in agentContainers[a]}

\* TryPut before every Put keeps an agent's hard assignment within its
\* totals, whatever the heartbeats, adoptions and evictions in between.
CapacityRespected ==
  \A a \in agents : cpuAssigned[a] <= CpuTotal /\ memAssigned[a] <= MemTotal

\* The states buckets of a group hold each container under its status only
\* (Replica(), ScaleDown and the placement loop read the buckets).
BucketsConsistent ==
  \A c \in members : states[c] = {status[c]}

\* No two containers an agent holds share a fixed port: TryPut refuses a
\* container whose ports the agent has assigned, and Evict releases a port
\* only when its one holder leaves.
PortsExclusive ==
  \A a \in agents : \A c1, c2 \in agentContainers[a] :
    c1 # c2 => creq[c1].d.ports \cap creq[c2].d.ports = {}

\* the resources a description makes an agent give a container
Resources(d) == <<d.cpu, d.mem, d.tmpfs, d.ports>>

\* A container the scheduler holds as Ready runs, on the agent it is
\* allocated to, with the resources its requirement charges to that agent:
\* MakeCommand moves Allocating to Ready only on a matching report, and the
\* CREATE it sends carries the group's container_desc.
RunMatchesCharge ==
  \A c \in members :
    (status[c] = Ready /\ hstatus[allocAgent[c]][c] = Ready)
      => Resources(hdesc[allocAgent[c]][c].d) = Resources(creq[c].d)

\* A container of a killed group that is being destroyed stays down: no
\* step of the placement loop, a heartbeat or a registration moves it
\* from Destroying to anything but Terminated.
KilledStaysDown ==
  [][\A c \in members :
       (GroupOf(c) \in terminated /\ status[c] = Destroying)
         => status'[c] \in {Destroying, Terminated}]_vars

\* A visit of the placement loop leaves on the agent only containers the
\* agent accepts: AddTag/RemoveTag and SetPool change an agent under its
\* placed containers, CheckTagAndPool must send those it no longer accepts
\* back to Pending, and TryPut place only accepted ones.
VisitLeavesAccepted ==
  [][(schedAfter' # schedAfter /\ schedAfter' \in agents' \ freezed') =>
       \A c \in agentContainers'[schedAfter'] :
         /\ creq'[c].d.tag \in tags'[schedAfter'] \cup {NoTag}
         /\ pool'[schedAfter'] \in creq'[c].d.pools]_vars

\* the containers of g that are not going away
Working(g) == {c \in GroupMembers(SchedState, g) :
                 status[c] \in {Pending, Allocating, Ready}}

\* ChangeReplica leaves a live group with exactly the new replica of
\* containers that are not going away: ScaleDown's and ScaleUp's count
\* (ContainerGroup::Replica) also counts containers still Destroying.
ReplicaHonoured ==
  [][\A g \in groups \ terminated :
       replica'[g] # replica[g] => Cardinality(Working(g)') = replica'[g]]_vars

\* A killed group is eventually garbage collected: Kill sends its containers
\* to Destroying, heartbeats and agent DESTROYs bring them to Terminated,
\* and CheckContainerGroupGC then erases the group.
KilledGroupCollected ==
  \A g \in Groups : (g \in groups /\ g \in terminated) ~> (g \notin groups)

\* A container placed on an agent does not stay Allocating: the CREATE
\* MakeCommand resends on every heartbeat is eventually carried out, the
\* agent's Construct ends, and the next report moves the container on
\* (Ready, Terminated, or Pending after a failure or a lost agent).
AllocatingResolves ==
  \A c \in Containers : (c \in members /\ status[c] = Allocating) ~> (status[c] # Allocating)

\* A container an agent runs that the scheduler does not hold on that agent
\* (left over from a scale down, a kill, a re-placement or an earlier
\* registration) is eventually destroyed by the DESTROY MakeCommand sends
\* for expired remote containers, or adopted again by AddAgent.
OrphanDestroyed ==
  \A a \in Agents, c \in Containers :
    (hstatus[a][c] = Ready /\ c \notin agentContainers[a])
      ~> (hstatus[a][c] = Absent \/ c \in agentContainers[a])

(***************************************************************************)
(* Refinement.  Seen group by group (submitted, in container_groups_,     *)
(* terminated, container_desc), the scheduler implements GroupStore:     *)
(* every step that changes a group is a Create, an update, a kill or a    *)
(* collection the abstract specification allows, and every other step    *)
(* leaves the group view alone.                                           *)
(***************************************************************************)
GroupView ==
  [g \in Groups |-> CASE g \notin submitted -> "NoGroup"
                     [] g \notin groups    -> "Gone"
                     [] g \in terminated   -> "Killed"
                     [] OTHER              -> "Live"]

GS == INSTANCE GroupStore WITH GroupIds <- Groups, GroupDescs <- Descs,
                               rmStatus <- GroupView,
                               rmDesc <- [g \in Groups |-> gdesc[g].d]

\* The scheduler's group operations keep the promises of GroupStore: an id
\* is used by one Submit only, a killed group never comes back to life,
\* CheckContainerGroupGC erases only killed groups, and only Submit and
\* Update change the description a group holds.
GroupsRefined == GS!GSSpec


=============================================================================
