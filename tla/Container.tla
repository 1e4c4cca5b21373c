------------------------------ MODULE Container ------------------------------
(***************************************************************************)
(* The containers of one agent in detail, src/src/agent/container/       *)
(* container.cc: Construct_ building the cgroups one by one, the volum    *)
(* group and the appworker process, each step of which can fail; Destroy  *)
(* with its kill timeout, SIGTERM and Destroy_ (kill the pid, destroy the *)
(* cgroups in order, destroy the volum group), each of which can fail;    *)
(* KeepAlive; and the OOM check of the galaxy memory subsystem            *)
(* (src/src/agent/cgroup/galaxy_memory_subsystem.cc) running on the      *)
(* appworker's cgroup, the first of the description.                     *)
(*                                                                        *)
(* The host is part of the model: the process table (the agent reaps a   *)
(* dead appworker at once in SigChldHandler, src/src/agent/agent_main.cc, *)
(* and the kernel may give its pid to any later process), the cgroups and *)
(* volumes that exist, and the memory the appworker's cgroup is charged. *)
(* Cgroup, VolumGroup, Process and the status machine are not under src/: *)
(* their calls succeed or fail nondeterministically, and a Cgroup whose   *)
(* Construct fails is assumed to leave nothing behind.                    *)
(*                                                                        *)
(* Container implements AgentHost for one agent (HostRefined).            *)
(***************************************************************************)
EXTENDS Integers, FiniteSets

CONSTANTS
  Ids,        \* container ids
  Pids,       \* the pids the kernel hands out
  NCg,        \* desc_.cgroups_size()
  MemLimit,   \* cgroup_->memory().size() of the appworker's cgroup
  MaxMem,     \* the largest rss or page cache the cgroup is charged
  Width       \* bits of the unsigned integer OomCheckRoutine computes in

ASSUME NCg \in Nat \ {0} /\ Pids \subseteq Nat \ {0}

VARIABLES
  status,     \* per id: status_ of the agent's Container, Absent if none
  inbox,      \* the commands of the last heartbeat response not yet applied
  obj,        \* per id: the Container object's fields (see Obj)
  cgLive,     \* per id: the cgroups of the description that exist on the host
  vol,        \* per id: the volum group is mounted
  procs,      \* per pid: the container whose appworker holds it, Free or Other
  rss,        \* per id: rss charged to the appworker's cgroup
  cache,      \* per id: page cache charged to it
  oomUsage,   \* per id: memory.usage_in_bytes read by the running check, or NoRead
  oomRss,     \* history: the rss when that usage was read
  oomUnjust   \* history: ids whose appworker an OOM check killed while its
              \* rss stayed within the limit during the whole check

vars == <<status, inbox, obj, cgLive, vol, procs, rss, cache, oomUsage, oomRss, oomUnjust>>

Absent == "Absent"  Allocating == "Allocating"  Ready == "Ready"  Error == "Error"
Finish == "Finish"  Destroying == "Destroying"  Terminated == "Terminated"
Statuses == {Absent, Allocating, Ready, Error, Finish, Destroying, Terminated}

Free == "Free"
Other == "Other"
NoRead == -1
D0 == "desc"

Commands == [act : {"Create", "Destroy"}, c : Ids, desc : {D0}]

\* step: the next step of Construct_; cgs: the size of cgroup_; pid:
\* process_->Pid(); deadline: force_kill_time_ unset, set or passed; aged:
\* 10 s have passed since created_time_; exitFile: the appworker left .exit
Obj == [step : {"Cgroups", "Volum", "Process", "Idle"}, cgs : 0 .. NCg, pid : Pids \cup {0},
        deadline : {"Unset", "Set", "Expired"}, aged : BOOLEAN, exitFile : BOOLEAN]
NewObj == [step |-> "Cgroups", cgs |-> 0, pid |-> 0, deadline |-> "Unset",
           aged |-> FALSE, exitFile |-> FALSE]

CTypeOK ==
  /\ status \in [Ids -> Statuses]
  /\ inbox \subseteq Commands
  /\ obj \in [Ids -> Obj]
  /\ cgLive \in [Ids -> SUBSET (1 .. NCg)]
  /\ vol \in [Ids -> BOOLEAN]
  /\ procs \in [Pids -> Ids \cup {Free, Other}]
  /\ rss \in [Ids -> 0 .. MaxMem] /\ cache \in [Ids -> 0 .. MaxMem]
  /\ oomUsage \in [Ids -> {NoRead} \cup 0 .. 2 * MaxMem]
  /\ oomUnjust \subseteq Ids

Init ==
  /\ status = [c \in Ids |-> Absent]
  /\ inbox = {}
  /\ obj = [c \in Ids |-> [NewObj EXCEPT !.step = "Idle"]]
  /\ cgLive = [c \in Ids |-> {}]
  /\ vol = [c \in Ids |-> FALSE]
  /\ procs = [p \in Pids |-> Free]
  /\ rss = [c \in Ids |-> 0] /\ cache = [c \in Ids |-> 0]
  /\ oomUsage = [c \in Ids |-> NoRead] /\ oomRss = [c \in Ids |-> 0]
  /\ oomUnjust = {}

memVars == <<rss, cache, oomUsage, oomRss, oomUnjust>>

\* Container::Alive: a pid, and /proc/<pid>/environ names this container
Alive(c) == obj[c].pid > 0 /\ procs[obj[c].pid] = c

\* the commands of a heartbeat response reach the agent
Deliver(cmd) ==
  /\ inbox = {}
  /\ inbox' = {cmd}
  /\ UNCHANGED <<status, obj, cgLive, vol, procs, memVars>>

(***************************************************************************)
(* Construction                                                            *)
(***************************************************************************)
\* a CREATE: a new Container object whose Construct enters Allocating; a
\* CREATE for an id the agent has is dropped
ApplyCreate(cmd) ==
  /\ cmd \in inbox /\ cmd.act = "Create"
  /\ inbox' = inbox \ {cmd}
  /\ IF status[cmd.c] = Absent
     THEN /\ status' = [status EXCEPT ![cmd.c] = Allocating]
          /\ obj' = [obj EXCEPT ![cmd.c] = NewObj]
     ELSE UNCHANGED <<status, obj>>
  /\ UNCHANGED <<cgLive, vol, procs, memVars>>

\* mutant: ConstructCgroup's loop runs to i <= cgroups_size()
ConstructCgroupsPastEnd(c) ==
  /\ status[c] = Allocating /\ obj[c].step = "Cgroups"
  /\ LET i == obj[c].cgs + 1
     IN /\ cgLive' = [cgLive EXCEPT ![c] = @ \cup {i}]
        /\ obj' = [obj EXCEPT ![c].cgs = i,
                              ![c].step = IF i = NCg + 1 THEN "Volum" ELSE "Cgroups"]
        /\ UNCHANGED status
  /\ UNCHANGED <<inbox, vol, procs, memVars>>

\* one turn of ConstructCgroup's loop; when cg->Construct fails the loop
\* stops and the cgroups built so far are destroyed, a failed destroy only
\* logged, cgroup_ keeping them all; Construct_ then fails and Construct
\* enters Error
ConstructCgroups(c) ==
  /\ status[c] = Allocating /\ obj[c].step = "Cgroups"
  /\ LET i == obj[c].cgs + 1
     IN \/ /\ cgLive' = [cgLive EXCEPT ![c] = @ \cup {i}]
           /\ obj' = [obj EXCEPT ![c].cgs = i,
                                 ![c].step = IF i = NCg THEN "Volum" ELSE "Cgroups"]
           /\ UNCHANGED status
        \/ /\ \E kept \in SUBSET cgLive[c] : cgLive' = [cgLive EXCEPT ![c] = kept]
           /\ obj' = [obj EXCEPT ![c].step = "Idle"]
           /\ status' = [status EXCEPT ![c] = Error]
  /\ UNCHANGED <<inbox, vol, procs, memVars>>

\* ConstructVolumGroup: on failure Construct_ returns, the cgroups stay
ConstructVolum(c) ==
  /\ status[c] = Allocating /\ obj[c].step = "Volum"
  /\ \/ /\ vol' = [vol EXCEPT ![c] = TRUE]
        /\ obj' = [obj EXCEPT ![c].step = "Process"]
        /\ UNCHANGED status
     \/ /\ obj' = [obj EXCEPT ![c].step = "Idle"]
        /\ status' = [status EXCEPT ![c] = Error]
        /\ UNCHANGED vol
  /\ UNCHANGED <<inbox, cgLive, procs, memVars>>

\* ConstructProcess: the clone takes a free pid and Construct enters Ready,
\* or fails (pid <= 0) and Construct enters Error
ConstructProcess(c) ==
  /\ status[c] = Allocating /\ obj[c].step = "Process"
  /\ \/ \E p \in Pids :
          /\ procs[p] = Free
          /\ procs' = [procs EXCEPT ![p] = c]
          /\ obj' = [obj EXCEPT ![c].pid = p, ![c].step = "Idle"]
          /\ status' = [status EXCEPT ![c] = Ready]
     \/ /\ obj' = [obj EXCEPT ![c].step = "Idle"]
        /\ status' = [status EXCEPT ![c] = Error]
        /\ UNCHANGED procs
  /\ UNCHANGED <<inbox, cgLive, vol, memVars>>

\* Container::Construct_ and the end of Construct: the cgroups, the volum
\* group and the process in this order, one step at a time; the first
\* failure returns and Construct enters Error, the last success Ready
Construct_(c) == ConstructCgroups(c) \/ ConstructVolum(c) \/ ConstructProcess(c)

(***************************************************************************)
(* Destruction                                                             *)
(***************************************************************************)
\* a DESTROY: Destroy enters Destroying (the status machine refuses it in
\* the other statuses) and SetExpiredTimeIfAbsent sets the kill deadline
\* the first time only
ApplyDestroy(cmd) ==
  /\ cmd \in inbox /\ cmd.act = "Destroy"
  /\ inbox' = inbox \ {cmd}
  /\ IF status[cmd.c] \in {Ready, Error, Finish}
     THEN /\ status' = [status EXCEPT ![cmd.c] = Destroying]
          /\ obj' = [obj EXCEPT ![cmd.c].deadline =
                       IF @ = "Unset" THEN "Set" ELSE @]
     ELSE UNCHANGED <<status, obj>>
  /\ UNCHANGED <<cgLive, vol, procs, memVars>>

\* mutant: Destroy_ returns after the cgroups, leaving the volum group
Destroy_NoVolum(c, pr) ==
  LET p == obj[c].pid
  IN \E killOk \in IF p > 0 /\ pr[p] = Free THEN BOOLEAN ELSE {TRUE},
        k \in 0 .. obj[c].cgs :
       /\ procs' = IF p > 0 /\ killOk THEN [pr EXCEPT ![p] = Free] ELSE pr
       /\ cgLive' = IF killOk THEN [cgLive EXCEPT ![c] = @ \ (1 .. k)] ELSE cgLive
       /\ UNCHANGED vol
       /\ status' = [status EXCEPT ![c] =
                       IF killOk /\ k = obj[c].cgs THEN Terminated ELSE Error]

\* Container::Destroy_ from the process table pr: kill the pid (whatever
\* process holds it now; a pid nobody holds may make Kill fail), destroy
\* cgroup_ in order up to the first failure, destroy the volum group;
\* Terminated if all succeed, Error otherwise
Destroy_(c, pr) ==
  LET p == obj[c].pid
  IN \E killOk \in IF p > 0 /\ pr[p] = Free THEN BOOLEAN ELSE {TRUE},
        k \in 0 .. obj[c].cgs, volOk \in BOOLEAN :
       /\ procs' = IF p > 0 /\ killOk THEN [pr EXCEPT ![p] = Free] ELSE pr
       /\ cgLive' = IF killOk THEN [cgLive EXCEPT ![c] = @ \ (1 .. k)] ELSE cgLive
       /\ vol' = IF killOk /\ k = obj[c].cgs /\ volOk THEN [vol EXCEPT ![c] = FALSE] ELSE vol
       /\ status' = [status EXCEPT ![c] =
                       IF killOk /\ k = obj[c].cgs /\ volOk THEN Terminated ELSE Error]

\* the rest of Container::Destroy: before the deadline, a live appworker
\* gets SIGTERM; if it is still alive Destroy goes back to Ready, if it
\* exited (and was reaped) Destroy_ runs; past the deadline, or with no
\* live appworker, Destroy_ runs at once
DestroyStep(c) ==
  /\ status[c] = Destroying
  /\ LET term == obj[c].deadline # "Expired" /\ Alive(c)
     IN \/ /\ term
           /\ status' = [status EXCEPT ![c] = Ready]
           /\ UNCHANGED <<cgLive, vol, procs>>
        \/ Destroy_(c, IF term THEN [procs EXCEPT ![obj[c].pid] = Free] ELSE procs)
  /\ UNCHANGED <<inbox, obj, memVars>>

\* mutant: KeepAlive without the kContainerReady check
KeepAliveAnyStatus(c) ==
  /\ obj[c].aged /\ status[c] # Absent /\ ~Alive(c)
  /\ status' = [status EXCEPT ![c] = IF obj[c].exitFile THEN Finish ELSE Error]
  /\ UNCHANGED <<inbox, obj, cgLive, vol, procs, memVars>>

\* Container::KeepAlive: 10 s after creation, a Ready container whose
\* appworker is gone enters Finished if it left .exit, Error otherwise
KeepAlive(c) ==
  /\ obj[c].aged /\ status[c] = Ready /\ ~Alive(c)
  /\ status' = [status EXCEPT ![c] = IF obj[c].exitFile THEN Finish ELSE Error]
  /\ UNCHANGED <<inbox, obj, cgLive, vol, procs, memVars>>

\* the agent drops a Terminated container; the object, its cgroup_ and
\* with them the memory subsystem's check routine go away
Reap(c) ==
  /\ status[c] = Terminated
  /\ status' = [status EXCEPT ![c] = Absent]
  /\ oomUsage' = [oomUsage EXCEPT ![c] = NoRead]
  /\ UNCHANGED <<inbox, obj, cgLive, vol, procs, rss, cache, oomRss, oomUnjust>>

(***************************************************************************)
(* The OOM check                                                           *)
(***************************************************************************)
\* the memory subsystem of the first cgroup was constructed, and scheduled
\* OomCheckRoutine, which reschedules itself for as long as it lives
OomActive(c) == status[c] # Absent /\ obj[c].cgs >= 1

\* OomCheckRoutine's Collect reads memory.usage_in_bytes (rss + cache); if
\* the cgroup is gone Collect fails, both counters stay 0, nothing happens
OomReadUsage(c) ==
  /\ OomActive(c) /\ oomUsage[c] = NoRead /\ 1 \in cgLive[c]
  /\ oomUsage' = [oomUsage EXCEPT ![c] = rss[c] + cache[c]]
  /\ oomRss' = [oomRss EXCEPT ![c] = rss[c]]
  /\ UNCHANGED <<status, inbox, obj, cgLive, vol, procs, rss, cache, oomUnjust>>

\* the rest of Collect: the cache line of memory.stat, 0 when the cgroup
\* is gone (Collect fails and leaves the field unset)
CollectCache(c) == IF 1 \in cgLive[c] THEN cache[c] ELSE 0

\* OomKill: the first pid of cgroup.procs, if the cgroup exists and holds
\* the appworker (pid 0 otherwise, and nothing is killed)
OomVictim(c) == IF 1 \in cgLive[c] /\ Alive(c) THEN obj[c].pid ELSE 0

\* the rest of OomCheckRoutine: usage - cache computed unsigned, and above
\* the limit OomKill kills the victim's process group; the routine
\* reschedules itself either way
OomCheck(c) ==
  /\ oomUsage[c] # NoRead
  /\ LET mem == (oomUsage[c] - CollectCache(c)) % (2 ^ Width)
         kill == mem > MemLimit /\ OomVictim(c) # 0
     IN /\ procs' = IF kill THEN [procs EXCEPT ![OomVictim(c)] = Free] ELSE procs
        /\ oomUnjust' = IF kill /\ oomRss[c] <= MemLimit /\ rss[c] <= MemLimit
                        THEN oomUnjust \cup {c} ELSE oomUnjust
  /\ oomUsage' = [oomUsage EXCEPT ![c] = NoRead]
  /\ UNCHANGED <<status, inbox, obj, cgLive, vol, rss, cache, oomRss>>

(***************************************************************************)
(* The host                                                                *)
(***************************************************************************)
\* time passes: created_time_ is 10 s old, the kill deadline passes
TimePasses(c) ==
  /\ \/ ~obj[c].aged /\ obj' = [obj EXCEPT ![c].aged = TRUE]
     \/ obj[c].deadline = "Set" /\ obj' = [obj EXCEPT ![c].deadline = "Expired"]
  /\ UNCHANGED <<status, inbox, cgLive, vol, procs, memVars>>

\* the appworker exits, leaving .exit or not, and SigChldHandler reaps it
AppExit(c) ==
  /\ Alive(c)
  /\ procs' = [procs EXCEPT ![obj[c].pid] = Free]
  /\ \E f \in BOOLEAN : obj' = [obj EXCEPT ![c].exitFile = f]
  /\ UNCHANGED <<status, inbox, cgLive, vol, memVars>>

\* the appworker's memory use changes
MemChange(c) ==
  /\ Alive(c)
  /\ \E v \in 0 .. MaxMem :
       \/ rss' = [rss EXCEPT ![c] = v] /\ UNCHANGED cache
       \/ cache' = [cache EXCEPT ![c] = v] /\ UNCHANGED rss
  /\ UNCHANGED <<status, inbox, obj, cgLive, vol, procs, oomUsage, oomRss, oomUnjust>>

\* some other process of the host takes a free pid
OtherSpawn(p) ==
  /\ procs[p] = Free
  /\ procs' = [procs EXCEPT ![p] = Other]
  /\ UNCHANGED <<status, inbox, obj, cgLive, vol, memVars>>

Next ==
  \/ \E cmd \in Commands : Deliver(cmd)
  \/ \E cmd \in inbox : ApplyCreate(cmd) \/ ApplyDestroy(cmd)
  \/ \E c \in Ids :
       \/ Construct_(c) \/ DestroyStep(c) \/ KeepAlive(c) \/ Reap(c)
       \/ OomReadUsage(c) \/ OomCheck(c)
       \/ TimePasses(c) \/ AppExit(c) \/ MemChange(c)
  \/ \E p \in Pids : OtherSpawn(p)

Spec == Init /\ [][Next]_vars


(***************************************************************************)
(* Properties                                                              *)
(***************************************************************************)
A0 == "agent"

\* the abstract host seen through one agent's containers: the status and
\* the commands are the same, every CREATE carries the one description
AH == INSTANCE AgentHost WITH Agents <- {A0}, DescValues <- {D0},
        hstatus <- [a \in {A0} |-> status],
        hdesc <- [a \in {A0} |-> [c \in Ids |-> D0]],
        inbox <- [a \in {A0} |-> inbox]

\* Container implements the abstract lifecycle of AgentHost: Construct_
\* step by step, Destroy with its SIGTERM, timeout and Destroy_, KeepAlive
\* and the OOM check change the status only in the ways AgentHost allows
HostRefined == AH!HostInit(D0) /\ [][AH!HostStep]_AH!hostVars

\* a container the agent no longer runs, or has destroyed (Terminated),
\* holds nothing on the host: Destroy_ reports success only once the
\* appworker is killed, every cgroup destroyed and the volum group gone,
\* across partial failures, retries and a SIGTERM racing the exit
ResourcesReleased ==
  \A c \in Ids : status[c] \in {Absent, Terminated} =>
      /\ cgLive[c] = {} /\ ~vol[c]
      /\ \A p \in Pids : procs[p] # c

\* the agent only kills its own containers' processes: no step of a
\* container (Destroy_'s Process::Kill of process_->Pid(), the OOM check's
\* killpg) ends a process that is not an appworker
OthersUntouched ==
  [][\A p \in Pids : procs[p] = Other => procs'[p] = Other]_procs

\* the OOM check kills an appworker only when its memory without page
\* cache (what OomCheckRoutine compares with the limit) exceeded the limit
\* at some point of the check
OomKillJustified == oomUnjust = {}

=============================================================================
