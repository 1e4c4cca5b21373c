------------------------------ MODULE AgentHost ------------------------------
(***************************************************************************)
(* The containers an agent host runs, src/src/agent/container/container.cc *)
(* (Construct, Destroy, KeepAlive), and the agent's handling of the       *)
(* commands a heartbeat response carries.  The agent's service loop and  *)
(* the status machine class are not under src/; the steps they take are   *)
(* modelled from the specification of the heartbeat protocol.             *)
(*                                                                        *)
(* Construct and Destroy are split at the points another thread of the   *)
(* agent can observe the container's status (a heartbeat reports it).    *)
(***************************************************************************)

CONSTANTS
  Agents,      \* agent endpoints
  Ids,         \* container ids
  DescValues   \* the descriptions a CREATE may carry

VARIABLES
  hstatus,     \* per agent and id: the container's status, or HAbsent
  hdesc,       \* per agent and id: the description it was created with
  inbox        \* per agent: the commands of the last heartbeat response
               \* not yet carried out (a lost response delivers none)

hostVars == <<hstatus, hdesc, inbox>>

HAbsent      == "Absent"
HAllocating  == "Allocating"
HReady       == "Ready"
HError       == "Error"
HFinish      == "Finish"
HDestroying  == "Destroying"
HTerminated  == "Terminated"
HostStatus == {HAbsent, HAllocating, HReady, HError, HFinish, HDestroying, HTerminated}

Commands == [act : {"Create", "Destroy"}, c : Ids, desc : DescValues]

HostTypeOK ==
  /\ hstatus \in [Agents -> [Ids -> HostStatus]]
  /\ hdesc \in [Agents -> [Ids -> DescValues]]
  /\ inbox \in [Agents -> SUBSET Commands]

\* what the agent reports in a heartbeat: every container it has
\* (status HAbsent for one it does not have)
Report(a) == [c \in Ids |-> [st |-> hstatus[a][c], desc |-> hdesc[a][c]]]

HostInit(desc0) ==
  /\ hstatus = [a \in Agents |-> [c \in Ids |-> HAbsent]]
  /\ hdesc = [a \in Agents |-> [c \in Ids |-> desc0]]
  /\ inbox = [a \in Agents |-> {}]

\* a CREATE: a new container object, then Container::Construct enters
\* Allocating; for an id the agent already has, the command is dropped
ApplyCreate(a, cmd) ==
  /\ cmd \in inbox[a] /\ cmd.act = "Create"
  /\ inbox' = [inbox EXCEPT ![a] = @ \ {cmd}]
  /\ IF hstatus[a][cmd.c] = HAbsent
     THEN /\ hstatus' = [hstatus EXCEPT ![a][cmd.c] = HAllocating]
          /\ hdesc' = [hdesc EXCEPT ![a][cmd.c] = cmd.desc]
     ELSE UNCHANGED <<hstatus, hdesc>>

\* the end of Container::Construct: Construct_ succeeds (Ready) or fails (Error)
ConstructDone(a, c) ==
  /\ hstatus[a][c] = HAllocating
  /\ \E st \in {HReady, HError} : hstatus' = [hstatus EXCEPT ![a][c] = st]
  /\ UNCHANGED <<hdesc, inbox>>

\* a DESTROY: Container::Destroy enters Destroying; a container that is
\* absent, still being built or already going away is left alone
ApplyDestroy(a, cmd) ==
  /\ cmd \in inbox[a] /\ cmd.act = "Destroy"
  /\ inbox' = [inbox EXCEPT ![a] = @ \ {cmd}]
  /\ IF hstatus[a][cmd.c] \in {HReady, HError, HFinish}
     THEN hstatus' = [hstatus EXCEPT ![a][cmd.c] = HDestroying]
     ELSE UNCHANGED hstatus
  /\ UNCHANGED hdesc

\* the rest of Container::Destroy: the appworker still alive after SIGTERM
\* before the kill timeout (back to Ready, to be destroyed again), Destroy_
\* failing (Error) or succeeding (Terminated)
DestroyDone(a, c) ==
  /\ hstatus[a][c] = HDestroying
  /\ \E st \in {HReady, HError, HTerminated} : hstatus' = [hstatus EXCEPT ![a][c] = st]
  /\ UNCHANGED <<hdesc, inbox>>

\* Container::KeepAlive: a Ready container whose process is gone enters
\* Finished when it left an exit file, Error otherwise
KeepAlive(a, c) ==
  /\ hstatus[a][c] = HReady
  /\ \E st \in {HFinish, HError} : hstatus' = [hstatus EXCEPT ![a][c] = st]
  /\ UNCHANGED <<hdesc, inbox>>

\* the agent drops a Terminated container from its map
Reap(a, c) ==
  /\ hstatus[a][c] = HTerminated
  /\ hstatus' = [hstatus EXCEPT ![a][c] = HAbsent]
  /\ UNCHANGED <<hdesc, inbox>>

HostNext ==
  \E a \in Agents :
    \/ \E cmd \in inbox[a] : ApplyCreate(a, cmd) \/ ApplyDestroy(a, cmd)
    \/ \E c \in Ids : ConstructDone(a, c) \/ DestroyDone(a, c)
                      \/ KeepAlive(a, c) \/ Reap(a, c)

\* a heartbeat response reaching the agent: the commands it carries, once
\* the agent has carried out the ones before (Galaxy's Heartbeat)
Deliver(a, cmds) ==
  /\ inbox[a] = {}
  /\ inbox' = [inbox EXCEPT ![a] = cmds]
  /\ UNCHANGED <<hstatus, hdesc>>

\* what an agent host promises by itself: the lifecycle of its containers
\* under any sequence of commands
HostStep == HostNext \/ \E a \in Agents, cmds \in SUBSET Commands : Deliver(a, cmds)

HostSpec(desc0) == HostInit(desc0) /\ [][HostStep]_hostVars

=============================================================================
