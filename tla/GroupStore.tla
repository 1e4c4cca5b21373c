----------------------------- MODULE GroupStore -----------------------------
(***************************************************************************)
(* What the resource manager promises about container groups, seen from  *)
(* the outside (the AppMaster's CreateContainerGroup, UpdateContainerGroup *)
(* and RemoveContainerGroup calls): a group id is used once; a created     *)
(* group holds the description it was last given; a killed group stays    *)
(* killed, still accepts an update (Scheduler::Update does not look at the *)
(* terminated flag), and is eventually erased by the GC.                  *)
(*                                                                        *)
(* Galaxy is shown to implement this specification (GroupsRefined), and   *)
(* the AppMaster model uses it as the resource manager it talks to.       *)
(***************************************************************************)

CONSTANTS
  GroupIds,    \* container group ids
  GroupDescs   \* the descriptions a group may be given

VARIABLES
  rmStatus,    \* per group id: NoGroup, Live, Killed or Gone
  rmDesc       \* per group id: the description it holds

gsVars == <<rmStatus, rmDesc>>

NoGroup == "NoGroup"
Live    == "Live"
Killed  == "Killed"
Gone    == "Gone"
GroupStatus == {NoGroup, Live, Killed, Gone}

\* the ids an update or a kill finds (container_groups_ holds them)
Known == {g \in GroupIds : rmStatus[g] \in {Live, Killed}}

GSTypeOK ==
  /\ rmStatus \in [GroupIds -> GroupStatus]
  /\ rmDesc \in [GroupIds -> GroupDescs]

GSInit ==
  /\ rmStatus = [g \in GroupIds |-> NoGroup]
  /\ rmDesc \in [GroupIds -> GroupDescs]

\* Scheduler::Submit under an id never used before
Create(g, d) ==
  /\ rmStatus[g] = NoGroup
  /\ rmStatus' = [rmStatus EXCEPT ![g] = Live]
  /\ rmDesc' = [rmDesc EXCEPT ![g] = d]

\* Scheduler::Update of a group in container_groups_, killed or not
UpdateGroup(g, d) ==
  /\ g \in Known
  /\ rmDesc' = [rmDesc EXCEPT ![g] = d]
  /\ UNCHANGED rmStatus

\* Scheduler::Kill of a group in container_groups_ (again, if killed)
KillGroup(g) ==
  /\ g \in Known
  /\ rmStatus' = [rmStatus EXCEPT ![g] = Killed]
  /\ UNCHANGED rmDesc

\* Scheduler::CheckContainerGroupGC erasing a killed group
CollectGroup(g) ==
  /\ rmStatus[g] = Killed
  /\ rmStatus' = [rmStatus EXCEPT ![g] = Gone]
  /\ UNCHANGED rmDesc

GSNext ==
  \E g \in GroupIds :
    \/ \E d \in GroupDescs : Create(g, d) \/ UpdateGroup(g, d)
    \/ KillGroup(g)
    \/ CollectGroup(g)

GSSpec == GSInit /\ [][GSNext]_gsVars

=============================================================================
