----------------------------- MODULE AppMaster -----------------------------
(***************************************************************************)
(* The AppMaster's job service, src/src/appmaster/appmaster_impl.cc:      *)
(* SubmitJob, UpdateJob (update and rollback) and RemoveJob each send an  *)
(* asynchronous request to the resource manager (rpc_client_.AsyncRequest *)
(* with a 5 second timeout and no retry) and return; the callback bound   *)
(* to the request later records the outcome in job_manager_ and answers   *)
(* the client.  The callback runs with failed = true when the request     *)
(* times out, whether or not the resource manager has carried it out,    *)
(* and the request may still reach the resource manager after that.      *)
(*                                                                        *)
(* The resource manager is GroupStore (what Galaxy is shown to implement). *)
(* JobManager is not under src/: its Add, Update, Rollback, GetLastDesc   *)
(* and Terminate are modelled from the specification (Rollback is an     *)
(* update back to the previous description), and its state is assumed to *)
(* be in nexus when the AppMaster restarts (ReloadAppInfo reads it back). *)
(* A job description stands for the container description                 *)
(* BuildContainerDescription makes of it; the command line, volumes and   *)
(* cgroups it copies are not told apart here.                            *)
(***************************************************************************)
EXTENDS Naturals, FiniteSets

CONSTANTS
  Jobs,        \* job ids, which are the container group ids the RM returns
  JobDescs,    \* job descriptions
  Slots        \* the requests that can be in flight at once

VARIABLES
  running,     \* AppMasterImpl::running_
  jmStatus,    \* job_manager_: per id JNone, JLive or JRemoved
  jmDesc,      \* job_manager_: the job's current description
  jmLast,      \* job_manager_: the description before the last update
  calls,       \* per slot: NoCall, or a request in flight and its callback
  rmStatus,    \* the resource manager's groups (GroupStore)
  rmDesc

RM == INSTANCE GroupStore WITH GroupIds <- Jobs, GroupDescs <- JobDescs

amVars == <<running, jmStatus, jmDesc, jmLast, calls>>
vars == <<amVars, rmStatus, rmDesc>>

JNone    == "JNone"
JLive    == "JLive"
JRemoved == "JRemoved"
NoDesc   == "NoDesc"
NoJob    == "NoJob"

\* the status a request has at the resource manager: not yet carried out,
\* or the status of its response (kOk, kJobNotFound, another error)
Pending  == "Pending"
Ok       == "Ok"
NotFound == "NotFound"
Err      == "Err"

\* the description fields of ids without a job or a group
D0 == CHOOSE d \in JobDescs : TRUE

\* a free slot
NoCall == [rpc |-> "None", job |-> NoJob, desc |-> D0, res |-> Ok, answered |-> TRUE]

Calls ==
  [rpc : {"Create", "Update", "Rollback", "Remove"}, job : Jobs \cup {NoJob},
   desc : JobDescs, res : {Pending, Ok, NotFound, Err}, answered : BOOLEAN]

AMTypeOK ==
  /\ running \in BOOLEAN
  /\ jmStatus \in [Jobs -> {JNone, JLive, JRemoved}]
  /\ jmDesc \in [Jobs -> JobDescs]
  /\ jmLast \in [Jobs -> JobDescs \cup {NoDesc}]
  /\ calls \in [Slots -> Calls \cup {NoCall}]
  /\ RM!GSTypeOK


Init ==
  /\ running = FALSE
  /\ jmStatus = [j \in Jobs |-> JNone]
  /\ jmDesc = [j \in Jobs |-> D0]
  /\ jmLast = [j \in Jobs |-> NoDesc]
  /\ calls = [s \in Slots |-> NoCall]
  /\ RM!GSInit /\ rmDesc = [j \in Jobs |-> D0]

(***************************************************************************)
(* JobManager, modelled from the specification.                          *)
(***************************************************************************)

\* JobManager::Add: a new job; an id it already has is refused
JobAdd(j, d) ==
  IF jmStatus[j] = JNone
  THEN /\ jmStatus' = [jmStatus EXCEPT ![j] = JLive]
       /\ jmDesc' = [jmDesc EXCEPT ![j] = d]
       /\ jmLast' = [jmLast EXCEPT ![j] = NoDesc]
  ELSE UNCHANGED <<jmStatus, jmDesc, jmLast>>

\* JobManager::Update: the job takes the new description and keeps the
\* old one for a rollback
JobUpdate(j, d) ==
  IF jmStatus[j] = JLive
  THEN /\ jmLast' = [jmLast EXCEPT ![j] = jmDesc[j]]
       /\ jmDesc' = [jmDesc EXCEPT ![j] = d]
       /\ UNCHANGED jmStatus
  ELSE UNCHANGED <<jmStatus, jmDesc, jmLast>>

\* JobManager::Rollback: back to the description kept by the last update
JobRollback(j) ==
  IF jmStatus[j] = JLive /\ jmLast[j] # NoDesc
  THEN /\ jmDesc' = [jmDesc EXCEPT ![j] = jmLast[j]]
       /\ jmLast' = [jmLast EXCEPT ![j] = NoDesc]
       /\ UNCHANGED jmStatus
  ELSE UNCHANGED <<jmStatus, jmDesc, jmLast>>

\* JobManager::Terminate: the job is being removed
JobTerminate(j) ==
  IF jmStatus[j] = JLive
  THEN /\ jmStatus' = [jmStatus EXCEPT ![j] = JRemoved]
       /\ UNCHANGED <<jmDesc, jmLast>>
  ELSE UNCHANGED <<jmStatus, jmDesc, jmLast>>

(***************************************************************************)
(* The handlers.  Each holds resman_mutex_ while it builds and sends the  *)
(* request, and returns at once.  A handler that finds running_ false    *)
(* answers kError and changes nothing, a step this model leaves out.     *)
(***************************************************************************)

Send(s, rpc, j, d) ==
  /\ calls[s] = NoCall
  /\ calls' = [calls EXCEPT ![s] = [rpc |-> rpc, job |-> j, desc |-> d,
                                    res |-> Pending, answered |-> FALSE]]

\* AppMasterImpl::SubmitJob: CreateContainerGroup with the job's description
SubmitJob(s, d) ==
  /\ running
  /\ Send(s, "Create", NoJob, d)
  /\ UNCHANGED <<running, jmStatus, jmDesc, jmLast, rmStatus, rmDesc>>

\* AppMasterImpl::UpdateJob without an operate field: UpdateContainerGroup
\* with the new description
UpdateJob(s, j, d) ==
  /\ running
  /\ Send(s, "Update", j, d)
  /\ UNCHANGED <<running, jmStatus, jmDesc, jmLast, rmStatus, rmDesc>>

RollbackJobNoLastCheck(s, j) ==
  /\ running
  /\ Send(s, "Rollback", j, jmLast[j])
  /\ UNCHANGED <<running, jmStatus, jmDesc, jmLast, rmStatus, rmDesc>>

\* AppMasterImpl::UpdateJob with kUpdateJobRollback: GetLastDesc now, and
\* UpdateContainerGroup with it; without a last description the client is
\* answered kError at once (a step that changes nothing)
RollbackJob(s, j) ==
  /\ running
  /\ jmLast[j] # NoDesc
  /\ Send(s, "Rollback", j, jmLast[j])
  /\ UNCHANGED <<running, jmStatus, jmDesc, jmLast, rmStatus, rmDesc>>

\* AppMasterImpl::RemoveJob: RemoveContainerGroup
RemoveJob(s, j) ==
  /\ running
  /\ Send(s, "Remove", j, D0)
  /\ UNCHANGED <<running, jmStatus, jmDesc, jmLast, rmStatus, rmDesc>>

(***************************************************************************)
(* The resource manager carries out a request that reached it, possibly  *)
(* after the AppMaster gave up on it.  Its RPC service is not under src/; *)
(* its steps are the GroupStore operations, with kJobNotFound for an id   *)
(* container_groups_ does not hold and an empty id for a Submit whose id  *)
(* conflicts.                                                             *)
(***************************************************************************)

\* the request's status once carried out; a slot whose callback already
\* ran is freed
Handled(s, res, j) ==
  calls' = [calls EXCEPT ![s] = IF @.answered THEN NoCall
                                ELSE [@ EXCEPT !.res = res, !.job = j]]

HandleCreate(s) ==
  LET c == calls[s] IN
  /\ c # NoCall /\ c.rpc = "Create" /\ c.res = Pending
  /\ \/ \E g \in Jobs : RM!Create(g, c.desc) /\ Handled(s, Ok, g)
     \/ /\ \A g \in Jobs : rmStatus[g] # RM!NoGroup
        /\ Handled(s, Err, NoJob) /\ UNCHANGED <<rmStatus, rmDesc>>
  /\ UNCHANGED <<running, jmStatus, jmDesc, jmLast>>

HandleUpdate(s) ==
  LET c == calls[s] IN
  /\ c # NoCall /\ c.rpc \in {"Update", "Rollback"} /\ c.res = Pending
  /\ IF c.job \in RM!Known
     THEN RM!UpdateGroup(c.job, c.desc) /\ Handled(s, Ok, c.job)
     ELSE Handled(s, NotFound, c.job) /\ UNCHANGED <<rmStatus, rmDesc>>
  /\ UNCHANGED <<running, jmStatus, jmDesc, jmLast>>

HandleRemove(s) ==
  LET c == calls[s] IN
  /\ c # NoCall /\ c.rpc = "Remove" /\ c.res = Pending
  /\ IF c.job \in RM!Known
     THEN RM!KillGroup(c.job) /\ Handled(s, Ok, c.job)
     ELSE Handled(s, NotFound, c.job) /\ UNCHANGED <<rmStatus, rmDesc>>
  /\ UNCHANGED <<running, jmStatus, jmDesc, jmLast>>

\* the GC erases a killed group once its containers are down
CollectGroup(g) ==
  /\ RM!CollectGroup(g)
  /\ UNCHANGED amVars

\* a request the AppMaster gave up on is lost before it reaches the RM
LoseRequest(s) ==
  /\ calls[s] # NoCall /\ calls[s].answered /\ calls[s].res = Pending
  /\ calls' = [calls EXCEPT ![s] = NoCall]
  /\ UNCHANGED <<running, jmStatus, jmDesc, jmLast, rmStatus, rmDesc>>

(***************************************************************************)
(* The callbacks.  failed is true after the timeout, whatever the RM has  *)
(* done; otherwise the response carries the status of a request carried  *)
(* out.  The slot is freed when the RM has carried out the request.      *)
(***************************************************************************)

\* whether a callback records the outcome: a response that is not failed
\* and carries one of the given statuses
Succeeded(c, failed, ok) == ~failed /\ c.res \in ok

Answered(s) ==
  calls' = [calls EXCEPT ![s] = IF @.res = Pending THEN [@ EXCEPT !.answered = TRUE]
                                ELSE NoCall]

\* AppMasterImpl::CreateContainerGroupCallBack
CreateContainerGroupCallBack(s, failed) ==
  LET c == calls[s] IN
  /\ IF Succeeded(c, failed, {Ok}) THEN JobAdd(c.job, c.desc)
     ELSE UNCHANGED <<jmStatus, jmDesc, jmLast>>

\* AppMasterImpl::UpdateContainerGroupCallBack
UpdateContainerGroupCallBack(s, failed) ==
  LET c == calls[s] IN
  /\ IF Succeeded(c, failed, {Ok}) THEN JobUpdate(c.job, c.desc)
     ELSE UNCHANGED <<jmStatus, jmDesc, jmLast>>

\* AppMasterImpl::RollbackContainerGroupCallBack: job_manager_.Rollback
\* reads the last description again, now
RollbackContainerGroupCallBack(s, failed) ==
  LET c == calls[s] IN
  /\ IF Succeeded(c, failed, {Ok}) THEN JobRollback(c.job)
     ELSE UNCHANGED <<jmStatus, jmDesc, jmLast>>

RemoveContainerGroupCallBackIgnoreFailed(s, failed) ==
  LET c == calls[s] IN
  /\ IF Succeeded(c, FALSE, {Ok, NotFound, Pending}) THEN JobTerminate(c.job)
     ELSE UNCHANGED <<jmStatus, jmDesc, jmLast>>

\* AppMasterImpl::RemoveContainerGroupCallBack: kJobNotFound counts as
\* removed; a failed remove, or another status, leaves the job as it is
RemoveContainerGroupCallBack(s, failed) ==
  LET c == calls[s] IN
  /\ IF Succeeded(c, failed, {Ok, NotFound}) THEN JobTerminate(c.job)
     ELSE UNCHANGED <<jmStatus, jmDesc, jmLast>>

Callback(s, failed) ==
  LET c == calls[s] IN
  /\ c # NoCall /\ ~c.answered
  /\ failed \/ c.res # Pending
  /\ CASE c.rpc = "Create"   -> CreateContainerGroupCallBack(s, failed)
       [] c.rpc = "Update"   -> UpdateContainerGroupCallBack(s, failed)
       [] c.rpc = "Rollback" -> RollbackContainerGroupCallBack(s, failed)
       [] c.rpc = "Remove"   -> RemoveContainerGroupCallBack(s, failed)
  /\ Answered(s)
  /\ UNCHANGED <<running, rmStatus, rmDesc>>

(***************************************************************************)
(* Restart.  The process dies (OnLockChange on a lost nexus lock is      *)
(* LOG(FATAL)) and starts again: callbacks in flight never run, requests *)
(* already sent may still be carried out, Init reloads job_manager_ from  *)
(* nexus, and RunMaster sets running_ after FLAGS_safe_interval.          *)
(***************************************************************************)

Restart ==
  /\ running' = FALSE
  /\ calls' = [s \in Slots |-> IF calls[s] = NoCall \/ calls[s].res # Pending
                               THEN NoCall
                               ELSE [calls[s] EXCEPT !.answered = TRUE]]
  /\ UNCHANGED <<jmStatus, jmDesc, jmLast, rmStatus, rmDesc>>

RunMaster ==
  /\ ~running
  /\ running' = TRUE
  /\ UNCHANGED <<jmStatus, jmDesc, jmLast, calls, rmStatus, rmDesc>>

\* the ids a client can name: ids are generated by the RM from the time
\* and a random number, and a client learns one from a SubmitJob answer
IssuedIds == {j \in Jobs : jmStatus[j] # JNone}

Next ==
  \/ \E s \in Slots :
       \/ \E d \in JobDescs : SubmitJob(s, d)
       \/ \E j \in IssuedIds : \/ \E d \in JobDescs : UpdateJob(s, j, d)
                          \/ RollbackJob(s, j)
                          \/ RemoveJob(s, j)
       \/ HandleCreate(s) \/ HandleUpdate(s) \/ HandleRemove(s)
       \/ LoseRequest(s)
       \/ \E failed \in BOOLEAN : Callback(s, failed)
  \/ \E g \in Jobs : CollectGroup(g)
  \/ Restart \/ RunMaster

Spec == Init /\ [][Next]_vars

(***************************************************************************)
(* Properties.                                                            *)
(***************************************************************************)

\* A job the AppMaster has removed has no live group left behind: the
\* remove callback terminates the job only on kOk or kJobNotFound from the
\* RM, and no late update or create brings a killed or erased group back.
RemovedJobKilled ==
  \A j \in Jobs : jmStatus[j] = JRemoved => rmStatus[j] \in {RM!Killed, RM!Gone}

\* no request is in flight
Quiet == \A s \in Slots : calls[s] = NoCall

\* Once nothing is in flight, the AppMaster and the resource manager agree:
\* every live group belongs to a live job, every live job has a group,
\* and the group holds the job's description.  SubmitJob, UpdateJob and
\* RemoveJob record in job_manager_ only what the RM answered.
JobsMatchGroups ==
  Quiet =>
    \A j \in Jobs :
      /\ (rmStatus[j] = RM!Live) <=> (jmStatus[j] = JLive)
      /\ rmStatus[j] = RM!Live => rmDesc[j] = jmDesc[j]

=============================================================================
