----------------------------- MODULE AgentDevices -----------------------------
(***************************************************************************)
(* The device and port dimensions of one agent of the resource manager    *)
(* (class Agent, src/src/resman/scheduler.cc): which disk volumes and     *)
(* which ports the agent has handed out, how Agent::TryPut checks a       *)
(* container against them (SelectDevices with the backtracking           *)
(* RecurSelectDevices, the port count, SelectFreePorts), how Agent::Put   *)
(* records the choice and how Agent::Evict gives it back.                 *)
(*                                                                        *)
(* The other dimensions of TryPut (pool, max_per_host, cpu, memory,       *)
(* tmpfs) are modelled in Scheduler; tmpfs volumes are memory there, and  *)
(* only the other volumes reach SelectDevices.  A container is placed     *)
(* only when TryPut succeeds, then Put runs under the same lock.          *)
(***************************************************************************)
EXTENDS Integers, Sequences, SequencesExt, FiniteSetsExt

CONSTANTS
  Cids,        \* container ids
  Reqs,        \* the requirements a container may carry: [vols, ports]
  Devs,        \* device paths, numbers in the order of the volum_total_ map
  VolumTotal,  \* per device path: [medium, size], the agent's volum_total_
  MinPort,     \* sMinPort
  MaxPort      \* sMaxPort

\* kDynamicPort: a port the agent picks; ports are numbers here (the code
\* keeps them as decimal strings), and 0 is below every port a request names
Dynamic == 0

VARIABLES
  placed,        \* the ids in containers_
  volAssigned,   \* volum_assigned_: per device path [size, excl]
  portAssigned,  \* port_assigned_
  allocVols,     \* per container: allocated_volums, a sequence of <<path, volume>>
  allocPorts     \* per container: allocated_ports

vars == <<placed, volAssigned, portAssigned, allocVols, allocPorts>>

PortTotal == MaxPort - MinPort + 1

Volums == UNION {Range(r.vols) : r \in Reqs}

ADTypeOK ==
  /\ placed \subseteq Cids
  /\ \A d \in Devs : volAssigned[d].size \in 0 .. VolumTotal[d].size
  /\ volAssigned \in [Devs -> [size : Int, excl : BOOLEAN]]
  /\ portAssigned \subseteq Int
  /\ allocVols \in [Cids -> Seq(Devs \X Volums)]
  /\ allocPorts \in [Cids -> Seq(Int)]

Init ==
  /\ placed = {}
  /\ volAssigned = [d \in Devs |-> [size |-> 0, excl |-> FALSE]]
  /\ portAssigned = {}
  /\ allocVols = [c \in Cids |-> <<>>]
  /\ allocPorts = [c \in Cids |-> <<>>]

(***************************************************************************)
(* Agent::SelectDevices: volum_free holds every device not held           *)
(* exclusively, with what is left of it.                                  *)
(***************************************************************************)
\* mutant: what the other containers hold is not subtracted
VolumFreeIgnoreAssigned ==
  [d \in {e \in Devs : ~volAssigned[e].excl} |->
     [medium |-> VolumTotal[d].medium, size |-> VolumTotal[d].size, excl |-> FALSE]]

VolumFree ==
  [d \in {e \in Devs : ~volAssigned[e].excl} |->
     [medium |-> VolumTotal[d].medium,
      size   |-> VolumTotal[d].size - volAssigned[d].size,
      excl   |-> FALSE]]

\* Agent::RecurSelectDevices(i, ...): volume i tries every free device in map
\* order, recursing on the next volume; free, devices and path_used are
\* shared by reference.  On a failed try the size and the exclusive flag are
\* put back, and the path is erased from path_used even when an earlier
\* volume of the request uses it too.  The result carries path_used back.
\* mutant: only the first device that fits volume i is tried
RECURSIVE RecurSelectDevicesFirstFit(_, _, _, _, _)
RecurSelectDevicesFirstFit(i, vols, free, devices, used) ==
  IF i > Len(vols)
  THEN [ok |-> Len(devices) = Len(vols), devices |-> devices, used |-> used]
  ELSE LET need == vols[i]
           fits == {p \in DOMAIN free : ~free[p].excl /\ need.size <= free[p].size
                                         /\ free[p].medium = need.medium
                                         /\ ~(need.excl /\ p \in used)}
       IN IF fits = {} THEN [ok |-> FALSE, devices |-> devices, used |-> used]
          ELSE LET p == Min(fits)
               IN RecurSelectDevicesFirstFit(i + 1, vols,
                    [free EXCEPT ![p].size = @ - need.size, ![p].excl = need.excl],
                    Append(devices, p), used \cup {p})

RECURSIVE RecurSelectDevices(_, _, _, _, _)
RecurSelectDevices(i, vols, free, devices, used) ==
  IF i > Len(vols)
  THEN [ok |-> Len(devices) = Len(vols), devices |-> devices, used |-> used]
  ELSE LET need  == vols[i]
           paths == SetToSortSeq(DOMAIN free, <)
           RECURSIVE Try(_, _)
           Try(k, u) ==
             IF k > Len(paths) THEN [ok |-> FALSE, devices |-> devices, used |-> u]
             ELSE LET p == paths[k]
                  IN IF \/ free[p].excl \/ need.size > free[p].size
                        \/ free[p].medium # need.medium
                        \/ need.excl /\ p \in u
                     THEN Try(k + 1, u)
                     ELSE LET r == RecurSelectDevices(i + 1, vols,
                                     [free EXCEPT ![p].size = @ - need.size,
                                                  ![p].excl = need.excl],
                                     Append(devices, p), u \cup {p})
                          IN IF r.ok THEN r ELSE Try(k + 1, r.used \ {p})
       IN Try(1, used)

SelectDevices(vols) == RecurSelectDevices(1, vols, VolumFree, <<>>, {})

(***************************************************************************)
(* Agent::SelectFreePorts(need) with rand() giving the first port tried   *)
(* when every port asked for is dynamic.                                  *)
(***************************************************************************)
FixedPorts(need) == {need[i] : i \in {j \in DOMAIN need : need[j] # Dynamic}}
DynamicCount(need) == Cardinality({i \in DOMAIN need : need[i] = Dynamic})

\* the first ports rand() can give: sMinPort + (int)((sMaxPort - sMinPort -
\* count + 1) * rnd) for rnd in [0, 1]
RandomStarts(k) ==
  LET w == MaxPort - MinPort - k + 1
  IN {MinPort + j : j \in IF w >= 0 THEN 0 .. w ELSE w .. 0}

\* the retry loop: k ports from start, jumping past a used port, wrapping to
\* sMinPort past sMaxPort, at most port_total_ tries
RECURSIVE ScanPorts(_, _, _)
ScanPorts(start, k, tries) ==
  IF tries >= PortTotal THEN <<>>
  ELSE LET hit == {x \in start .. start + k - 1 : x \in portAssigned}
       IN IF hit = {} THEN [i \in 1 .. k |-> start + i - 1]
          ELSE ScanPorts(IF Min(hit) + 1 > MaxPort THEN MinPort ELSE Min(hit) + 1,
                         k, tries + 1)

\* mutant: the mixed case hands out the ports after the highest fixed one
\* without looking them up in port_assigned_
SelectFreePortsNoMixedCheck(need, start) ==
  LET k     == DynamicCount(need)
      fixed == FixedPorts(need)
      dyn   == IF k = 0 THEN <<>>
               ELSE IF fixed # {} THEN [i \in 1 .. k |-> Max(fixed) + i]
               ELSE ScanPorts(start, k, 0)
      nth(i) == Cardinality({j \in 1 .. i : need[j] = Dynamic})
  IN IF \/ fixed \cap portAssigned # {}
        \/ k > 0 /\ Len(dyn) # k
     THEN [ok |-> FALSE, ports |-> <<>>]
     ELSE [ok |-> TRUE,
           ports |-> [i \in DOMAIN need |-> IF need[i] = Dynamic THEN dyn[nth(i)] ELSE need[i]]]

\* ok, and the ports handed out in the order they were asked for
SelectFreePorts(need, start) ==
  LET k     == DynamicCount(need)
      fixed == FixedPorts(need)
      dyn   == IF k = 0 THEN <<>>
               ELSE IF fixed # {}
                    THEN LET from == Max(fixed) + 1
                         IN IF \E x \in from .. from + k - 1 : x \in portAssigned
                            THEN <<>>
                            ELSE [i \in 1 .. k |-> from + i - 1]
               ELSE ScanPorts(start, k, 0)
      \* the index among the dynamic ports of the i-th port asked for
      nth(i) == Cardinality({j \in 1 .. i : need[j] = Dynamic})
  IN IF \/ fixed \cap portAssigned # {}
        \/ k > 0 /\ Len(dyn) # k
     THEN [ok |-> FALSE, ports |-> <<>>]
     ELSE [ok |-> TRUE,
           ports |-> [i \in DOMAIN need |-> IF need[i] = Dynamic THEN dyn[nth(i)] ELSE need[i]]]

\* the device and port checks of Agent::TryPut
TryPut(r) ==
  /\ SelectDevices(r.vols).ok
  /\ Len(r.ports) + Cardinality(portAssigned) <= PortTotal
  /\ \E start \in RandomStarts(DynamicCount(r.ports)) :
       SelectFreePorts(r.ports, start).ok

\* the device and port part of Agent::Put: it selects again (its own rand()
\* for dynamic ports) and records what it found
Put(c, r) ==
  LET devs == SelectDevices(r.vols).devices
      vols == [i \in DOMAIN r.vols |-> <<devs[i], r.vols[i]>>]
      onDev(d) == {i \in DOMAIN vols : vols[i][1] = d}
  IN /\ volAssigned' =
          [d \in Devs |->
             [size |-> volAssigned[d].size + MapThenSumSet(LAMBDA i : vols[i][2].size, onDev(d)),
              excl |-> volAssigned[d].excl \/ \E i \in onDev(d) : vols[i][2].excl]]
     /\ allocVols' = [allocVols EXCEPT ![c] = vols]
     /\ \E start \in RandomStarts(DynamicCount(r.ports)) :
          LET got == SelectFreePorts(r.ports, start)
          IN IF ~got.ok
             THEN UNCHANGED <<portAssigned, allocPorts>>
             ELSE /\ allocPorts' = [allocPorts EXCEPT ![c] = got.ports]
                  /\ portAssigned' = portAssigned \cup Range(got.ports)
     /\ placed' = placed \cup {c}

\* a pending container is placed on the agent
Place(c, r) ==
  /\ c \notin placed
  /\ TryPut(r)
  /\ Put(c, r)

\* mutant: the exclusive flag of the device is left set
EvictKeepExcl(c) ==
  LET vols == allocVols[c]
      onDev(d) == {i \in DOMAIN vols : vols[i][1] = d}
  IN /\ c \in placed
     /\ volAssigned' =
          [d \in Devs |->
             [size |-> volAssigned[d].size - MapThenSumSet(LAMBDA i : vols[i][2].size, onDev(d)),
              excl |-> volAssigned[d].excl]]
     /\ portAssigned' = portAssigned \ Range(allocPorts[c])
     /\ placed' = placed \ {c}
     /\ allocVols' = [allocVols EXCEPT ![c] = <<>>]
     /\ allocPorts' = [allocPorts EXCEPT ![c] = <<>>]

\* Agent::Evict, then ChangeStatus clearing allocated_volums and
\* allocated_ports
Evict(c) ==
  LET vols == allocVols[c]
      onDev(d) == {i \in DOMAIN vols : vols[i][1] = d}
  IN /\ c \in placed
     /\ volAssigned' =
          [d \in Devs |->
             [size |-> volAssigned[d].size - MapThenSumSet(LAMBDA i : vols[i][2].size, onDev(d)),
              excl |-> volAssigned[d].excl /\ ~\E i \in onDev(d) : vols[i][2].excl]]
     /\ portAssigned' = portAssigned \ Range(allocPorts[c])
     /\ placed' = placed \ {c}
     /\ allocVols' = [allocVols EXCEPT ![c] = <<>>]
     /\ allocPorts' = [allocPorts EXCEPT ![c] = <<>>]

Next ==
  \/ \E c \in Cids, r \in Reqs : Place(c, r)
  \/ \E c \in Cids : Evict(c)

Spec == Init /\ [][Next]_vars

(***************************************************************************)
(* Properties                                                              *)
(***************************************************************************)
\* the volumes placed containers hold on device d, as <<container, index>>
Holdings(d) ==
  UNION {{<<c, i>> : i \in {j \in DOMAIN allocVols[c] : allocVols[c][j][1] = d}} : c \in placed}
HeldVolum(h) == allocVols[h[1]][h[2]][2]

\* Put adds and Evict subtracts what a container holds, so volum_assigned_
\* is always the sum of the volumes placed containers hold on each device,
\* exclusive exactly when one of them is, after any sequence of placements
\* and evictions (the specification's bookkeeping invariant).
VolumesExact ==
  \A d \in Devs :
    /\ volAssigned[d].size = MapThenSumSet(LAMBDA h : HeldVolum(h).size, Holdings(d))
    /\ volAssigned[d].excl = \E h \in Holdings(d) : HeldVolum(h).excl

\* port_assigned_ is exactly the ports the placed containers hold: the
\* fixed-port check, the dynamic scan and the mixed case never hand out a
\* port another container holds, so Evict's erase never takes one away
\* from a container still placed.
PortsExact ==
  portAssigned = UNION {Range(allocPorts[c]) : c \in placed}

\* the choices of devices the specification allows for vols: the medium
\* matches, the device is not held exclusively, what is left of it fits
\* every volume put there, and an exclusive volume is alone on its device
DeviceChoices(vols) ==
  {f \in [DOMAIN vols -> DOMAIN VolumFree] :
     /\ \A i \in DOMAIN vols : VolumFree[f[i]].medium = vols[i].medium
     /\ \A d \in DOMAIN VolumFree :
          MapThenSumSet(LAMBDA i : vols[i].size, {i \in DOMAIN vols : f[i] = d})
            <= VolumFree[d].size
     /\ \A i, j \in DOMAIN vols : i # j /\ vols[i].excl => f[i] # f[j]}

\* The backtracking search of RecurSelectDevices misses no choice: in every
\* state the agent reaches, a request some choice of devices satisfies is
\* accepted by SelectDevices.
SelectComplete ==
  \A r \in Reqs : DeviceChoices(r.vols) # {} => SelectDevices(r.vols).ok

\* At most one container volume holds a device exclusively, and then no
\* other volume is on that device (specification: for each agent and
\* device path, no exclusive holder, or one and no shared holder).
DeviceExclusive ==
  \A d \in Devs : \A h \in Holdings(d) : HeldVolum(h).excl => Holdings(d) = {h}

=============================================================================
