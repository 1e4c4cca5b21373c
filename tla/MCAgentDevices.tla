--------------------------- MODULE MCAgentDevices ---------------------------
(***************************************************************************)
(* An agent with two disk devices of sizes 3 and 1 and an ssd of size 1,  *)
(* ports 1 .. 4, four containers and four requirements: a shared disk     *)
(* volume with a dynamic port; a shared and an exclusive disk volume     *)
(* with fixed port 2; two shared and one exclusive disk volume with fixed *)
(* port 3 and a dynamic one; an exclusive ssd volume with two dynamic    *)
(* ports.  The second needs backtracking (the exclusive volume fits only  *)
(* the big disk, which the first tries first), the third is accepted only *)
(* through the path_used erase.                                           *)
(***************************************************************************)
EXTENDS AgentDevices

V(size, medium, excl) == [size |-> size, medium |-> medium, excl |-> excl]

MCVolumTotal ==
  (1 :> [medium |-> "disk", size |-> 3]) @@ (2 :> [medium |-> "disk", size |-> 1])
    @@ (3 :> [medium |-> "ssd", size |-> 1])

MCReqs ==
  { [vols |-> <<V(1, "disk", FALSE)>>, ports |-> <<Dynamic>>],
    [vols |-> <<V(1, "disk", FALSE), V(2, "disk", TRUE)>>, ports |-> <<2>>],
    [vols |-> <<V(1, "disk", FALSE), V(1, "disk", FALSE), V(2, "disk", TRUE)>>,
     ports |-> <<3, Dynamic>>],
    [vols |-> <<V(1, "ssd", TRUE)>>, ports |-> <<Dynamic, Dynamic>>] }
=============================================================================
