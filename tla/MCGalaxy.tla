------------------------------ MODULE MCGalaxy ------------------------------
(***************************************************************************)
(* Model values for checking Galaxy with TLC.                             *)
(***************************************************************************)
EXTENDS Galaxy

\* two descriptions that fit an agent together, and a larger one that
\* takes a whole agent; ports 80 are fixed ports
Small  == [cpu |-> 1, mem |-> 1, tmpfs |-> 0, ports |-> {}, pools |-> {"p1"}, maxPerHost |-> 0, tag |-> NoTag]
Big    == [cpu |-> 2, mem |-> 2, tmpfs |-> 0, ports |-> {}, pools |-> {"p1"}, maxPerHost |-> 0, tag |-> NoTag]
Web    == [cpu |-> 1, mem |-> 1, tmpfs |-> 0, ports |-> {80}, pools |-> {"p1", "p2"}, maxPerHost |-> 1, tag |-> NoTag]
Ramdisk == [cpu |-> 1, mem |-> 0, tmpfs |-> 1, ports |-> {}, pools |-> {"p1"}, maxPerHost |-> 0, tag |-> NoTag]

MCDescs1 == {Small, Big}
MCDescs2 == {Small, Web}
MCDescs3 == {Ramdisk}
MCDescs0 == {Small}
MCDescs4 == {Web}
\* one Big per agent: a second pod waits Pending, and ManualSchedule preempts
MCDescs5 == {Big}
\* Small for agents tagged "t" only
Tagged == [Small EXCEPT !.tag = "t"]
MCDescs6 == {Tagged}
=============================================================================
