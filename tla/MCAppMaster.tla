----------------------------- MODULE MCAppMaster -----------------------------
(***************************************************************************)
(* Model values for checking AppMaster with TLC: job ids and descriptions *)
(* are interchangeable, so their permutations are a sound symmetry for    *)
(* the safety properties.                                                 *)
(***************************************************************************)
EXTENDS AppMaster, TLC

CONSTANTS j1, j2, d1, d2

MCJobs     == {j1, j2}
MCJobDescs == {d1, d2}
MCSymmetry == Permutations(MCJobs) \cup Permutations(MCJobDescs)
=============================================================================
