-------------------------- MODULE MCCoreLifecycle --------------------------
(***************************************************************************)
(* Three core processes at one time: one on its way down or orphaned, one  *)
(* that runs, and one that starts.                                         *)
(***************************************************************************)
EXTENDS CoreLifecycle

CONSTANTS p1, p2, p3

MCProcs == {p1, p2, p3}
=============================================================================
