----------------------------- MODULE MCJobQueue -----------------------------
(***************************************************************************)
(* A small instance of JobQueue for TLC: more submissions than the store   *)
(* may hold, and more jobs than threads.                                   *)
(***************************************************************************)
EXTENDS JobQueue, TLC

CONSTANTS j1, j2, j3

MCJobs == {j1, j2, j3}
=============================================================================
