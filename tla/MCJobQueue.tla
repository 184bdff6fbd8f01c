----------------------------- MODULE MCJobQueue -----------------------------
(* Instances of JobQueue for TLC.  A Job is submitted at most once, so the *)
(* number of jobs bounds the queue and the clock; interrupts are unbounded.*)
EXTENDS JobQueue, TLC
=============================================================================
