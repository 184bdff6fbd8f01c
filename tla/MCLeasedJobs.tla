---------------------------- MODULE MCLeasedJobs ----------------------------
(* Instances of LeasedJobs for TLC: two executions, one of which submits   *)
(* two jobs.  A job is submitted at most once; the ages of the leases stop *)
(* at OldAge; everything else is unbounded.                                *)
EXTENDS LeasedJobs, TLC

CONSTANTS j1, j2, l1, l2

TwoLeases == (j1 :> l1) @@ (j2 :> l2)
OneLease == (j1 :> l1) @@ (j2 :> l1)
=============================================================================
