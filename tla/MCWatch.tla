------------------------------- MODULE MCWatch -------------------------------
(* Instances of Watch for TLC: a connection to the only job, and none of a  *)
(* finished job is retained, so that a late client may not find it.        *)
EXTENDS Watch, TLC

CONSTANTS j1, w1

ToTheJob == [w \in {w1} |-> j1]
=============================================================================
