------------------------------- MODULE MCGate -------------------------------
(* The instance of Gate for TLC is in Gate.cfg.  Each execution passes the  *)
(* gate once; ages stop at the largest limit.                              *)
EXTENDS Gate, TLC
=============================================================================
