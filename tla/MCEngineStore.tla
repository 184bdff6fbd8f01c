--------------------------- MODULE MCEngineStore ---------------------------
(* Instances of EngineStore for TLC: a loader, and an operator on its      *)
(* model, named in the request before it.  Both executions run this graph; *)
(* topo_sort is checked on all graphs of up to three nodes.                *)
EXTENDS EngineStore, TLC

CONSTANTS load, sample

Pair == <<sample, load>>
Uses == [n \in {load, sample} |-> IF n = sample THEN {load} ELSE {}]
=============================================================================
