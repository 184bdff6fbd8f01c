------------------------------ MODULE MCPlugins ------------------------------
(* Instances of Plugins for TLC: two file names, two operators, and three  *)
(* sources: one with a route, one that declares both operators, one that   *)
(* raises.                                                                 *)
EXTENDS Plugins, TLC

CONSTANTS one, two

Routed == [ops |-> {one}, routes |-> TRUE, broken |-> FALSE]
Both == [ops |-> {one, two}, routes |-> FALSE, broken |-> FALSE]
Raises == [ops |-> {one}, routes |-> FALSE, broken |-> TRUE]
Sources == {Routed, Both, Raises}
=============================================================================
