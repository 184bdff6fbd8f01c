-------------------------- MODULE MCModelResidency --------------------------
(* An instance of ModelResidency for TLC: two models of which the card     *)
(* holds one, each in use by an execution of its own.                      *)
EXTENDS ModelResidency, TLC

CONSTANTS a, b, l1

One == [l \in Leases |-> IF l = l1 THEN {a} ELSE {b}]
Sizes == [k \in Keys |-> 1]
=============================================================================
