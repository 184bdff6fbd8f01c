----------------------------- MODULE LeaseBook -----------------------------
(***************************************************************************)
(* The register of execution leases (LeaseBook, app/lease.py).             *)
(*                                                                         *)
(* A lease is the identity of one pipeline execution.  It is registered    *)
(* (open) from its first activity until it is released, has been silent    *)
(* for longer than the TTL, or has been silent for longer than the idle    *)
(* limit while none of its jobs is pending or running.  Every method holds *)
(* LeaseBook._lock, so each one is a single action; the modules that       *)
(* extend this one say who calls it and when.                              *)
(*                                                                         *)
(* Time is counted in units in which TTL and IdleRelease are given; the    *)
(* age of a lease stops counting one unit past the larger limit, where     *)
(* every comparison has already been decided.                              *)
(***************************************************************************)
EXTENDS Naturals

CONSTANTS
    Leases,      \* lease ids (execution ids)
    Keys,        \* keys of resident models
    TTL,         \* LEASE_TTL_SECONDS
    IdleRelease  \* IDLE_RELEASE_SECONDS; 0 turns idle release off

ASSUME LimitAssumption == TTL \in Nat /\ IdleRelease \in Nat

VARIABLES
    open,   \* the registered leases: the domain of LeaseBook._leases
    age,    \* now - seen of each registered lease
    holds   \* the model keys attributed to each lease

bookVars == <<open, age, holds>>

\* The age at which a lease stops growing older.
OldAge == (IF TTL > IdleRelease THEN TTL ELSE IdleRelease) + 1

BookInit == /\ open = {}
            /\ age = [l \in Leases |-> 0]
            /\ holds = [l \in Leases |-> {}]

\* touch: register or renew the lease, and attribute the keys to it.
Touch(l, keys) ==
    /\ open' = open \cup {l}
    /\ age' = [age EXCEPT ![l] = 0]
    /\ holds' = [holds EXCEPT ![l] = @ \cup keys]

\* touch_existing: renew the lease if it is registered, else do nothing.
TouchExisting(l) ==
    /\ age' = IF l \in open THEN [age EXCEPT ![l] = 0] ELSE age
    /\ UNCHANGED <<open, holds>>

\* Fault: the id is removed, its entry stays and is found by the next touch.
DropKept(gone) == open' = open \ gone /\ UNCHANGED <<age, holds>>

\* The entries of the leases in gone are deleted, the keys taken from the rest.
Strip(gone, keys) ==
    /\ open' = open \ gone
    /\ age' = [l \in Leases |-> IF l \in gone THEN 0 ELSE age[l]]
    /\ holds' = [l \in Leases |-> IF l \in gone THEN {} ELSE holds[l] \ keys]

Drop(gone) == Strip(gone, {})

Expired == {l \in open : age[l] > TTL}

\* Fault: idle release does not ask whether a job of the lease is alive.
StaleUnasked(busy) ==
    Expired \cup {l \in open : IdleRelease > 0 /\ age[l] > IdleRelease}

\* What _sweep_locked removes; busy is the answer of the job_active callback.
Stale(busy) ==
    Expired \cup {l \in open : IdleRelease > 0 /\ age[l] > IdleRelease /\ l \notin busy}

\* sweep, and the sweep with which is_active, keys_of_others, leases_holding
\* and view begin.
Sweep(busy) == Drop(Stale(busy))

\* release: DELETE /leases/{id}, which answers 404 for an unknown lease.
Release(l) == l \in open /\ Drop({l})

\* A sweep, and forget_keys for the models that its caller evicts.
SweepForget(busy, keys) == Strip(Stale(busy), keys)

\* keys_of_others, after its sweep.
KeysOfOthers(l, busy) == UNION {holds[k] : k \in open \ (Stale(busy) \cup {l})}

\* One unit of time passes for every registered lease.
Elapse ==
    /\ age' = [l \in Leases |-> IF l \in open /\ age[l] < OldAge
                                THEN age[l] + 1 ELSE age[l]]
    /\ UNCHANGED <<open, holds>>

\* The register holds values of their kinds, and nothing about closed leases.
BookTypeOK ==
    /\ open \subseteq Leases
    /\ age \in [Leases -> 0 .. OldAge]
    /\ holds \in [Leases -> SUBSET Keys]
    /\ \A l \in Leases \ open : age[l] = 0 /\ holds[l] = {}
=============================================================================
