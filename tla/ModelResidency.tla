--------------------------- MODULE ModelResidency ---------------------------
(***************************************************************************)
(* The models on the card (ModelManager, app/model_manager.py) under loads,*)
(* unloads, recovery from out-of-memory, leases and stored views of models.*)
(*                                                                         *)
(* Operators run one at a time, under EXEC_LOCK: one engine thread serves  *)
(* the calls of all executions.  Requests to unload run on threads of      *)
(* their own.  ModelManager._lock is held by a load, by an unload and by   *)
(* an eviction for memory, but not by pin, get and key_of; a load that     *)
(* must wait for the models of another lease gives the lock up while it    *)
(* sleeps.                                                                 *)
(***************************************************************************)
EXTENDS LeaseBook, FiniteSets, Functions

CONSTANTS
    NoLease,      \* a caller without the X-FlowX-Lease header
    NoKey,
    Size, Need,   \* per key: its budget, and what a load asks for: the
                  \* budget times VRAM_LOAD_FACTOR, plus the reserve
    Capacity,     \* the memory of the card
    MaxResident,  \* MAX_RESIDENT_MODELS; 0 turns the limit off
    LoadWait,     \* LEASE_WAIT_TIMEOUT
    Sync,         \* the executions that call /op, and do not submit jobs
    Models,       \* bound, per lease: the models its pipeline loads
    Unloaders     \* bound: who sends requests to unload

Callers == Leases \cup {NoLease}

ASSUME NoneAssumption == NoLease \notin Leases /\ NoKey \notin Keys
ASSUME SizeAssumption == /\ Size \in [Keys -> Nat] /\ Need \in [Keys -> Nat]
                         /\ Capacity \in Nat /\ MaxResident \in Nat /\ LoadWait \in Nat
ASSUME CallerAssumption == /\ Sync \subseteq Leases /\ Unloaders \subseteq Callers
                           /\ Models \in [Leases -> SUBSET Keys]

VARIABLES
    resident,  \* the resident models
    older,     \* per model: the resident ones that were used longer ago
    pins,   \* ModelManager._pins
    views,  \* per lease: the models of which it has objects in the store
    pend,   \* the executions with a call that waits for EXEC_LOCK
    epc,    \* where the engine thread is
    who,    \* the execution it serves
    aim,    \* the model that the operator loads or uses
    left,   \* of a load that waits: the time to its deadline
    tried,  \* the operator has been repeated after an out-of-memory
    ask,    \* the callers whose unload waits for the lock
    cut,    \* the unload that holds the lock: who asks, what is to go
    kept    \* history, per lease: the models it has loaded and not given up
            \* since, while it was registered all the time

engVars == <<pend, epc, who, aim, left, tried>>
askVars == <<ask, cut>>
lru == <<resident, older>>
vars == <<bookVars, lru, pins, views, engVars, askVars, kept>>

\* The answer of the job_active callback, for the sweeps of the register.
Busy == (pend \cup {who}) \cap (Leases \ Sync)

\* Fault: a load that sleeps keeps the lock.
LockKept == cut = {} /\ epc \notin {"wait", "build", "sleep"}

LockFree == cut = {} /\ epc \notin {"wait", "build"}

Init == /\ BookInit
        /\ resident = {} /\ older = [k \in Keys |-> {}] /\ pins = {}
        /\ views = [l \in Leases |-> {}]
        /\ pend = {} /\ epc = "idle" /\ who = NoLease /\ aim = NoKey
        /\ left = 0 /\ tried = FALSE
        /\ ask = {} /\ cut = {}
        /\ kept = [l \in Leases |-> {}]

(***************************************************************************)
(* Eviction.                                                               *)
(***************************************************************************)

Total(keys) == SumFunctionOnSet(Size, keys)
Fits(k, keys) == Total(keys) + Need[k] <= Capacity

Others(l) == KeysOfOthers(l, Busy)

\* Fault: the models of other leases are not protected.
ProtectedOwn(l) == pins \cup views[l]

\* What a load of l must not evict: models that operators use (_pins), of
\* which l has objects in the store (extra_pinned), or that others hold.
Protected(l) == pins \cup views[l] \cup Others(l)

\* plan_eviction: of the models that are not protected, those used longest ago
\* first, each one that goes while number and memory are not in order yet.
Plan(k, protected) ==
    LET spare == resident \ protected
        enough(gone) == /\ MaxResident = 0 \/ Cardinality(resident \ gone) < MaxResident
                        /\ Fits(k, resident \ gone)
    IN  {m \in spare : ~enough(older[m] \cap spare)}

\* _do_evict of each model in keys, with its pin and its views (on_evict).
Evict(keys) ==
    /\ resident' = resident \ keys
    /\ older' = [m \in Keys |-> IF m \in keys THEN {} ELSE older[m] \ keys]
    /\ pins' = pins \ keys
    /\ views' = [l \in Leases |-> views[l] \ keys]

\* The leases in gone are closed; l itself gives keys up.
Forget(gone, l, keys) ==
    kept' = [m \in Leases |-> IF m \in gone THEN {}
                              ELSE IF m = l THEN kept[m] \ keys ELSE kept[m]]

\* Fault: the last use is recorded without taking the older one out.
UsedAgain(k) ==
    /\ resident' = resident \cup {k}
    /\ older' = [older EXCEPT ![k] = resident \ {k}]

\* _last_used[k] = time.time(), of a resident or a new model.
Used(k) ==
    /\ resident' = resident \cup {k}
    /\ older' = [m \in Keys |-> IF m = k THEN resident \ {k} ELSE older[m] \ {k}]

(***************************************************************************)
(* Calls.                                                                  *)
(***************************************************************************)

\* POST /op, /graph or /jobs: the lease is bound and renewed.
Call(l) ==
    /\ l \notin pend \cup {who}
    /\ pend' = pend \cup {l}
    /\ Touch(l, {})
    /\ UNCHANGED <<lru, pins, views, epc, who, aim, left, tried, askVars, kept>>

\* The client polls its job.
Poll(l) ==
    /\ l \in Busy
    /\ Touch(l, {})
    /\ UNCHANGED <<lru, pins, views, engVars, askVars, kept>>

\* The engine gets EXEC_LOCK: a loader, or an operator with a model among its
\* inputs (resolve_from_ids has found the object).  A job reports its stage.
Begin(l) ==
    /\ epc = "idle" /\ l \in pend
    /\ pend' = pend \ {l} /\ who' = l
    /\ \E k \in Models[l] : /\ aim' = k
                            /\ epc' = "load" \/ (k \in views[l] /\ epc' = "use")
    /\ IF l \in Sync THEN UNCHANGED bookVars ELSE TouchExisting(l)
    /\ UNCHANGED <<lru, pins, views, left, tried, askVars, kept>>

\* The operator returns or raises; unpin.
CallEnds == /\ epc' = "idle" /\ who' = NoLease /\ aim' = NoKey
            /\ left' = 0 /\ tried' = FALSE
            /\ UNCHANGED <<pend, askVars>>

Goto(pc) == epc' = pc /\ UNCHANGED <<pend, who, aim, tried, askVars>>

(***************************************************************************)
(* load.                                                                   *)
(***************************************************************************)

LoadHit ==
    /\ epc = "load" /\ LockFree /\ aim \in resident
    /\ Goto("get")
    /\ Used(aim) /\ Touch(who, {aim})
    /\ kept' = [kept EXCEPT ![who] = @ \cup {aim}]
    /\ UNCHANGED <<pins, views, left>>

\* _evict_if_needed, up to the second look at the free memory.
LoadEvict ==
    /\ epc = "load" /\ LockFree /\ aim \notin resident
    /\ LET victims == Plan(aim, Protected(who)) IN
         /\ Evict(victims)
         /\ Forget(Stale(Busy), NoLease, victims)
         /\ SweepForget(Busy, victims)
         /\ IF resident = {} \/ Fits(aim, resident \ victims)
            THEN Goto("build") /\ UNCHANGED left
            ELSE Goto("wait") /\ left' = LoadWait

\* _wait_for_leases, the head of the loop: there is nobody to wait for, the
\* deadline has passed, or the load sleeps.
WaitLook ==
    /\ epc = "wait"
    /\ Sweep(Busy) /\ Forget(Stale(Busy), NoLease, {})
    /\ \/ Others(who) \cap resident = {} /\ Goto("build") /\ UNCHANGED left
       \/ Others(who) \cap resident # {} /\ left = 0 /\ CallEnds
       \/ Others(who) \cap resident # {} /\ left > 0 /\ Goto("sleep") /\ UNCHANGED left
    /\ UNCHANGED <<lru, pins, views>>

\* Fault: every look starts the deadline anew.
WakeAnew ==
    /\ epc = "sleep" /\ cut = {}
    /\ Goto("wait") /\ left' = LoadWait
    /\ Sweep(Busy) /\ Forget(Stale(Busy), NoLease, {})
    /\ UNCHANGED <<lru, pins, views>>

\* The load has slept and has the lock again.
Wake ==
    /\ epc = "sleep" /\ cut = {}
    /\ UNCHANGED left
    /\ LET victims == IF Fits(aim, resident) THEN {} ELSE Plan(aim, Protected(who)) IN
         /\ Evict(victims)
         /\ Forget(Stale(Busy), NoLease, victims)
         /\ SweepForget(Busy, victims)
         /\ Goto(IF Fits(aim, resident) THEN "build" ELSE "wait")

\* The model is on the card and is attributed to the lease.
Build ==
    /\ epc = "build"
    /\ Goto("get")
    /\ Used(aim) /\ Touch(who, {aim})
    /\ kept' = [kept EXCEPT ![who] = @ \cup {aim}]
    /\ left' = 0
    /\ UNCHANGED <<pins, views>>

BuildFails ==
    /\ epc = "build"
    /\ CallEnds
    /\ UNCHANGED <<bookVars, lru, pins, views, kept>>

\* models.get, without the lock; a model that has gone is loaded again.
GetHit ==
    /\ epc = "get" /\ aim \in resident
    /\ Goto("put")
    /\ Used(aim) /\ Touch(who, {aim})
    /\ UNCHANGED <<pins, views, left, kept>>

GetMiss ==
    /\ epc = "get" /\ aim \notin resident
    /\ Goto("load")
    /\ UNCHANGED <<bookVars, lru, pins, views, left, kept>>

\* outputs_to_store.  A model that has gone leaves an object that nothing
\* here looks at, or an error.
Put ==
    /\ epc = "put"
    /\ views' = [views EXCEPT ![who] = @ \cup ({aim} \cap resident)]
    /\ CallEnds
    /\ UNCHANGED <<bookVars, lru, pins, kept>>

(***************************************************************************)
(* An operator with a model among its inputs (_run_op, VramGuard).         *)
(***************************************************************************)

\* key_of: the model is still managed, or runs without a pin.
KeyOf ==
    /\ epc = "use"
    /\ Goto(IF aim \in resident THEN "pin" ELSE "op")
    /\ UNCHANGED <<bookVars, lru, pins, views, left, kept>>

Pin ==
    /\ epc = "pin"
    /\ Goto("op")
    /\ pins' = pins \cup {aim} /\ Touch(who, {aim})
    /\ UNCHANGED <<lru, views, left, kept>>

OpEnds ==
    /\ epc = "op"
    /\ pins' = pins \ {aim}
    /\ CallEnds
    /\ UNCHANGED <<bookVars, lru, views, kept>>

(***************************************************************************)
(* _call_op: an operator that runs out of memory is repeated once, after   *)
(* evict_idle(1) has found a model to evict.                               *)
(***************************************************************************)

BuildOom ==
    /\ epc = "build" /\ ~tried
    /\ Goto("oom") /\ left' = 0
    /\ UNCHANGED <<bookVars, lru, pins, views, kept>>

OpOom == /\ epc \in {"op", "oom"} /\ ~tried /\ LockFree
         /\ LET idle == resident \ (pins \cup Others(who)) IN
              \/ /\ idle = {}
                 /\ pins' = pins \ {aim} /\ CallEnds
                 /\ Sweep(Busy) /\ Forget(Stale(Busy), NoLease, {})
                 /\ UNCHANGED <<lru, views>>
              \/ \E m \in idle :
                    /\ older[m] \cap idle = {}
                    /\ Evict({m}) /\ Forget(Stale(Busy), who, {m}) /\ SweepForget(Busy, {m})
                    /\ epc' = IF epc = "oom" THEN "load" ELSE "op"
                    /\ tried' = TRUE
                    /\ UNCHANGED <<pend, who, aim, left, askVars>>

Load == \/ LoadHit \/ LoadEvict \/ WaitLook \/ Wake
        \/ Build \/ BuildFails \/ GetHit \/ GetMiss \/ Put
Use == KeyOf \/ Pin \/ OpEnds
Engine == Load \/ Use \/ BuildOom \/ OpOom

(***************************************************************************)
(* POST /model/unload.                                                     *)
(***************************************************************************)

UnloadAsk(u) ==
    /\ u \notin ask
    /\ ask' = ask \cup {u}
    /\ IF u = NoLease THEN UNCHANGED bookVars ELSE Touch(u, {})
    /\ UNCHANGED <<lru, pins, views, engVars, cut, kept>>

\* unload_detail has the lock: the targets (a name, or all but a list) that
\* are neither pinned nor held by another lease.
UnloadCheck(u) ==
    /\ u \in ask /\ LockFree
    /\ ask' = ask \ {u}
    /\ \E targets \in SUBSET resident :
          cut' = {[by |-> u, keys |-> targets \ (pins \cup Others(u))]}
    /\ Sweep(Busy) /\ Forget(Stale(Busy), NoLease, {})
    /\ UNCHANGED <<lru, pins, views, engVars>>

UnloadEvict ==
    \E c \in cut :
       /\ Evict(c.keys) /\ Strip({}, c.keys)
       /\ Forget({}, c.by, c.keys)
       /\ cut' = {}
       /\ UNCHANGED <<engVars, ask>>

(***************************************************************************)
(* Leases, objects and time.                                               *)
(***************************************************************************)

\* DELETE /leases/{id}, from the last node or from the monitor page.
ReleaseLease(l) ==
    /\ Release(l) /\ Forget({l}, NoLease, {})
    /\ UNCHANGED <<lru, pins, views, engVars, askVars>>

\* Any other reader of the register.
Sweeper ==
    /\ Stale(Busy) # {}
    /\ Sweep(Busy) /\ Forget(Stale(Busy), NoLease, {})
    /\ UNCHANGED <<lru, pins, views, engVars, askVars>>

\* ObjectStore._sweep drops an object of a lease that has ended (is_active
\* sweeps the register), when it is old enough.
Orphan(l, k) ==
    /\ k \in views[l] /\ l \notin open \ Stale(Busy)
    /\ views' = [views EXCEPT ![l] = @ \ {k}]
    /\ Sweep(Busy) /\ Forget(Stale(Busy), NoLease, {})
    /\ UNCHANGED <<lru, pins, engVars, askVars>>

\* A load wakes up at its deadline at the latest.
Tick ==
    /\ ~(epc = "sleep" /\ left = 0)
    /\ (\E l \in open : age[l] < OldAge) \/ left > 0
    /\ Elapse
    /\ left' = IF left = 0 THEN 0 ELSE left - 1
    /\ UNCHANGED <<lru, pins, views, pend, epc, who, aim, tried, askVars, kept>>

Next == \/ \E l \in Leases : Call(l) \/ Poll(l) \/ Begin(l) \/ ReleaseLease(l)
        \/ Engine
        \/ \E u \in Unloaders : UnloadAsk(u) \/ UnloadCheck(u)
        \/ UnloadEvict
        \/ \E l \in Leases, k \in Keys : Orphan(l, k)
        \/ Sweeper \/ Tick

Spec == Init /\ [][Next]_vars

(***************************************************************************)
(* Fairness: threads are scheduled, and a thread that wants the lock of    *)
(* the model manager gets it at some time (strong: loads take it again and *)
(* again); loading and computing end, or fail.                             *)
(***************************************************************************)
Fairness ==
    /\ WF_vars(\E l \in Leases : Begin(l))
    /\ SF_vars(LoadHit \/ LoadEvict) /\ SF_vars(Wake) /\ SF_vars(OpOom)
    /\ WF_vars(WaitLook) /\ WF_vars(Build \/ BuildFails)
    /\ WF_vars(GetHit \/ GetMiss \/ Put \/ KeyOf \/ Pin \/ OpEnds)
    /\ \A u \in Unloaders : SF_vars(UnloadCheck(u))
    /\ WF_vars(UnloadEvict)

FairSpec == Spec /\ Fairness

-----------------------------------------------------------------------------
(* Properties. *)

\* Every variable holds a value of its kind; the resident models are in order.
TypeOK ==
    /\ BookTypeOK
    /\ resident \subseteq Keys /\ older \in [Keys -> SUBSET resident]
    /\ \A k \in Keys : k \notin older[k] /\ (k \notin resident => older[k] = {})
    /\ \A k, m \in resident : k # m => (k \in older[m] <=> m \notin older[k])
    /\ \A k \in Keys : \A m \in older[k] : older[m] \subseteq older[k]
    /\ pins \subseteq Keys /\ views \in [Leases -> SUBSET Keys]
    /\ pend \subseteq Leases /\ who \in Callers /\ aim \in Keys \cup {NoKey}
    /\ epc \in {"idle", "load", "wait", "sleep", "build", "get", "put",
                "use", "pin", "op", "oom"}
    /\ left \in 0 .. LoadWait /\ tried \in BOOLEAN
    /\ ask \subseteq Callers
    /\ cut \subseteq [by : Callers, keys : SUBSET Keys]
    /\ kept \in [Leases -> SUBSET Keys]

\* What an execution has loaded stays on the card, and its objects in the
\* store, until it unloads it, runs out of memory or its lease ends: no load,
\* unload or recovery of another execution takes it, no matter what happens
\* while a load sleeps without the lock, and no later load of its own does
\* (the InstantID accident of execution 442).
ModelIsKept ==
    \A l \in Leases : \A k \in kept[l] :
        /\ k \in resident
        /\ k \in views[l] \/ (who = l /\ aim = k /\ epc \in {"get", "put"})

\* A request to unload is served although a load waits for the memory that it
\* would free, and before the deadline of that load: without time passing.
UnloadIsServed == \A u \in Unloaders : u \in ask ~> u \notin ask

\* A load does not wait with EXEC_LOCK for ever, however the leases it waits
\* for are renewed and whoever gets the lock before it: it goes on, or fails.
WaitEnds == SF_vars(Tick) => (epc \in {"wait", "sleep"} ~> epc \in {"build", "idle"})
=============================================================================
