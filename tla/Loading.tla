------------------------------- MODULE Loading -------------------------------
(***************************************************************************)
(* What a load decides (app/model_manager.py, app/vram.py, app/policy.py): *)
(* the knobs it was asked for and the downgrade of strict mode, the cache  *)
(* key, the memory it claims, the eviction that makes room, and whether it *)
(* goes on, waits in vain or is refused.  One load runs at a time, under   *)
(* EXEC_LOCK; the steps of a wait are in ModelResidency, here a load that  *)
(* has to wait is one that times out.  Memory is in units of 1 GB.         *)
(***************************************************************************)
EXTENDS Integers, SequencesExt, Basics, ModelFiles

CONSTANTS
    Names,          \* the model files
    Kind, Weight,   \* what sniffing says of a file; its size at fp16
    Resembles,      \* the files whose name contains a name
    Asks,           \* the loads that are requested
    Executions,     \* the leases
    CARD, MOTION,   \* the memory of the card; the size of a motion module
    OFFLOAD_MODE,   \* the default of the process
    Patches,        \* the bodies of POST /model/policy
    Most,           \* bound: the number of residents
    LEFT, POOL,     \* what an operator leaves on the card: of an offloaded
                    \* model, and in the pool of the allocator
    Longest, Amounts, Caps,  \* what plan_eviction is compared over: lists of
                    \* candidates up to a length, memory, limits on the entries
    KeySets, FewKeys  \* what the sniffing is: sets of prefixes of keys

Loaders == {"pipe", "motion", "vae", "cn"}
Modes == {"none", "model", "sequential"}
LIMITS == [max_resident |-> 1 .. 16, reserve |-> 0 .. 8, strict |-> 0 .. 1, floor |-> 0 .. 8]

ASSUME FileAssumption ==
    /\ Kind \in [Names -> {"checkpoint", "vae", "controlnet"}] /\ Weight \in [Names -> Nat]
    /\ Resembles \in [Names -> SUBSET Names] /\ \A n \in Names : n \in Resembles[n]
ASSUME AskAssumption ==
    Asks \subseteq [loader : Loaders, name : Names, dtype : {"auto", "fp16", "fp32"},
                    offload : {"auto"} \cup Modes]
ASSUME SizeAssumption == {CARD, MOTION, LEFT, POOL} \subseteq Nat
                         /\ OFFLOAD_MODE \in Modes
ASSUME PatchAssumption ==   \* a body names a knob once, in this order
    \A patch \in Patches :
        /\ patch \in Seq([knob : DOMAIN LIMITS, value : Int])
        /\ \A i, j \in DOMAIN patch : patch[i].knob = patch[j].knob => i = j
ASSUME PureAssumption ==
    /\ Longest \in Nat /\ Amounts \subseteq Nat /\ Caps \subseteq Nat
    /\ KeySets \subseteq SUBSET KeyPrefixes /\ FewKeys \subseteq SUBSET KeyPrefixes

VARIABLES
    resident,   \* the keys of _pipes, the least recently used first (_last_used)
    entry,      \* _sizes, _vram_sizes and _offloads of a resident, and what of
                \* it is on the card
    held,       \* LeaseBook: the keys of an execution
    views,      \* the residents to which its objects in the store refer
    pins,       \* the residents that the operator now running uses
    pool,       \* memory_reserved - memory_allocated
    knobs       \* MAX_RESIDENT, VRAM_RESERVE_MB and KNOBS

vars == <<resident, entry, held, views, pins, pool, knobs>>

Residents == ToSet(resident)
ByOthers(l) == UNION {held[m] : m \in Executions \ {l}}
AtLeast0(n) == IF n < 0 THEN 0 ELSE n

OnCard(keys) == Total(keys, [k \in keys |-> entry[k].here])
Reserved == OnCard(Residents) + pool
oversubscribed == Reserved > CARD
FreeBytes(keys, cached) == AtLeast0(CARD - OnCard(keys) - cached) + cached

(***************************************************************************)
(* The knobs of a load, its key and what it claims.                        *)
(***************************************************************************)

Component(a) == a.loader \in {"vae", "cn"}
Dtype(a) == CASE a.dtype # "auto" -> a.dtype
              [] a.dtype = "auto" /\ a.loader = "vae" -> "fp32"
              [] OTHER -> "fp16"
Offload(a) == CASE Component(a) -> "none"
                [] ~Component(a) /\ a.offload = "auto" -> OFFLOAD_MODE
                [] OTHER -> a.offload
Explicit(a) == a.dtype # "auto" \/ a.offload # "auto"

estimate(a) == Weight[a.name] * (IF Dtype(a) = "fp32" THEN 2 ELSE 1)
               + (IF a.loader = "motion" THEN MOTION ELSE 0)
WithFactor(est) == (est * 5) \div 4

\* Fault: only what has already spilled counts, not what the load claims.
NeedsDowngradeLate(est) == oversubscribed

NeedsDowngrade(est) == oversubscribed \/ WithFactor(est) > CARD - knobs.reserve
Downgrade(a) == /\ a.loader = "pipe" /\ Offload(a) = "none"
                /\ knobs.strict = 1 /\ NeedsDowngrade(estimate(a))
Mode(a) == IF Downgrade(a) THEN "model" ELSE Offload(a)

\* Fault: the key of a downgraded load is that of the request.
KeyKnobsAsAsked(a) == CASE Component(a) -> <<Dtype(a)>>
                        [] ~Component(a) /\ Explicit(a) -> <<Dtype(a), Mode(a)>>
                        [] OTHER -> << >>

KeyKnobs(a) == CASE Component(a) -> <<Dtype(a)>>
                 [] ~Component(a) /\ (Explicit(a) \/ Downgrade(a)) -> <<Dtype(a), Mode(a)>>
                 [] OTHER -> << >>
KeyOf(a) == [loader |-> a.loader, name |-> a.name, knobs |-> KeyKnobs(a)]

BudgetOf(est, mode) == IF mode = "none" THEN est ELSE knobs.floor
VramSize(k) == entry[k].budget
Claimed(keys) == Total(keys, [k \in keys |-> VramSize(k)])
Need(a) == WithFactor(IF a.loader = "pipe" THEN BudgetOf(estimate(a), Mode(a)) ELSE estimate(a))

(***************************************************************************)
(* plan_eviction: the victims, over candidates in the order of their use.  *)
(***************************************************************************)

Enough(gone, freed, count, free, need, reserve, cap) ==
    /\ cap <= 0 \/ count - gone < cap
    /\ need <= 0 \/ free + freed >= need + reserve

\* The loop, after each candidate; when it has ended its plan stays.
Plans(candidates, size, count, free, need, reserve, cap) ==
    LET turn(plan, k) ==
            IF Enough(Len(plan.evicted), plan.freed, count, free, need, reserve, cap) THEN plan
            ELSE [evicted |-> Append(plan.evicted, k), freed |-> plan.freed + size[k]]
        after[i \in 0 .. Len(candidates)] ==
            IF i = 0 THEN [evicted |-> << >>, freed |-> 0]
            ELSE turn(after[i - 1], candidates[i])
    IN  after

plan_eviction(candidates, size, count, free, need, reserve, cap) ==
    Plans(candidates, size, count, free, need, reserve, cap)[Len(candidates)].evicted

\* What must not be taken for l: pins, its own views, what others hold.
Kept(l) == pins \cup views[l] \cup ByOthers(l)

\* Fault: the memory in the allocator's pool counts twice.
EvictPassTwice(l, need) ==
    IF resident = << >> THEN {}
    ELSE ToSet(plan_eviction(
            Only(resident, Residents \ Kept(l)),
            [k \in Residents |-> VramSize(k)], Len(resident),
            FreeBytes(Residents, pool) + pool, need, knobs.reserve, knobs.max_resident))

EvictPass(l, need) ==
    IF resident = << >> THEN {}
    ELSE ToSet(plan_eviction(
            Only(resident, Residents \ Kept(l)),
            [k \in Residents |-> VramSize(k)], Len(resident),
            FreeBytes(Residents, pool), need, knobs.reserve, knobs.max_resident))

(***************************************************************************)
(* The loads.                                                              *)
(***************************************************************************)

Init == /\ resident = << >> /\ entry = << >>
        /\ held = [l \in Executions |-> {}] /\ views = [l \in Executions |-> {}]
        /\ pins = {} /\ pool = 0
        /\ knobs \in [max_resident : {2}, reserve : {1}, strict : {0}, floor : {1, 3}]

\* What the evictions of a load leave; each of them empties the pool.
Left(gone) == Residents \ gone
PoolAfter(gone) == IF gone = {} THEN pool ELSE 0
\* Fault: an eviction does not tell the leases (LeaseBook.forget_key).
ForgottenByFew(gone) ==
    /\ resident' = Only(resident, Left(gone))
    /\ entry' = [k \in Left(gone) |-> entry[k]]
    /\ views' = [l \in Executions |-> views[l] \ gone]
    /\ pins' = pins \ gone /\ UNCHANGED held

Forgotten(gone) ==
    /\ resident' = Only(resident, Left(gone))
    /\ entry' = [k \in Left(gone) |-> entry[k]]
    /\ held' = [l \in Executions |-> held[l] \ gone]
    /\ views' = [l \in Executions |-> views[l] \ gone]
    /\ pins' = pins \ gone

Short(a, gone) == /\ resident # << >> /\ Need(a) > 0
                  /\ FreeBytes(Left(gone), PoolAfter(gone)) < Need(a) + knobs.reserve
OthersLeft(l, gone) == ByOthers(l) \cap Left(gone)
WaitsInVain(l, a, gone) == Short(a, gone) /\ OthersLeft(l, gone) # {}

\* _check_total_budget, which a load reaches when it has nobody to wait for.
Refused(l, a, gone) ==
    /\ Short(a, gone) /\ knobs.strict = 1
    /\ Claimed(OthersLeft(l, gone)) + Need(a) > CARD - knobs.reserve

\* The sniffing that comes before the eviction, and the one that follows it.
SniffedFirst(a) == CASE a.loader = "vae" -> Kind[a.name] = "vae"
                     [] a.loader = "cn" -> Kind[a.name] = "controlnet"
                     [] a.loader = "motion" -> Kind[a.name] = "checkpoint"
                     [] a.loader = "pipe" -> TRUE
SniffedLast(a) == a.loader = "pipe" => Kind[a.name] = "checkpoint"

Touch(l, k) == /\ held' = [held EXCEPT ![l] = @ \cup {k}]
               /\ views' = [views EXCEPT ![l] = @ \cup {k}]

\* EXEC_LOCK: a load runs when no other operator does.
LoadHit(l, a) ==
    /\ pins = {} /\ KeyOf(a) \in Residents
    /\ resident' = Append(Only(resident, Residents \ {KeyOf(a)}), KeyOf(a))
    /\ Touch(l, KeyOf(a))
    /\ UNCHANGED <<entry, pins, pool, knobs>>

Misses(a) == pins = {} /\ KeyOf(a) \notin Residents /\ SniffedFirst(a)

LoadFails(l, a) ==
    LET gone == EvictPass(l, Need(a)) IN
    /\ Misses(a)
    /\ WaitsInVain(l, a, gone) \/ Refused(l, a, gone) \/ ~SniffedLast(a)
    /\ Forgotten(gone) /\ pool' = PoolAfter(gone)
    /\ UNCHANGED knobs

GoesOn(l, a, gone) == /\ Misses(a) /\ SniffedLast(a) /\ Cardinality(Left(gone)) < Most
                      /\ ~WaitsInVain(l, a, gone) /\ ~Refused(l, a, gone)

\* load_motion writes no _vram_sizes: _vram_size falls back to the weights.
Entry(a) == [size |-> estimate(a), mode |-> Mode(a),
             budget |-> IF a.loader = "motion" THEN estimate(a)
                        ELSE BudgetOf(estimate(a), Mode(a)),
             here |-> IF Mode(a) = "none" THEN estimate(a) ELSE 0]

LoadBuilds(l, a) ==
    LET gone == EvictPass(l, Need(a))
        k == KeyOf(a)
    IN  /\ GoesOn(l, a, gone)
        /\ resident' = Append(Only(resident, Left(gone)), k)
        /\ entry' = [o \in Left(gone) \cup {k} |-> IF o = k THEN Entry(a) ELSE entry[o]]
        /\ held' = [m \in Executions |-> (held[m] \ gone) \cup (IF m = l THEN {k} ELSE {})]
        /\ views' = [m \in Executions |-> (views[m] \ gone) \cup (IF m = l THEN {k} ELSE {})]
        /\ pool' = AtLeast0(PoolAfter(gone) - Entry(a).here)
        /\ UNCHANGED <<pins, knobs>>

\* evict_idle(1): the least recently used that nobody else holds.
Idle(l, keys) == LET idle == Only(resident, keys \ ByOthers(l))
                 IN  IF idle = << >> THEN {} ELSE {Head(idle)}

\* The driver refuses a model that does not fit: the engine takes an idle
\* model away and calls the operator again.
LoadRunsOut(l, a) ==
    LET gone == EvictPass(l, Need(a))
        all == gone \cup Idle(l, Left(gone))
    IN  /\ GoesOn(l, a, gone) /\ Mode(a) = "none"
        /\ OnCard(Left(gone)) + estimate(a) > CARD
        /\ Forgotten(all) /\ pool' = PoolAfter(all)
        /\ UNCHANGED knobs

Load(l, a) == LoadHit(l, a) \/ LoadFails(l, a) \/ LoadBuilds(l, a) \/ LoadRunsOut(l, a)

(***************************************************************************)
(* Operators that use models, unloads, and the end of an execution.        *)
(***************************************************************************)

OpBegins(l, k) == /\ pins = {} /\ k \in views[l]
                  /\ pins' = {k} /\ held' = [held EXCEPT ![l] = @ \cup {k}]
                  /\ UNCHANGED <<resident, entry, views, pool, knobs>>

\* What it worked with stays in the pool, and a part of an offloaded model
\* may stay on the card until another of its parts is called.
OpEnds == /\ pins # {} /\ pins' = {}
          /\ \E cached \in {pool, POOL}, left \in {0, LEFT} :
                /\ pool' = cached
                /\ entry' = [k \in Residents |->
                                IF k \in pins /\ entry[k].mode # "none"
                                THEN [entry[k] EXCEPT !.here = left] ELSE entry[k]]
          /\ UNCHANGED <<resident, held, views, knobs>>

\* find_keys: the key itself if it is resident (the key of a pipe without
\* knobs is the name), else all that contain the name.
find_keys(n) ==
    LET itself == [loader |-> "pipe", name |-> n, knobs |-> << >>]
    IN  IF itself \in Residents THEN {itself} ELSE {k \in Residents : k.name \in Resembles[n]}

\* unload_detail: all but keep, or what a name finds; leased and pinned stay.
UnloadTargets(target, keep) ==
    IF target = "all" THEN Residents \ UNION {find_keys(n) : n \in keep} ELSE find_keys(target)

Unload(l, target, keep) ==
    LET gone == UnloadTargets(target, keep) \ (pins \cup ByOthers(l)) IN
    /\ gone # {}
    /\ Forgotten(gone) /\ pool' = PoolAfter(gone)
    /\ UNCHANGED knobs

\* The lease ends; the views that are left protect nobody else's load.
Release(l) == /\ held[l] # {} \/ views[l] # {}
              /\ ~ \E k \in pins : k \in views[l]
              /\ held' = [held EXCEPT ![l] = {}] /\ views' = [views EXCEPT ![l] = {}]
              /\ UNCHANGED <<resident, entry, pins, pool, knobs>>

\* policy.update writes knob by knob, up to the first value it refuses.
Applied(patch) ==
    LET written == {i \in DOMAIN patch :
                       \A j \in 1 .. i : patch[j].value \in LIMITS[patch[j].knob]}
    IN  [knob \in DOMAIN knobs |->
            IF \E i \in written : patch[i].knob = knob
            THEN patch[CHOOSE i \in written : patch[i].knob = knob].value ELSE knobs[knob]]

SetPolicy(patch) == /\ knobs' = Applied(patch)
                    /\ UNCHANGED <<resident, entry, held, views, pins, pool>>

Next == \/ \E l \in Executions, a \in Asks : Load(l, a)
        \/ \E l \in Executions : \E k \in views[l] : OpBegins(l, k)
        \/ OpEnds
        \/ \E l \in Executions, t \in Names \cup {"all"}, keep \in {{n} : n \in Names} \cup {{}} :
              (t # "all" => keep = {}) /\ Unload(l, t, keep)
        \/ \E l \in Executions : Release(l)
        \/ \E patch \in Patches : SetPolicy(patch)

Spec == Init /\ [][Next]_vars

(***************************************************************************)
(* Properties.                                                             *)
(***************************************************************************)

\* A key says how its model was loaded, whatever strict mode made of the
\* request: who is answered a resident gets the precision and the offloading
\* that the key names, and without knobs in the key, the defaults.
KeyTellsKnobs ==
    \A k \in Residents :
        /\ (k.knobs = << >>) => entry[k].mode = OFFLOAD_MODE
        /\ Len(k.knobs) = 1 => entry[k].mode = "none"
        /\ Len(k.knobs) = 2 => entry[k].mode = k.knobs[2]

Keys == [loader : Loaders, name : Names, knobs : Seq({"fp16", "fp32"} \cup Modes)]

\* The books agree: every resident has an entry, leases and views name
\* residents only, a pinned model is resident, and no knob is out of its range;
\* and keys tell knobs (a writer, or an eviction, that forgets one of them).
TypeOK == /\ resident \in Seq(Keys)
          /\ \A i, j \in DOMAIN resident : resident[i] = resident[j] => i = j
          /\ entry \in [Residents -> [size : Nat, budget : Nat, here : Nat, mode : Modes]]
          /\ held \in [Executions -> SUBSET Residents]
          /\ views \in [Executions -> SUBSET Residents]
          /\ \A l \in Executions : views[l] \subseteq held[l]
          /\ pins \subseteq Residents /\ pool \in Nat
          /\ DOMAIN knobs = DOMAIN LIMITS /\ \A knob \in DOMAIN knobs : knobs[knob] \in LIMITS[knob]
          /\ KeyTellsKnobs

Added == Residents' \ Residents
Loader(k) == CHOOSE l \in Executions : k \in held'[l]

\* What the books claim of the memory is what an eviction gives back: no
\* offloaded model, whose budget is the floor although its weights are not on
\* the card, and nothing that has already gone to the host's memory.
BooksAreTrue == ~oversubscribed /\ \A k \in Residents : entry[k].mode = "none"

\* The floors that the books claim for offloaded models, although their
\* weights are not on the card.
Floors == Claimed({k \in Residents : entry[k].mode # "none"})

\* In strict mode no load takes the card past its physical memory, unless its
\* own execution still refers to other models (which no load takes away) or
\* the floors of offloaded models exceed the reserve that makes up for them, or
\* it is a ControlNet, a VAE or a motion pipe that comes to an empty server: only
\* with a model resident does the code look for room.
StrictLoadFits ==
    [][\A k \in Added :
          (/\ knobs.strict = 1 /\ ~oversubscribed /\ views[Loader(k)] = {}
           /\ Floors <= knobs.reserve /\ (Residents # {} \/ k.loader = "pipe"))
          => Reserved' <= CARD]_vars

\* A load that goes on without the room it needs has taken all it may take, as
\* its warning says (model_manager.py:889), as long as the books are true.
ShortHasTakenAll ==
    [][\A k \in Added, a \in Asks :
          LET left == Residents \cap Residents'
              room == FreeBytes(left, IF left = Residents THEN pool ELSE 0)
          IN  (/\ k = KeyOf(a) /\ Residents # {} /\ Need(a) > 0 /\ BooksAreTrue
               /\ room < Need(a) + knobs.reserve)
              => left \subseteq Kept(Loader(k))]_vars

\* The promise of plan_eviction, over lists of up to n candidates with these
\* sizes, as many others that are pinned, and amounts of memory and caps: it
\* takes the least recently used first, stops as soon as both conditions hold,
\* and only when nobody is left without them.
PlanIsShortest(n, amounts, caps) ==
    \A many \in 0 .. n : \A size \in [1 .. many -> amounts] :
        \A others \in 0 .. 1, free, need, reserve \in amounts, cap \in caps :
            LET enough(gone) == Enough(gone, Total(1 .. gone, size), many + others,
                                       free, need, reserve, cap)
                plan == plan_eviction([i \in 1 .. many |-> i], size, many + others,
                                      free, need, reserve, cap)
            IN  /\ plan = [i \in 1 .. Len(plan) |-> i]
                /\ \A gone \in 0 .. Len(plan) - 1 : ~enough(gone)
                /\ enough(Len(plan)) \/ Len(plan) = many

PlansAreShortest == PlanIsShortest(Longest, Amounts, Caps)
CatalogueIsRight == CatalogueLoads(KeySets, FewKeys)

\* The pure parts do what they promise: see PlanIsShortest and CatalogueLoads.
AlgorithmsAreRight == pool \in Nat => PlansAreShortest /\ CatalogueIsRight
===============================================================================
