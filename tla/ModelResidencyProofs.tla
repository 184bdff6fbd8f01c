------------------------- MODULE ModelResidencyProofs -------------------------
(***************************************************************************)
(* Proofs about ModelResidency, for any models, sizes, executions, limits  *)
(* and card.                                                               *)
(*                                                                         *)
(* ModelIsKept is not inductive.  Held says why a model is not taken: it   *)
(* is written down under the lease, which is registered, so that it is     *)
(* among the models of others for everybody else; Cuts says that an unload *)
(* which has chosen its models still may take them when it comes to it.    *)
(***************************************************************************)
EXTENDS ModelResidency, TLAPS

\* The parts of TypeOK, and what the engine works on.
Kinds ==
    /\ resident \subseteq Keys /\ pins \subseteq Keys /\ views \in [Leases -> SUBSET Keys]
    /\ pend \subseteq Leases /\ who \in Callers /\ aim \in Keys \cup {NoKey}
    /\ epc \in {"idle", "load", "wait", "sleep", "build", "get", "put",
                "use", "pin", "op", "oom"}
    /\ left \in 0 .. LoadWait /\ tried \in BOOLEAN
    /\ ask \subseteq Callers
    /\ cut \subseteq [by : Callers, keys : SUBSET Keys]
    /\ kept \in [Leases -> SUBSET Keys]
    /\ epc # "idle" => who \in Leases /\ aim \in Keys

Order ==
    /\ older \in [Keys -> SUBSET resident]
    /\ \A k \in Keys : k \notin older[k] /\ (k \notin resident => older[k] = {})
    /\ \A k, m \in resident : k # m => (k \in older[m] <=> m \notin older[k])
    /\ \A k \in Keys : \A m \in older[k] : older[m] \subseteq older[k]

Held ==
    \A l \in Leases : \A k \in kept[l] :
        /\ l \in open /\ k \in holds[l] /\ k \in resident
        /\ k \in views[l] \/ (who = l /\ aim = k /\ epc \in {"get", "put"})

Cuts ==
    /\ epc \in {"wait", "build"} => cut = {}
    /\ \A c \in cut, l \in Leases : l # c.by => kept[l] \cap c.keys = {}

-----------------------------------------------------------------------------
(* The register. *)

LEMMA OldAgeNat == OldAge \in Nat
  BY LimitAssumption DEF OldAge

\* Whatever a caller does to the register, the register keeps its type.
LEMMA BookStep ==
    ASSUME BookTypeOK,
           \/ UNCHANGED bookVars \/ Elapse
           \/ \E l \in Leases, keys \in SUBSET Keys : Touch(l, keys)
           \/ \E l \in Leases : TouchExisting(l) \/ Release(l)
           \/ \E gone, keys : Strip(gone, keys)
    PROVE  BookTypeOK'
<1> USE OldAgeNat DEF BookTypeOK
<1>1. CASE UNCHANGED bookVars \/ Elapse
  BY <1>1 DEF bookVars, Elapse
<1>2. CASE \E l \in Leases, keys \in SUBSET Keys : Touch(l, keys)
  BY <1>2 DEF Touch
<1>3. CASE \E l \in Leases : TouchExisting(l)
  BY <1>3 DEF TouchExisting
<1>4. CASE \E gone, keys : Strip(gone, keys)
  BY <1>4 DEF Strip
<1> QED BY <1>1, <1>2, <1>3, <1>4 DEF Release, Sweep, Drop

-----------------------------------------------------------------------------
(* The order of use. *)

LEMMA EvictOrder ==
    ASSUME Order, resident \subseteq Keys, NEW keys, Evict(keys)
    PROVE  Order'
<1>1. resident' = resident \ keys
  BY DEF Evict
<1>2. older' = [m \in Keys |-> IF m \in keys THEN {} ELSE older[m] \ keys]
  BY DEF Evict
<1>3. \A m \in Keys : \A n : n \in older'[m] <=> m \notin keys /\ n \notin keys /\ n \in older[m]
  BY <1>2
<1>4. older' \in [Keys -> SUBSET resident']
  BY <1>1, <1>2 DEF Order
<1>5. \A k \in Keys : k \notin older'[k] /\ (k \notin resident' => older'[k] = {})
  BY <1>1, <1>3 DEF Order
<1>6. \A k, m \in resident' : k # m => (k \in older'[m] <=> m \notin older'[k])
  BY <1>1, <1>3 DEF Order
<1>7. \A k \in Keys : \A m \in older'[k] : older'[m] \subseteq older'[k]
  <2> SUFFICES ASSUME NEW k \in Keys, NEW m \in older'[k], NEW n \in older'[m]
               PROVE  n \in older'[k]
    OBVIOUS
  <2>1. m \in Keys /\ m \in older[k] /\ k \notin keys
    BY <1>3, <1>1, <1>4
  <2>2. n \in older[m] /\ n \notin keys
    BY <1>3, <2>1
  <2>3. n \in older[k]
    BY <2>1, <2>2 DEF Order
  <2> QED BY <1>3, <2>1, <2>2, <2>3
<1> QED BY <1>4, <1>5, <1>6, <1>7 DEF Order

LEMMA UsedOrder ==
    ASSUME Order, resident \subseteq Keys, NEW k \in Keys, Used(k)
    PROVE  Order'
<1>1. resident' = resident \cup {k}
  BY DEF Used
<1>2. older' = [m \in Keys |-> IF m = k THEN resident \ {k} ELSE older[m] \ {k}]
  BY DEF Used
<1>3. \A m \in Keys : \A n :
         n \in older'[m] <=> n # k /\ ((n \in resident /\ m = k) \/ (n \in older[m] /\ m # k))
  <2>1. \A m \in Keys : older'[m] = IF m = k THEN resident \ {k} ELSE older[m] \ {k}
    BY <1>2
  <2> QED BY <2>1
<1>4. older' \in [Keys -> SUBSET resident']
  BY <1>1, <1>2 DEF Order
<1>5. \A m \in Keys : m \notin older'[m] /\ (m \notin resident' => older'[m] = {})
  <2> TAKE m \in Keys
  <2>1. m \notin older'[m]
    BY <1>3 DEF Order
  <2>2. ASSUME m \notin resident' PROVE older'[m] = {}
    <3>1. m # k /\ older[m] = {}
      BY <1>1, <2>2 DEF Order
    <3> QED BY <1>3, <3>1
  <2> QED BY <2>1, <2>2
<1>6. \A n, m \in resident' : n # m => (n \in older'[m] <=> m \notin older'[n])
  <2> SUFFICES ASSUME NEW n \in resident', NEW m \in resident', n # m
               PROVE  n \in older'[m] <=> m \notin older'[n]
    OBVIOUS
  <2>1. n \in Keys /\ m \in Keys
    BY <1>1
  <2>2. CASE n = k
    BY <1>1, <1>3, <2>1, <2>2
  <2>3. CASE m = k
    BY <1>1, <1>3, <2>1, <2>3
  <2>4. CASE n # k /\ m # k
    BY <1>1, <1>3, <2>1, <2>4 DEF Order
  <2> QED BY <2>2, <2>3, <2>4
<1>7. \A n \in Keys : \A m \in older'[n] : older'[m] \subseteq older'[n]
  <2> SUFFICES ASSUME NEW n \in Keys, NEW m \in older'[n], NEW o \in older'[m]
               PROVE  o \in older'[n]
    OBVIOUS
  <2>1. m \in resident /\ m # k /\ m \in Keys
    BY <1>3, <1>4, <1>1
  <2>2. o \in older[m] /\ o # k
    BY <1>3, <2>1
  <2>3. o \in resident
    BY <2>1, <2>2 DEF Order
  <2>4. CASE n = k
    BY <1>3, <2>2, <2>3, <2>4
  <2>5. CASE n # k
    <3>1. m \in older[n]
      BY <1>3, <2>5
    <3>2. o \in older[n]
      BY <3>1, <2>2 DEF Order
    <3> QED BY <1>3, <2>2, <2>5, <3>2
  <2> QED BY <2>4, <2>5
<1> QED BY <1>4, <1>5, <1>6, <1>7 DEF Order

-----------------------------------------------------------------------------
(* Types. *)

LEMMA EvictKinds ==
    ASSUME Kinds, NEW keys, Evict(keys)
    PROVE  resident' \subseteq Keys /\ pins' \subseteq Keys /\ views' \in [Leases -> SUBSET Keys]
  BY DEF Evict, Kinds

LEMMA ForgetKinds ==
    ASSUME Kinds, NEW gone, NEW l, NEW keys, Forget(gone, l, keys)
    PROVE  kept' \in [Leases -> SUBSET Keys]
  BY DEF Forget, Kinds

\* The rest of Kinds, for a step of the engine.
LEMMA CallEndsKinds ==
    ASSUME Kinds, CallEnds, resident' \subseteq Keys, pins' \subseteq Keys,
           views' \in [Leases -> SUBSET Keys], kept' \in [Leases -> SUBSET Keys]
    PROVE  Kinds'
<1>1. /\ epc' = "idle" /\ who' = NoLease /\ aim' = NoKey /\ left' = 0 /\ tried' = FALSE
      /\ UNCHANGED <<pend, ask, cut>>
  BY DEF CallEnds, askVars
<1>2. left' \in 0 .. LoadWait
  BY <1>1, SizeAssumption
<1>4. tried' \in BOOLEAN
  BY <1>1
<1>5. who' \in Callers
  BY <1>1 DEF Callers
<1>3. pend' \subseteq Leases /\ ask' \subseteq Callers
      /\ cut' \subseteq [by : Callers, keys : SUBSET Keys]
  BY <1>1 DEF Kinds
<1> QED BY <1>1, <1>2, <1>3, <1>4, <1>5 DEF Kinds

LEMMA GotoKinds ==
    ASSUME Kinds, epc # "idle", NEW pc \in {"load", "wait", "sleep", "build", "get", "put",
                                            "use", "pin", "op", "oom"},
           Goto(pc), left' \in 0 .. LoadWait,
           resident' \subseteq Keys, pins' \subseteq Keys,
           views' \in [Leases -> SUBSET Keys], kept' \in [Leases -> SUBSET Keys]
    PROVE  Kinds'
  BY DEF Kinds, Goto, askVars

LEMMA LoadKinds == ASSUME Kinds, Load PROVE Kinds'
<1>0. /\ resident \subseteq Keys /\ pins \subseteq Keys /\ views \in [Leases -> SUBSET Keys]
      /\ kept \in [Leases -> SUBSET Keys] /\ left \in 0 .. LoadWait /\ LoadWait \in Nat
      /\ 0 \in 0 .. LoadWait /\ LoadWait \in 0 .. LoadWait
  BY SizeAssumption DEF Kinds
<1>a. epc # "idle" => aim \in Keys /\ who \in Leases
  BY DEF Kinds
<1>1. CASE LoadHit \/ Build
  <2>1. epc # "idle" /\ Used(aim) /\ Goto("get") /\ UNCHANGED <<pins, views>>
    BY <1>1 DEF LoadHit, Build
  <2>2. resident' \subseteq Keys
    BY <1>0, <1>a, <2>1 DEF Used
  <2>3. kept' \in [Leases -> SUBSET Keys] /\ left' \in 0 .. LoadWait
    BY <1>0, <1>a, <1>1 DEF LoadHit, Build
  <2> QED BY <1>0, <2>1, <2>2, <2>3, GotoKinds
<1>2. CASE LoadEvict
  <2>1. epc # "idle" /\ \E pc \in {"build", "wait"} : Goto(pc) /\ left' \in {left, LoadWait}
    BY <1>2 DEF LoadEvict
  <2>2. \E keys : Evict(keys) /\ Forget(Stale(Busy), NoLease, keys)
    BY <1>2 DEF LoadEvict
  <2> QED BY <1>0, <2>1, <2>2, EvictKinds, ForgetKinds, GotoKinds
<1>3. CASE WaitLook
  <2>1. epc # "idle" /\ Forget(Stale(Busy), NoLease, {}) /\ UNCHANGED <<resident, pins, views>>
    BY <1>3 DEF WaitLook, lru
  <2>2. CallEnds \/ \E pc \in {"build", "sleep"} : Goto(pc) /\ UNCHANGED left
    BY <1>3 DEF WaitLook
  <2> QED BY <1>0, <2>1, <2>2, ForgetKinds, GotoKinds, CallEndsKinds
<1>4. CASE Wake
  <2>1. epc # "idle" /\ \E pc \in {"build", "wait"} : Goto(pc) /\ UNCHANGED left
    BY <1>4 DEF Wake
  <2>2. \E keys : Evict(keys) /\ Forget(Stale(Busy), NoLease, keys)
    BY <1>4 DEF Wake
  <2> QED BY <1>0, <2>1, <2>2, EvictKinds, ForgetKinds, GotoKinds
<1>5. CASE BuildFails
  BY <1>0, <1>5, CallEndsKinds DEF BuildFails, lru
<1>6. CASE GetHit
  <2>1. epc # "idle" /\ Used(aim) /\ Goto("put") /\ UNCHANGED <<pins, views, kept, left>>
    BY <1>6 DEF GetHit
  <2>2. resident' \subseteq Keys
    BY <1>0, <1>a, <2>1 DEF Used
  <2> QED BY <1>0, <2>1, <2>2, GotoKinds
<1>7. CASE GetMiss
  BY <1>0, <1>7, GotoKinds DEF GetMiss, lru
<1>8. CASE Put
  <2>1. views' \in [Leases -> SUBSET Keys]
    BY <1>0, <1>8 DEF Put
  <2> QED BY <1>0, <1>8, <2>1, CallEndsKinds DEF Put, lru
<1> QED BY <1>1, <1>2, <1>3, <1>4, <1>5, <1>6, <1>7, <1>8 DEF Load

LEMMA UseKinds == ASSUME Kinds, Use \/ BuildOom \/ OpOom PROVE Kinds'
<1>0. /\ resident \subseteq Keys /\ pins \subseteq Keys /\ views \in [Leases -> SUBSET Keys]
      /\ kept \in [Leases -> SUBSET Keys] /\ left \in 0 .. LoadWait /\ 0 \in 0 .. LoadWait
  BY SizeAssumption DEF Kinds
<1>a. epc # "idle" => aim \in Keys /\ who \in Leases
  BY DEF Kinds
<1>1. CASE KeyOf
  BY <1>0, <1>1, GotoKinds DEF KeyOf, lru
<1>2. CASE Pin
  <2>1. epc # "idle" /\ Goto("op") /\ UNCHANGED <<resident, views, left, kept>>
    BY <1>2 DEF Pin, lru
  <2>2. pins' \subseteq Keys
    BY <1>0, <1>a, <1>2 DEF Pin
  <2> QED BY <1>0, <2>1, <2>2, GotoKinds
<1>3. CASE OpEnds
  <2>1. CallEnds /\ UNCHANGED <<resident, views, kept>> /\ pins' \subseteq Keys
    BY <1>0, <1>3 DEF OpEnds, lru
  <2> QED BY <1>0, <2>1, CallEndsKinds
<1>4. CASE BuildOom
  <2>1. epc # "idle" /\ Goto("oom") /\ UNCHANGED <<resident, pins, views, kept>> /\ left' = 0
    BY <1>4 DEF BuildOom, lru
  <2> QED BY <1>0, <2>1, GotoKinds
<1>5. CASE OpOom
  <2> DEFINE idle == resident \ (pins \cup Others(who))
  <2>1. epc # "idle"
    BY <1>5 DEF OpOom
  <2>2. CASE /\ pins' = pins \ {aim} /\ CallEnds
             /\ Forget(Stale(Busy), NoLease, {}) /\ UNCHANGED <<lru, views>>
    <3>1. kept' \in [Leases -> SUBSET Keys]
      BY <2>2, ForgetKinds
    <3>2. pins' \subseteq Keys /\ UNCHANGED <<resident, views>>
      BY <1>0, <2>2 DEF lru
    <3> QED BY <1>0, <2>2, <3>1, <3>2, CallEndsKinds
  <2>3. CASE \E m : /\ Evict({m}) /\ Forget(Stale(Busy), who, {m})
                    /\ epc' = (IF epc = "oom" THEN "load" ELSE "op")
                    /\ tried' = TRUE /\ UNCHANGED <<pend, who, aim, left, askVars>>
    <3>1. /\ resident' \subseteq Keys /\ pins' \subseteq Keys
          /\ views' \in [Leases -> SUBSET Keys] /\ kept' \in [Leases -> SUBSET Keys]
      BY <2>3, EvictKinds, ForgetKinds
    <3>2. /\ epc' \in {"load", "op"} /\ tried' \in BOOLEAN
          /\ UNCHANGED <<pend, who, aim, left, ask, cut>>
      BY <2>3 DEF askVars
    <3> QED BY <1>a, <2>1, <3>1, <3>2 DEF Kinds
  <2> QED BY <1>5, <2>2, <2>3 DEF OpOom
<1> QED BY <1>1, <1>2, <1>3, <1>4, <1>5 DEF Use

LEMMA OtherKinds ==
    ASSUME Kinds,
           \/ \E l \in Leases : Call(l) \/ Poll(l) \/ Begin(l) \/ ReleaseLease(l)
           \/ \E u \in Unloaders : UnloadAsk(u) \/ UnloadCheck(u)
           \/ UnloadEvict
           \/ \E l \in Leases, k \in Keys : Orphan(l, k)
           \/ Sweeper \/ Tick \/ UNCHANGED vars
    PROVE  Kinds'
<1>1. ASSUME NEW l \in Leases, Call(l) \/ Poll(l) PROVE Kinds'
  BY <1>1 DEF Call, Poll, Kinds, lru, engVars, askVars
<1>2. ASSUME NEW l \in Leases, Begin(l) PROVE Kinds'
  <2>1. /\ pend' = pend \ {l} /\ who' = l /\ epc' \in {"load", "use"} /\ aim' \in Models[l]
        /\ UNCHANGED <<resident, pins, views, left, tried, ask, cut, kept>>
    BY <1>2 DEF Begin, lru, askVars
  <2>2. aim' \in Keys /\ who' \in Callers
    BY <2>1, CallerAssumption DEF Callers
  <2> QED BY <2>1, <2>2 DEF Kinds
<1>3. ASSUME NEW l \in Leases, ReleaseLease(l) PROVE Kinds'
  <2>1. kept' \in [Leases -> SUBSET Keys]
    BY <1>3, ForgetKinds DEF ReleaseLease
  <2> QED BY <1>3, <2>1 DEF ReleaseLease, Kinds, lru, engVars, askVars
<1>4. ASSUME NEW u \in Unloaders, UnloadAsk(u) PROVE Kinds'
  BY <1>4, CallerAssumption DEF UnloadAsk, Kinds, lru, engVars
<1>5. ASSUME NEW u \in Unloaders, UnloadCheck(u) PROVE Kinds'
  <2>1. kept' \in [Leases -> SUBSET Keys]
    BY <1>5, ForgetKinds DEF UnloadCheck
  <2>2. PICK targets \in SUBSET resident :
           cut' = {[by |-> u, keys |-> targets \ (pins \cup Others(u))]}
    BY <1>5 DEF UnloadCheck
  <2>3. u \in Callers /\ targets \ (pins \cup Others(u)) \in SUBSET Keys
    BY CallerAssumption DEF Kinds
  <2>4. cut' \subseteq [by : Callers, keys : SUBSET Keys]
    BY <2>2, <2>3
  <2> QED BY <1>5, <2>1, <2>4 DEF UnloadCheck, Kinds, lru, engVars
<1>6. CASE UnloadEvict
  <2>1. PICK c \in cut : Evict(c.keys) /\ Forget({}, c.by, c.keys) /\ cut' = {}
    BY <1>6 DEF UnloadEvict
  <2>2. kept' \in [Leases -> SUBSET Keys]
    BY <2>1, ForgetKinds
  <2>3. UNCHANGED <<engVars, ask>>
    BY <1>6 DEF UnloadEvict
  <2> QED BY <2>1, <2>2, <2>3, EvictKinds DEF Kinds, engVars
<1>7. ASSUME NEW l \in Leases, NEW k \in Keys, Orphan(l, k) PROVE Kinds'
  <2>1. kept' \in [Leases -> SUBSET Keys]
    BY <1>7, ForgetKinds DEF Orphan
  <2> QED BY <1>7, <2>1 DEF Orphan, Kinds, lru, engVars, askVars
<1>8. CASE Sweeper
  <2>1. kept' \in [Leases -> SUBSET Keys]
    BY <1>8, ForgetKinds DEF Sweeper
  <2> QED BY <1>8, <2>1 DEF Sweeper, Kinds, lru, engVars, askVars
<1>9. CASE Tick
  <2>1. left' \in 0 .. LoadWait
    BY <1>9, SizeAssumption DEF Tick, Kinds
  <2> QED BY <1>9, <2>1 DEF Tick, Kinds, lru, askVars
<1>10. CASE UNCHANGED vars
  BY <1>10 DEF vars, Kinds, lru, engVars, askVars
<1> QED BY <1>1, <1>2, <1>3, <1>4, <1>5, <1>6, <1>7, <1>8, <1>9, <1>10

\* The order changes with an eviction and with a use, and not otherwise.
LEMMA OrderStep == ASSUME Kinds, Order, [Next]_vars PROVE Order'
<1>0. resident \subseteq Keys /\ (epc # "idle" => aim \in Keys)
  BY DEF Kinds
<1>1. ASSUME UNCHANGED lru PROVE Order'
  BY <1>1 DEF Order, lru
<1>2. ASSUME NEW l \in Leases, Call(l) \/ Poll(l) \/ Begin(l) \/ ReleaseLease(l)
      PROVE  UNCHANGED lru
  BY <1>2 DEF Call, Poll, Begin, ReleaseLease
<1>3. ASSUME NEW u \in Unloaders, UnloadAsk(u) \/ UnloadCheck(u) PROVE UNCHANGED lru
  BY <1>3 DEF UnloadAsk, UnloadCheck
<1>4. ASSUME NEW l \in Leases, NEW k \in Keys, Orphan(l, k) PROVE UNCHANGED lru
  BY <1>4 DEF Orphan
<1>5. ASSUME Sweeper \/ Tick \/ UNCHANGED vars PROVE UNCHANGED lru
  BY <1>5 DEF Sweeper, Tick, vars
<1>6. ASSUME LoadHit \/ Build \/ GetHit PROVE epc # "idle" /\ Used(aim)
  BY <1>6 DEF LoadHit, Build, GetHit
<1>7. ASSUME LoadEvict \/ Wake \/ UnloadEvict PROVE \E keys : Evict(keys)
  BY <1>7 DEF LoadEvict, Wake, UnloadEvict
<1>8. ASSUME OpOom PROVE UNCHANGED lru \/ \E keys : Evict(keys)
  BY <1>8 DEF OpOom
<1>9. ASSUME WaitLook \/ BuildFails \/ GetMiss \/ Put \/ Use \/ BuildOom PROVE UNCHANGED lru
  BY <1>9 DEF WaitLook, BuildFails, GetMiss, Put, Use, KeyOf, Pin, OpEnds, BuildOom
<1> QED BY <1>0, <1>1, <1>2, <1>3, <1>4, <1>5, <1>6, <1>7, <1>8, <1>9, EvictOrder, UsedOrder
    DEF Next, Engine, Load

\* The register is touched, stripped or grows older.
LEMMA BookKept == ASSUME BookTypeOK, Kinds, [Next]_vars PROVE BookTypeOK'
<1>0. /\ epc # "idle" => who \in Leases /\ aim \in Keys
      /\ {} \in SUBSET Keys
  BY DEF Kinds
<1>1. ASSUME Engine
      PROVE  \/ UNCHANGED bookVars
             \/ who \in Leases /\ Touch(who, {aim}) /\ {aim} \in SUBSET Keys
             \/ \E gone, keys : Strip(gone, keys)
  BY <1>0, <1>1 DEF Engine, Load, Use, LoadHit, LoadEvict, WaitLook, Wake, Build, BuildFails,
     GetHit, GetMiss, Put, KeyOf, Pin, OpEnds, BuildOom, OpOom, SweepForget, Sweep, Drop
<1>2. ASSUME NEW l \in Leases, Call(l) \/ Poll(l) \/ Begin(l) \/ ReleaseLease(l)
      PROVE  \/ UNCHANGED bookVars \/ Touch(l, {}) \/ TouchExisting(l) \/ Release(l)
  BY <1>2 DEF Call, Poll, Begin, ReleaseLease
<1>3. ASSUME NEW u \in Unloaders, UnloadAsk(u) \/ UnloadCheck(u)
      PROVE  \/ UNCHANGED bookVars \/ \E l \in Leases : Touch(l, {})
             \/ \E gone, keys : Strip(gone, keys)
  <2>1. u # NoLease => u \in Leases
    BY CallerAssumption DEF Callers
  <2> QED BY <1>3, <2>1 DEF UnloadAsk, UnloadCheck, Sweep, Drop
<1>4. ASSUME UnloadEvict \/ Sweeper \/ (\E l \in Leases, k \in Keys : Orphan(l, k))
      PROVE  \E gone, keys : Strip(gone, keys)
  BY <1>4 DEF UnloadEvict, Sweeper, Orphan, Sweep, Drop
<1>5. ASSUME Tick \/ UNCHANGED vars PROVE Elapse \/ UNCHANGED bookVars
  BY <1>5 DEF Tick, vars
<1> QED BY <1>1, <1>2, <1>3, <1>4, <1>5, BookStep DEF Next

-----------------------------------------------------------------------------
(* What an execution has loaded. *)

\* Models and leases go: those in keys and in gone.  Nobody loses what he has
\* loaded but the leases in gone, and u, who gives it up.
LEMMA LoseHeld ==
    ASSUME BookTypeOK, Kinds, Held, NEW gone, NEW keys, NEW u,
           Strip(gone, keys), Forget(gone, u, keys),
           resident \ keys \subseteq resident',
           \A l \in open \ gone : views[l] \ keys \subseteq views'[l],
           \A l \in open \ gone : l # u => kept[l] \cap keys = {},
           epc \in {"get", "put"} => UNCHANGED <<who, aim, epc>>
    PROVE  Held'
<1> SUFFICES ASSUME NEW l \in Leases, NEW k \in kept'[l]
             PROVE  /\ l \in open' /\ k \in holds'[l] /\ k \in resident'
                    /\ k \in views'[l] \/ (who' = l /\ aim' = k /\ epc' \in {"get", "put"})
  BY DEF Held
<1>1. l \notin gone /\ k \in kept[l] /\ (l = u => k \notin keys)
  BY DEF Forget
<1>2. /\ l \in open /\ k \in holds[l] /\ k \in resident
      /\ k \in views[l] \/ (who = l /\ aim = k /\ epc \in {"get", "put"})
  BY <1>1 DEF Held
<1>3. k \notin keys
  BY <1>1, <1>2
<1>4. l \in open' /\ k \in holds'[l]
  BY <1>1, <1>2, <1>3 DEF Strip
<1> QED BY <1>1, <1>2, <1>3, <1>4

\* Nothing goes; who the engine serves may have the model it works on.
LEMMA GrowHeld ==
    ASSUME Kinds, Held, open \subseteq open', resident \subseteq resident',
           \A l \in Leases : holds[l] \subseteq holds'[l] /\ views[l] \subseteq views'[l],
           \A l \in Leases : \A k \in kept'[l] :
              \/ k \in kept[l]
              \/ /\ who' = l /\ aim' = k /\ epc' \in {"get", "put"}
                 /\ l \in open' /\ k \in holds'[l] /\ k \in resident',
           epc \in {"get", "put"} =>
              \/ UNCHANGED <<who, aim>> /\ epc' \in {"get", "put"}
              \/ aim \notin resident
              \/ aim \in views'[who]
    PROVE  Held'
  BY DEF Held

\* What is neither protected nor one's own is nobody's.
LEMMA OthersHeld ==
    ASSUME Kinds, Held, NEW l \in Leases, l \notin Stale(Busy), NEW u, l # u
    PROVE  kept[l] \subseteq Others(u)
  BY DEF Held, Others, KeysOfOthers, Kinds

LEMMA PlanSpares ==
    ASSUME Kinds, Held, epc \notin {"get", "put"}, NEW k,
           NEW l \in Leases, l \notin Stale(Busy), who \in Leases
    PROVE  kept[l] \cap Plan(k, Protected(who)) = {}
<1>1. Plan(k, Protected(who)) \cap Protected(who) = {}
  BY DEF Plan
<1>2. kept[l] \subseteq Protected(who)
  <2>1. CASE l = who
    BY <2>1 DEF Held, Protected
  <2>2. CASE l # who
    BY <2>2, OthersHeld DEF Protected
  <2> QED BY <2>1, <2>2
<1> QED BY <1>1, <1>2

\* An eviction takes models with their views.
LEMMA EvictHeld ==
    ASSUME BookTypeOK, Kinds, Held, NEW gone, NEW keys, NEW u,
           Strip(gone, keys), Forget(gone, u, keys), Evict(keys),
           \A l \in Leases \ gone : l # u => kept[l] \cap keys = {},
           epc \in {"get", "put"} => UNCHANGED <<who, aim, epc>>
    PROVE  Held'
<1>1. /\ resident \ keys \subseteq resident'
      /\ \A l \in open \ gone : views[l] \ keys \subseteq views'[l]
  BY DEF Evict, BookTypeOK
<1>2. \A l \in open \ gone : l # u => kept[l] \cap keys = {}
  BY DEF BookTypeOK
<1> QED BY <1>1, <1>2, LoseHeld

LEMMA SweepHeld ==
    ASSUME BookTypeOK, Kinds, Held, NEW gone, Drop(gone), Forget(gone, NoLease, {}),
           UNCHANGED <<lru, views>>,
           epc \in {"get", "put"} => UNCHANGED <<who, aim, epc>>
    PROVE  Held'
<1>1. Strip(gone, {}) /\ resident' = resident /\ views' = views
  BY DEF Drop, lru
<1> QED BY <1>1, LoseHeld

LEMMA LoadHeld == ASSUME BookTypeOK, Kinds, Held, Load PROVE Held'
<1>a. epc # "idle" => who \in Leases /\ aim \in Keys
  BY DEF Kinds
<1>1. CASE LoadHit \/ Build
  <2>1. /\ epc \in {"load", "build"} /\ epc' = "get" /\ UNCHANGED <<who, aim, views>>
        /\ Used(aim) /\ Touch(who, {aim}) /\ kept' = [kept EXCEPT ![who] = @ \cup {aim}]
    BY <1>1 DEF LoadHit, Build, Goto
  <2>2. /\ open' = open \cup {who} /\ resident' = resident \cup {aim}
        /\ aim \in holds'[who] /\ \A l \in Leases : holds[l] \subseteq holds'[l]
    BY <1>a, <2>1 DEF Touch, Used, BookTypeOK
  <2>3. \A l \in Leases : \A k \in kept'[l] : k \in kept[l] \/ (l = who /\ k = aim)
    BY <2>1 DEF Kinds
  <2> QED BY <2>1, <2>2, <2>3, GrowHeld
<1>2. CASE LoadEvict
  <2> DEFINE victims == Plan(aim, Protected(who))
  <2>1. /\ epc = "load" /\ Evict(victims) /\ Forget(Stale(Busy), NoLease, victims)
        /\ Strip(Stale(Busy), victims)
    BY <1>2 DEF LoadEvict, SweepForget
  <2>2. \A l \in Leases \ Stale(Busy) : kept[l] \cap victims = {}
    BY <1>a, <2>1, PlanSpares
  <2> HIDE DEF victims
  <2> QED BY <2>1, <2>2, EvictHeld
<1>3. CASE WaitLook
  BY <1>3, SweepHeld DEF WaitLook, Sweep
<1>4. CASE Wake
  <2> DEFINE victims == IF Fits(aim, resident) THEN {} ELSE Plan(aim, Protected(who))
  <2>1. /\ epc = "sleep" /\ Evict(victims) /\ Forget(Stale(Busy), NoLease, victims)
        /\ Strip(Stale(Busy), victims)
    BY <1>4 DEF Wake, SweepForget
  <2>2. \A l \in Leases \ Stale(Busy) : kept[l] \cap victims = {}
    BY <1>a, <2>1, PlanSpares
  <2> HIDE DEF victims
  <2> QED BY <2>1, <2>2, EvictHeld
<1>5. CASE BuildFails
  <2>1. epc = "build" /\ UNCHANGED <<open, holds, resident, views, kept>>
    BY <1>5 DEF BuildFails, bookVars, lru
  <2> QED BY <2>1, GrowHeld
<1>6. CASE GetHit
  <2>1. /\ epc = "get" /\ epc' = "put" /\ UNCHANGED <<who, aim, views, kept>>
        /\ Used(aim) /\ Touch(who, {aim})
    BY <1>6 DEF GetHit, Goto
  <2>2. /\ open \subseteq open' /\ resident \subseteq resident'
        /\ \A l \in Leases : holds[l] \subseteq holds'[l]
    BY <2>1 DEF Touch, Used, BookTypeOK
  <2> QED BY <2>1, <2>2, GrowHeld
<1>7. CASE GetMiss
  <2>1. aim \notin resident /\ UNCHANGED <<open, holds, resident, views, kept>>
    BY <1>7 DEF GetMiss, bookVars, lru
  <2> QED BY <2>1, GrowHeld
<1>8. CASE Put
  <2>1. epc = "put" /\ UNCHANGED <<open, holds, resident, kept>>
    BY <1>8 DEF Put, bookVars, lru
  <2>2. /\ \A l \in Leases : views[l] \subseteq views'[l]
        /\ aim \in resident => aim \in views'[who]
    BY <1>8, <1>a, <2>1 DEF Put, Kinds
  <2> QED BY <2>1, <2>2, GrowHeld
<1> QED BY <1>1, <1>2, <1>3, <1>4, <1>5, <1>6, <1>7, <1>8 DEF Load

LEMMA UseHeld == ASSUME BookTypeOK, Kinds, Held, Use \/ BuildOom \/ OpOom PROVE Held'
<1>1. CASE KeyOf \/ OpEnds \/ BuildOom
  <2>1. epc \notin {"get", "put"} /\ UNCHANGED <<open, holds, resident, views, kept>>
    BY <1>1 DEF KeyOf, OpEnds, BuildOom, bookVars, lru
  <2> QED BY <2>1, GrowHeld
<1>2. CASE Pin
  <2>1. epc \notin {"get", "put"} /\ UNCHANGED <<resident, views, kept>> /\ Touch(who, {aim})
    BY <1>2 DEF Pin, lru
  <2>2. open \subseteq open' /\ \A l \in Leases : holds[l] \subseteq holds'[l]
    BY <2>1 DEF Touch, BookTypeOK
  <2> QED BY <2>1, <2>2, GrowHeld
<1>3. CASE OpOom
  <2>1. epc \notin {"get", "put"}
    BY <1>3 DEF OpOom
  <2>2. CASE Sweep(Busy) /\ Forget(Stale(Busy), NoLease, {}) /\ UNCHANGED <<lru, views>>
    BY <2>1, <2>2, SweepHeld DEF Sweep
  <2>3. ASSUME NEW m \in resident \ (pins \cup Others(who)),
               Evict({m}), Forget(Stale(Busy), who, {m}), SweepForget(Busy, {m})
        PROVE  Held'
    <3>1. \A l \in Leases \ Stale(Busy) : l # who => kept[l] \cap {m} = {}
      BY <2>3, OthersHeld
    <3> QED BY <2>1, <2>3, <3>1, EvictHeld DEF SweepForget
  <2> QED BY <1>3, <2>2, <2>3 DEF OpOom
<1> QED BY <1>1, <1>2, <1>3 DEF Use

LEMMA OtherHeld ==
    ASSUME BookTypeOK, Kinds, Held, Cuts,
           \/ \E l \in Leases : Call(l) \/ Poll(l) \/ Begin(l) \/ ReleaseLease(l)
           \/ \E u \in Unloaders : UnloadAsk(u) \/ UnloadCheck(u)
           \/ UnloadEvict
           \/ \E l \in Leases, k \in Keys : Orphan(l, k)
           \/ Sweeper \/ Tick \/ UNCHANGED vars
    PROVE  Held'
<1>1. ASSUME open \subseteq open', \A l \in Leases : holds[l] \subseteq holds'[l],
             UNCHANGED <<resident, views, kept>>,
             epc \in {"get", "put"} => UNCHANGED <<who, aim, epc>>
      PROVE  Held'
  BY <1>1, GrowHeld
<1>2. ASSUME NEW l \in Leases, Touch(l, {}) \/ TouchExisting(l) \/ UNCHANGED bookVars
      PROVE  open \subseteq open' /\ \A m \in Leases : holds[m] \subseteq holds'[m]
  BY <1>2 DEF Touch, TouchExisting, bookVars, BookTypeOK
<1>3. ASSUME NEW l \in Leases, Call(l) \/ Poll(l) \/ Begin(l) PROVE Held'
  <2>1. /\ Touch(l, {}) \/ TouchExisting(l) \/ UNCHANGED bookVars
        /\ UNCHANGED <<resident, views, kept>>
        /\ epc \in {"get", "put"} => UNCHANGED <<who, aim, epc>>
    BY <1>3 DEF Call, Poll, Begin, lru, engVars
  <2> QED BY <1>1, <1>2, <2>1
<1>4. ASSUME NEW l \in Leases, ReleaseLease(l) PROVE Held'
  BY <1>4, SweepHeld DEF ReleaseLease, Release, engVars
<1>5. ASSUME NEW u \in Unloaders, UnloadAsk(u) PROVE Held'
  <2>1. u # NoLease => u \in Leases
    BY CallerAssumption DEF Callers
  <2>2. open \subseteq open' /\ \A m \in Leases : holds[m] \subseteq holds'[m]
    <3>1. CASE u = NoLease
      BY <1>5, <3>1 DEF UnloadAsk, bookVars
    <3>2. CASE u # NoLease
      BY <1>5, <1>2, <2>1, <3>2 DEF UnloadAsk
    <3> QED BY <3>1, <3>2
  <2> QED BY <1>1, <1>5, <2>2 DEF UnloadAsk, lru, engVars
<1>6. ASSUME NEW u \in Unloaders, UnloadCheck(u) PROVE Held'
  BY <1>6, SweepHeld DEF UnloadCheck, Sweep, engVars
<1>7. CASE UnloadEvict
  <2>1. PICK c \in cut : /\ Evict(c.keys) /\ Strip({}, c.keys) /\ Forget({}, c.by, c.keys)
                         /\ UNCHANGED <<who, aim, epc>>
    BY <1>7 DEF UnloadEvict, engVars
  <2>2. \A l \in Leases \ {} : l # c.by => kept[l] \cap c.keys = {}
    BY DEF Cuts
  <2> QED BY <2>1, <2>2, EvictHeld
<1>8. ASSUME NEW l \in Leases, NEW k \in Keys, Orphan(l, k) PROVE Held'
  <2>1. /\ l \notin open \ Stale(Busy) /\ views' = [views EXCEPT ![l] = @ \ {k}]
        /\ Strip(Stale(Busy), {}) /\ Forget(Stale(Busy), NoLease, {})
        /\ resident' = resident /\ UNCHANGED <<who, aim, epc>>
    BY <1>8 DEF Orphan, Sweep, Drop, lru, engVars
  <2>2. \A m \in open \ Stale(Busy) : views[m] \ {} \subseteq views'[m]
    BY <2>1 DEF BookTypeOK, Kinds
  <2> QED BY <2>1, <2>2, LoseHeld
<1>9. CASE Sweeper
  BY <1>9, SweepHeld DEF Sweeper, Sweep, engVars
<1>10. CASE Tick
  <2>1. UNCHANGED <<open, holds, resident, views, who, aim, epc, kept>>
    BY <1>10 DEF Tick, Elapse, lru
  <2> QED BY <1>1, <2>1
<1>11. CASE UNCHANGED vars
  BY <1>1, <1>11 DEF vars, bookVars, lru, engVars
<1> QED BY <1>3, <1>4, <1>5, <1>6, <1>7, <1>8, <1>9, <1>10, <1>11

-----------------------------------------------------------------------------
(* Unloads that have chosen what is to go. *)

LEMMA ForgetLess ==
    ASSUME Kinds, NEW gone, NEW u, NEW keys, Forget(gone, u, keys)
    PROVE  \A l \in Leases : kept'[l] \subseteq kept[l]
  BY DEF Forget

\* Nobody gets a model while an unload is about to take some.
LEMMA CutsKept ==
    ASSUME Cuts, cut' \in {cut, {}}, cut # {} => \A l \in Leases : kept'[l] \subseteq kept[l],
           epc' \in {"wait", "build"} /\ cut' # {} => epc \in {"wait", "build"}
    PROVE  Cuts'
  BY DEF Cuts

LEMMA CutsStep == ASSUME BookTypeOK, Kinds, Held, Cuts, [Next]_vars PROVE Cuts'
<1>1. CASE LoadHit \/ Build
  <2>1. cut = {} /\ cut' = cut
    BY <1>1 DEF LoadHit, Build, LockFree, Goto, askVars, Cuts
  <2> QED BY <2>1, CutsKept
<1>2. CASE LoadEvict \/ Wake
  <2>1. cut = {} /\ cut' = cut
    BY <1>2 DEF LoadEvict, Wake, LockFree, Goto, askVars
  <2> QED BY <2>1, CutsKept
<1>3. CASE WaitLook
  <2>1. epc = "wait" /\ cut' = cut /\ Forget(Stale(Busy), NoLease, {})
    BY <1>3 DEF WaitLook, Goto, CallEnds, askVars
  <2> QED BY <2>1, ForgetLess, CutsKept
<1>4. CASE BuildFails \/ GetHit \/ GetMiss \/ Put \/ Use \/ BuildOom
  <2>1. epc' \notin {"wait", "build"} /\ cut' = cut /\ kept' = kept
    BY <1>4 DEF BuildFails, GetHit, GetMiss, Put, Use, KeyOf, Pin, OpEnds, BuildOom, Goto,
       CallEnds, askVars
  <2> QED BY <2>1, CutsKept
<1>5. CASE OpOom
  <2>1. epc' \notin {"wait", "build"} /\ cut = {} /\ cut' = cut
    BY <1>5 DEF OpOom, LockFree, CallEnds, askVars
  <2> QED BY <2>1, CutsKept
<1>6. ASSUME NEW u \in Unloaders, UnloadCheck(u) PROVE Cuts'
  <2>1. PICK targets \in SUBSET resident :
           cut' = {[by |-> u, keys |-> targets \ (pins \cup Others(u))]}
    BY <1>6 DEF UnloadCheck
  <2>2. epc' \notin {"wait", "build"} /\ Forget(Stale(Busy), NoLease, {})
    BY <1>6 DEF UnloadCheck, LockFree, engVars
  <2>3. ASSUME NEW l \in Leases, l # u PROVE kept'[l] \subseteq Others(u)
    <3>1. CASE l \in Stale(Busy)
      BY <2>2, <3>1 DEF Forget
    <3>2. CASE l \notin Stale(Busy)
      BY <2>2, <2>3, <3>2, OthersHeld, ForgetLess
    <3> QED BY <3>1, <3>2
  <2>4. \A c \in cut' : c.by = u /\ c.keys \cap Others(u) = {}
    BY <2>1
  <2> QED BY <2>2, <2>3, <2>4 DEF Cuts
<1>7. CASE UnloadEvict
  <2>1. cut' = {}
    BY <1>7 DEF UnloadEvict
  <2> QED BY <2>1 DEF Cuts
<1>8. ASSUME NEW l \in Leases, Call(l) \/ Poll(l) \/ Begin(l) PROVE Cuts'
  <2>1. cut' = cut /\ kept' = kept /\ (epc' \in {"wait", "build"} => epc' = epc)
    BY <1>8 DEF Call, Poll, Begin, askVars, engVars
  <2> QED BY <2>1, CutsKept
<1>9. CASE Sweeper \/ (\E l \in Leases : ReleaseLease(l))
           \/ (\E l \in Leases, k \in Keys : Orphan(l, k))
  <2>1. /\ cut' = cut /\ epc' = epc
        /\ \E gone : Forget(gone, NoLease, {})
    BY <1>9 DEF ReleaseLease, Sweeper, Orphan, askVars, engVars
  <2> QED BY <2>1, ForgetLess, CutsKept
<1>10. CASE (\E u \in Unloaders : UnloadAsk(u)) \/ Tick \/ UNCHANGED vars
  <2>1. cut' = cut /\ kept' = kept /\ epc' = epc
    BY <1>10 DEF UnloadAsk, Tick, vars, askVars, engVars
  <2> QED BY <2>1, CutsKept
<1> QED BY <1>1, <1>2, <1>3, <1>4, <1>5, <1>6, <1>7, <1>8, <1>9, <1>10 DEF Next, Engine, Load

-----------------------------------------------------------------------------
(* The theorems. *)

Inv == BookTypeOK /\ Kinds /\ Order /\ Held /\ Cuts

LEMMA InvHolds == Spec => []Inv
<1>1. Init => Inv
  <2> SUFFICES ASSUME Init PROVE Inv
    OBVIOUS
  <2>1. BookTypeOK
    BY OldAgeNat DEF Init, BookInit, BookTypeOK
  <2>2. left \in 0 .. LoadWait
    BY SizeAssumption DEF Init
  <2>3. Kinds
    BY <2>2 DEF Init, Kinds, Callers
  <2>4. Order /\ Held /\ Cuts
    BY DEF Init, Order, Held, Cuts
  <2> QED BY <2>1, <2>3, <2>4 DEF Inv
<1>2. Inv /\ [Next]_vars => Inv'
  <2> SUFFICES ASSUME Inv, [Next]_vars PROVE Inv'
    OBVIOUS
  <2> USE DEF Inv
  <2>1. Kinds'
    BY LoadKinds, UseKinds, OtherKinds DEF Next, Engine
  <2>2. Held'
    BY LoadHeld, UseHeld, OtherHeld DEF Next, Engine
  <2> QED BY <2>1, <2>2, BookKept, OrderStep, CutsStep
<1> QED BY <1>1, <1>2, PTL DEF Spec

\* The variables keep their kinds, and the resident models their order of use.
THEOREM ResidencyTypes == Spec => []TypeOK
<1>1. Inv => TypeOK
  BY DEF Inv, Kinds, Order, TypeOK
<1> QED BY <1>1, InvHolds, PTL

\* Nobody else takes what an execution has loaded, nor does a later load of its
\* own, for any models, executions, sizes and limits.
THEOREM ModelsAreKept == Spec => []ModelIsKept
<1>1. Inv => ModelIsKept
  BY DEF Inv, Held, ModelIsKept
<1> QED BY <1>1, InvHolds, PTL
==============================================================================
