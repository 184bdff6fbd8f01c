------------------------------ MODULE GateProofs ------------------------------
(***************************************************************************)
(* Proofs about Gate, for any executions, limits and requests under way.   *)
(*                                                                         *)
(* TypeOK is inductive: what is not a matter of types in it is that the    *)
(* places in the queue are a total order whose head is whoever is in the   *)
(* busy check.  Polls adds what clients do, and Alone, under the premise   *)
(* that a client has one request under way, who is at work.                *)
(***************************************************************************)
EXTENDS Gate, FiniteSetTheorems, TLAPS

\* Only clients that have polled are in the queue, and the entry of one that
\* polls on has not expired.
Polls ==
    /\ \A l \in Leases, a \in Asks : req[l][a] # "none" => phase[l] # "new"
    /\ \A l \in line : phase[l] # "new" /\ (phase[l] = "asking" => since[l] < EntryTTL)

\* A client sends the next request when the last one is answered.
OneRequest == \A a, b \in Asks : a = b

\* Whoever is at work is neither queued nor about to be, and nobody else is;
\* whoever may be admitted has a young lease.
Alone ==
    /\ \A l \in Leases, a \in Asks :
           req[l][a] \in {"bound", "check"} /\ phase[l] = "asking" => l \in open /\ age[l] = 0
    /\ \A l \in Leases, a \in Asks : req[l][a] # "none" => phase[l] # "in"
    /\ \A l \in line : phase[l] # "in"
    /\ \A l \in kept : l \in open /\ phase[l] = "in"
    /\ \A k, l \in kept : k = l

-----------------------------------------------------------------------------
(* The register. *)

LEMMA OldAgeNat == OldAge \in Nat
  BY LimitAssumption DEF OldAge

\* Whatever a caller does to the register, the register keeps its type.
LEMMA BookStep ==
    ASSUME BookTypeOK,
           \/ UNCHANGED bookVars \/ Elapse
           \/ \E l \in Leases : Touch(l, {}) \/ TouchExisting(l) \/ Release(l)
           \/ \E busy \in SUBSET Leases : Sweep(busy)
    PROVE  BookTypeOK'
<1> USE OldAgeNat DEF BookTypeOK
<1>1. CASE UNCHANGED bookVars \/ Elapse
  BY <1>1 DEF bookVars, Elapse
<1>2. CASE \E l \in Leases : Touch(l, {})
  BY <1>2 DEF Touch
<1>3. CASE \E l \in Leases : TouchExisting(l)
  BY <1>3 DEF TouchExisting
<1>4. CASE \E gone, keys : Strip(gone, keys)
  BY <1>4 DEF Strip
<1> QED BY <1>1, <1>2, <1>3, <1>4 DEF Release, Sweep, Drop

-----------------------------------------------------------------------------
(* The queue. *)

\* The part of TypeOK about the places in the queue.
Order ==
    /\ line \subseteq Leases /\ ahead \in [Leases -> SUBSET line]
    /\ \A l \in Leases : l \notin ahead[l] /\ (l \notin line => ahead[l] = {})
    /\ \A k, l \in line : k # l => (k \in ahead[l] <=> l \notin ahead[k])
    /\ \A l \in Leases : \A k \in ahead[l] : ahead[k] \subseteq ahead[l]

LEMMA KeepOrder ==
    ASSUME Order, NEW stay \in SUBSET line, Keep(stay)
    PROVE  Order'
<1>1. line' = stay /\ ahead' = [k \in Leases |-> IF k \in stay THEN ahead[k] \cap stay ELSE {}]
  BY DEF Keep
<1>2. \A k \in Leases : ahead'[k] = IF k \in stay THEN ahead[k] \cap stay ELSE {}
  BY <1>1
<1>3. line' \subseteq Leases /\ ahead' \in [Leases -> SUBSET line']
  BY <1>1 DEF Order
<1>4. \A l \in Leases : l \notin ahead'[l] /\ (l \notin line' => ahead'[l] = {})
  BY <1>1, <1>2 DEF Order
<1>5. \A k, l \in line' : k # l => (k \in ahead'[l] <=> l \notin ahead'[k])
  BY <1>1, <1>2 DEF Order
<1>6. \A l \in Leases : \A k \in ahead'[l] : ahead'[k] \subseteq ahead'[l]
  BY <1>1, <1>2, <1>3 DEF Order
<1> QED BY <1>3, <1>4, <1>5, <1>6 DEF Order

LEMMA EnterOrder ==
    ASSUME Order, NEW l \in Leases, Enter(l)
    PROVE  Order'
<1>f. Fresh \subseteq line
  BY DEF Fresh
<1>1. /\ line' = Fresh \cup {l}
      /\ ahead' = [k \in Leases |-> IF k = l THEN AheadOf(l)
                                    ELSE IF k \in Fresh THEN ahead[k] \cap Fresh ELSE {}]
  BY DEF Enter
<1>2. \A k \in Leases : k # l => ahead'[k] = IF k \in Fresh THEN ahead[k] \cap Fresh ELSE {}
  BY <1>1
<1>3. ahead'[l] = IF l \in Fresh THEN ahead[l] \cap Fresh ELSE Fresh
  BY <1>1 DEF AheadOf
<1>4. line' \subseteq Leases /\ ahead' \in [Leases -> SUBSET line']
  BY <1>1, <1>f DEF Order, AheadOf
<1>5. \A k \in Leases : k \notin ahead'[k] /\ (k \notin line' => ahead'[k] = {})
  BY <1>1, <1>2, <1>3, <1>f DEF Order
<1>6. \A k, m \in line' : k # m => (k \in ahead'[m] <=> m \notin ahead'[k])
  BY <1>1, <1>2, <1>3, <1>f DEF Order
<1>7. \A m \in Leases : \A k \in ahead'[m] : ahead'[k] \subseteq ahead'[m]
  BY <1>1, <1>2, <1>3, <1>4, <1>f DEF Order
<1> QED BY <1>4, <1>5, <1>6, <1>7 DEF Order

\* Whoever is in the busy check is alone in it, and the head of the queue.
HeadChecks ==
    \A l \in Leases, a \in Asks :
        req[l][a] = "check" =>
            /\ l \in line /\ ahead[l] = {}
            /\ \A k \in Leases, b \in Asks : req[k][b] = "check" => k = l /\ b = a

\* The part of TypeOK about requests and clients.
Kinds ==
    /\ since \in [Leases -> 0 .. EntryTTL]
    /\ req \in [Leases -> [Asks -> {"none", "sent", "bound", "check"}]]
    /\ snap \subseteq Leases /\ job \subseteq Leases /\ kept \subseteq Leases
    /\ phase \in [Leases -> {"new", "asking", "in", "gone"}]

LEMMA TypeParts == TypeOK <=> (BookTypeOK /\ Order /\ HeadChecks /\ Kinds)
BY DEF TypeOK, Order, HeadChecks, Kinds

LEMMA EnterFrame ==
    ASSUME NEW l \in Leases, Kinds, Order, Enter(l)
    PROVE  /\ since' \in [Leases -> 0 .. EntryTTL]
           /\ l \in line' /\ ahead'[l] = AheadOf(l)
BY EntryAssumption DEF Kinds, Order, Enter, Seen, Fresh

\* Each request of the queue, and each busy check, keeps the type.
LEMMA AcquireType ==
    ASSUME TypeOK, NEW l \in Leases, NEW a \in Asks,
           \/ Ask(l, a) \/ AskTouch(l, a) \/ GateQueued(l, a) \/ GateCheck(l, a)
           \/ GateBusy(l, a) \/ GateGrant(l, a) \/ GrantLost(l, a)
    PROVE  TypeOK'
<1>0. BookTypeOK /\ Order /\ HeadChecks /\ Kinds
  BY TypeParts
<1>k. /\ since \in [Leases -> 0 .. EntryTTL] /\ req \in [Leases -> [Asks -> {"none", "sent", "bound", "check"}]]
      /\ snap \subseteq Leases /\ job \subseteq Leases /\ kept \subseteq Leases
      /\ phase \in [Leases -> {"new", "asking", "in", "gone"}]
  BY <1>0 DEF Kinds
<1> DEFINE Parts == BookTypeOK' /\ Order' /\ HeadChecks' /\ Kinds'
<1> SUFFICES Parts
  BY TypeParts DEF TypeOK, Order, HeadChecks, Kinds
<1>1. CASE Ask(l, a)
  <2>1. BookTypeOK' /\ Order'
    BY <1>0, <1>1, BookStep DEF Ask, Order
  <2>2. HeadChecks' /\ Kinds'
    BY <1>0, <1>k, <1>1 DEF Ask, Step, HeadChecks, Kinds
  <2> QED BY <2>1, <2>2
<1>2. CASE AskTouch(l, a)
  <2>1. BookTypeOK'
    BY <1>0, <1>2, BookStep DEF AskTouch
  <2>2. Order' /\ HeadChecks' /\ Kinds'
    BY <1>0, <1>k, <1>2 DEF AskTouch, Step, HeadChecks, Kinds, Order
  <2> QED BY <2>1, <2>2
<1>3. CASE GateQueued(l, a)
  <2>1. BookTypeOK' /\ Order'
    BY <1>0, <1>3, BookStep, EnterOrder DEF GateQueued
  <2>2. HeadChecks' /\ Kinds'
    BY <1>0, <1>k, <1>3, EnterFrame DEF GateQueued, LockFree, Step, HeadChecks, Kinds
  <2> QED BY <2>1, <2>2
<1>4. CASE GateCheck(l, a)
  <2>1. BookTypeOK' /\ Order'
    BY <1>0, <1>4, BookStep, EnterOrder DEF GateCheck
  <2>2. HeadChecks' /\ Kinds'
    BY <1>0, <1>k, <1>4, EnterFrame DEF GateCheck, LockFree, Step, HeadChecks, Kinds
  <2> QED BY <2>1, <2>2
<1>5. CASE GateBusy(l, a)
  <2>1. BookTypeOK'
    BY <1>0, <1>k, <1>5, BookStep DEF GateBusy, SweepAll
  <2>2. Order' /\ HeadChecks' /\ Kinds'
    BY <1>0, <1>k, <1>5 DEF GateBusy, SweepAll, Step, HeadChecks, Kinds, Order
  <2> QED BY <2>1, <2>2
<1>6. CASE GateGrant(l, a) \/ GrantLost(l, a)
  <2>0. Admit(l, a)
    BY <1>6 DEF GateGrant, GrantLost
  <2>1. BookTypeOK'
    BY <1>0, <1>k, <2>0, BookStep DEF Admit
  <2>2. Order'
    BY <1>0, <2>0, KeepOrder DEF Admit
  <2>3. HeadChecks'
    \* The lock is free now.
    <3>1. \A k \in Leases, b \in Asks : req'[k][b] # "check"
      BY <1>0, <1>k, <2>0 DEF Admit, Step, HeadChecks
    <3> QED BY <3>1 DEF HeadChecks
  <2>4. Kinds'
    BY <1>k, <1>6, <2>0, EntryAssumption DEF Admit, GateGrant, GrantLost, Step, Kinds
  <2> QED BY <2>1, <2>2, <2>3, <2>4
<1> QED BY <1>1, <1>2, <1>3, <1>4, <1>5, <1>6

\* The steps of admitted executions, of clients that end, and of time.
LEMMA OtherType ==
    ASSUME TypeOK,
           \/ \E l \in Leases : \/ Call(l) \/ Submit(l) \/ Heartbeat(l) \/ JobEnds(l)
                              \/ Leave(l) \/ Vanish(l) \/ CleanUp(l)
           \/ Sweeper \/ GateView \/ Tick \/ UNCHANGED vars
    PROVE  TypeOK'
<1>0. BookTypeOK /\ Order /\ HeadChecks /\ Kinds
  BY TypeParts
<1>k. /\ since \in [Leases -> 0 .. EntryTTL] /\ req \in [Leases -> [Asks -> {"none", "sent", "bound", "check"}]]
      /\ snap \subseteq Leases /\ job \subseteq Leases /\ kept \subseteq Leases
      /\ phase \in [Leases -> {"new", "asking", "in", "gone"}]
  BY <1>0 DEF Kinds
<1> SUFFICES BookTypeOK' /\ Order' /\ HeadChecks' /\ Kinds'
  BY DEF TypeOK, Order, HeadChecks, Kinds
<1>q. ASSUME UNCHANGED gateVars PROVE Order' /\ HeadChecks'
  BY <1>0, <1>q DEF gateVars, Order, HeadChecks
<1>1. ASSUME NEW l \in Leases,
             Call(l) \/ Submit(l) \/ Heartbeat(l) \/ JobEnds(l)
      PROVE  BookTypeOK' /\ Order' /\ HeadChecks' /\ Kinds'
  <2>1. BookTypeOK'
    BY <1>0, <1>1, BookStep DEF Call, Submit, Heartbeat, JobEnds
  <2>2. Order' /\ HeadChecks'
    BY <1>1, <1>q DEF Call, Submit, Heartbeat, JobEnds
  <2>3. Kinds'
    BY <1>k, <1>1 DEF Call, Submit, Heartbeat, JobEnds, gateVars, Kinds
  <2> QED BY <2>1, <2>2, <2>3
<1>2. ASSUME NEW l \in Leases,
             Leave(l) \/ Vanish(l) \/ CleanUp(l)
      PROVE  BookTypeOK' /\ Order' /\ HeadChecks' /\ Kinds'
  <2>1. BookTypeOK'
    BY <1>0, <1>2, BookStep DEF Leave, Vanish, CleanUp
  <2>2. Order' /\ HeadChecks'
    BY <1>2, <1>q DEF Leave, Vanish, CleanUp
  <2>3. Kinds'
    BY <1>k, <1>2 DEF Leave, Vanish, CleanUp, gateVars, Kinds
  <2> QED BY <2>1, <2>2, <2>3
<1>3. CASE Sweeper
  <2>1. BookTypeOK'
    BY <1>0, <1>k, <1>3, BookStep DEF Sweeper, SweepAll
  <2>2. Order' /\ HeadChecks' /\ Kinds'
    BY <1>k, <1>3, <1>q DEF Sweeper, SweepAll, gateVars, Kinds
  <2> QED BY <2>1, <2>2
<1>4. CASE GateView
  <2>1. BookTypeOK' /\ Order'
    BY <1>0, <1>4, BookStep, KeepOrder DEF GateView, Fresh
  <2>2. HeadChecks'
    BY <1>4 DEF GateView, LockFree, HeadChecks
  <2>3. Kinds'
    BY <1>k, <1>4, EntryAssumption DEF GateView, Kinds
  <2> QED BY <2>1, <2>2, <2>3
<1>5. CASE Tick
  <2>1. BookTypeOK'
    BY <1>0, <1>5, BookStep DEF Tick
  <2>2. Order' /\ HeadChecks'
    BY <1>0, <1>5 DEF Tick, Order, HeadChecks
  <2>3. Kinds'
    BY <1>k, <1>5, EntryAssumption DEF Tick, Kinds
  <2> QED BY <2>1, <2>2, <2>3
<1>6. CASE UNCHANGED vars
  BY <1>0, <1>6, BookStep DEF vars, gateVars, Order, HeadChecks, Kinds
<1> QED BY <1>1, <1>2, <1>3, <1>4, <1>5, <1>6

\* The queue is one order, its head alone is in the busy check, and every
\* variable keeps its kind, however many requests are under way.
THEOREM GateTypeCorrect == Spec => []TypeOK
<1>1. Init => TypeOK
  BY OldAgeNat, EntryAssumption DEF Init, BookInit, TypeOK, BookTypeOK
<1>2. TypeOK /\ [Next]_vars => TypeOK'
  BY AcquireType, OtherType DEF Next
<1> QED BY <1>1, <1>2, PTL DEF Spec

-----------------------------------------------------------------------------
(* Places in the queue. *)

LEMMA PollsStep == TypeOK /\ Polls /\ [Next]_vars => Polls'
<1> SUFFICES ASSUME TypeOK, Polls, [Next]_vars PROVE Polls'
  OBVIOUS
<1>0. /\ line \subseteq Leases /\ since \in [Leases -> 0 .. EntryTTL]
      /\ req \in [Leases -> [Asks -> {"none", "sent", "bound", "check"}]]
      /\ phase \in [Leases -> {"new", "asking", "in", "gone"}]
  BY DEF TypeOK
<1> DEFINE Requests == \A l \in Leases, a \in Asks : req[l][a] # "none" => phase[l] # "new"
           Entries == \A l \in line : phase[l] # "new" /\ (phase[l] = "asking" => since[l] < EntryTTL)
<1>p. Requests /\ Entries
  BY DEF Polls
<1>1. ASSUME NEW l \in Leases, NEW a \in Asks, Ask(l, a) PROVE Polls'
  BY <1>0, <1>p, <1>1 DEF Ask, Step, Polls
<1>2. ASSUME NEW l \in Leases, NEW a \in Asks, AskTouch(l, a) \/ GateBusy(l, a) PROVE Polls'
  BY <1>0, <1>p, <1>2 DEF AskTouch, GateBusy, Step, Polls
<1>3. ASSUME NEW l \in Leases, NEW a \in Asks, GateQueued(l, a) \/ GateCheck(l, a) PROVE Polls'
  <2>1. phase[l] # "new" /\ phase' = phase /\ Enter(l)
    BY <1>p, <1>3 DEF GateQueued, GateCheck, Step
  <2>2. Requests'
    BY <1>0, <1>p, <1>3, <2>1 DEF GateQueued, GateCheck, Step
  <2>3. Entries'
    BY <1>0, <1>p, <2>1, EntryAssumption DEF Enter, Seen, Fresh
  <2> QED BY <2>2, <2>3 DEF Polls
<1>4. ASSUME NEW l \in Leases, NEW a \in Asks, GateGrant(l, a) \/ GrantLost(l, a) PROVE Polls'
  BY <1>0, <1>p, <1>4 DEF GateGrant, GrantLost, Admit, Keep, Step, Polls
<1>5. ASSUME NEW l \in Leases, Call(l) \/ Submit(l) \/ Heartbeat(l) \/ JobEnds(l) \/ CleanUp(l)
      PROVE  Polls'
  BY <1>p, <1>5 DEF Call, Submit, Heartbeat, JobEnds, CleanUp, gateVars, Polls
<1>6. ASSUME NEW l \in Leases, Leave(l) \/ Vanish(l) PROVE Polls'
  BY <1>0, <1>p, <1>6 DEF Leave, Vanish, gateVars, Polls
<1>7. CASE Sweeper \/ UNCHANGED vars
  BY <1>p, <1>7 DEF Sweeper, gateVars, vars, Polls
<1>8. CASE GateView
  BY <1>0, <1>p, <1>8 DEF GateView, Keep, Fresh, Polls
<1>9. CASE Tick
  <2>1. \A l \in line : phase[l] = "asking" => since[l] + 1 < EntryTTL
    BY <1>0, <1>9 DEF Tick, InTime
  <2>2. \A l \in line : since'[l] <= since[l] + 1
    BY <1>0, <1>9 DEF Tick
  <2>3. \A l \in line : since'[l] \in Nat /\ since[l] \in Nat
    BY <1>0, <1>9, EntryAssumption DEF Tick
  <2>4. Entries'
    BY <1>0, <1>p, <1>9, <2>1, <2>2, <2>3, EntryAssumption DEF Tick
  <2> QED BY <1>p, <1>9, <2>4 DEF Tick, Polls
<1> QED BY <1>1, <1>2, <1>3, <1>4, <1>5, <1>6, <1>7, <1>8, <1>9 DEF Next

\* First come, first served: a client that polls on stays ahead of all that
\* came after it until it is admitted, for any number of executions.
THEOREM PlacesAreKept == Spec => PlaceIsKept
<1>1. Init => TypeOK /\ Polls
  BY OldAgeNat, EntryAssumption DEF Init, BookInit, TypeOK, BookTypeOK, Polls
<1>2. (TypeOK /\ Polls) /\ [Next]_vars => (TypeOK /\ Polls)'
  BY AcquireType, OtherType, PollsStep DEF Next
<1>3. TypeOK /\ Polls /\ [Next]_vars
        => [\A k, l \in line :
              k \in ahead[l] /\ phase[k] = "asking" /\ l \in line'
                  => k \in ahead'[l] \/ (\E a \in Asks : Admit(k, a))]_vars
  <2> SUFFICES ASSUME TypeOK, Polls, Next, NEW k \in line, NEW l \in line,
                      k \in ahead[l], phase[k] = "asking", l \in line'
               PROVE  k \in ahead'[l] \/ (\E a \in Asks : Admit(k, a))
    OBVIOUS
  <2>0. line \subseteq Leases /\ k \in Fresh /\ k \in Leases /\ l \in Leases /\ k # l
    BY DEF TypeOK, Polls, Fresh
  <2>1. ASSUME NEW m \in Leases, Enter(m) PROVE k \in ahead'[l]
    <3>1. CASE l = m
      <4>1. ahead'[l] = AheadOf(l)
        BY <2>0, <2>1, <3>1 DEF Enter
      <4> QED BY <2>0, <4>1 DEF AheadOf
    <3>2. CASE l # m
      BY <2>0, <2>1, <3>2 DEF Enter
    <3> QED BY <3>1, <3>2
  <2>2. ASSUME NEW stay \in SUBSET line, Keep(stay), k \in stay PROVE k \in ahead'[l]
    BY <2>0, <2>2 DEF Keep
  <2>3. ASSUME ahead' = ahead PROVE k \in ahead'[l]
    BY <2>3
  <2>4. ASSUME NEW m \in Leases, NEW a \in Asks,
               Ask(m, a) \/ AskTouch(m, a) \/ GateBusy(m, a)
        PROVE  k \in ahead'[l]
    BY <2>3, <2>4 DEF Ask, AskTouch, GateBusy
  <2>5. ASSUME NEW m \in Leases, NEW a \in Asks, GateQueued(m, a) \/ GateCheck(m, a)
        PROVE  k \in ahead'[l]
    BY <2>1, <2>5 DEF GateQueued, GateCheck
  <2>6. ASSUME NEW m \in Leases, NEW a \in Asks, GateGrant(m, a) \/ GrantLost(m, a)
        PROVE  k \in ahead'[l] \/ (\E b \in Asks : Admit(k, b))
    <3>1. Admit(m, a)
      BY <2>6 DEF GateGrant, GrantLost
    <3>2. CASE m = k
      BY <3>1, <3>2
    <3>3. CASE m # k
      BY <2>2, <3>1, <3>3 DEF Admit
    <3> QED BY <3>2, <3>3
  <2>7. ASSUME NEW m \in Leases,
               \/ Call(m) \/ Submit(m) \/ Heartbeat(m) \/ JobEnds(m)
               \/ Leave(m) \/ Vanish(m) \/ CleanUp(m)
        PROVE  k \in ahead'[l]
    BY <2>3, <2>7 DEF Call, Submit, Heartbeat, JobEnds, Leave, Vanish, CleanUp, gateVars
  <2>8. CASE Sweeper \/ Tick
    BY <2>3, <2>8 DEF Sweeper, Tick, gateVars
  <2>9. CASE GateView
    BY <2>0, <2>2, <2>9 DEF GateView, Fresh
  <2> QED BY <2>4, <2>5, <2>6, <2>7, <2>8, <2>9 DEF Next
<1> QED BY <1>1, <1>2, <1>3, PTL DEF Spec, PlaceIsKept

-----------------------------------------------------------------------------
(* Exclusion. *)

\* A sweep takes no lease that has just been renewed.
LEMMA YoungIsNotStale ==
    ASSUME NEW l, NEW busy, age[l] = 0
    PROVE  l \notin Stale(busy)
BY LimitAssumption DEF Stale, Expired

\* A client that has one request under way has none when it is admitted; and
\* whoever is kept is neither parked nor lapsed when another one looks.
LEMMA AloneStep == OneRequest => (TypeOK /\ Polls /\ Alone /\ [Next]_vars => Alone')
<1> SUFFICES ASSUME OneRequest, TypeOK, Polls, Alone, [Next]_vars PROVE Alone'
  OBVIOUS
<1>0. /\ line \subseteq Leases /\ kept \subseteq Leases
      /\ req \in [Leases -> [Asks -> {"none", "sent", "bound", "check"}]]
      /\ phase \in [Leases -> {"new", "asking", "in", "gone"}]
      /\ open \subseteq Leases /\ age \in [Leases -> 0 .. OldAge]
  BY DEF TypeOK, BookTypeOK
<1> DEFINE Young == \A l \in Leases, a \in Asks :
                       req[l][a] \in {"bound", "check"} /\ phase[l] = "asking"
                           => l \in open /\ age[l] = 0
           Requests == \A l \in Leases, a \in Asks : req[l][a] # "none" => phase[l] # "in"
           Entries == \A l \in line : phase[l] # "in"
           AtWork == \A l \in kept : l \in open /\ phase[l] = "in"
           Single == \A k, l \in kept : k = l
<1>p. Young /\ Requests /\ Entries /\ AtWork /\ Single
  BY DEF Alone
<1> SUFFICES Young' /\ Requests' /\ Entries' /\ AtWork' /\ Single'
  BY DEF Alone
<1> HIDE DEF Young, Requests, Entries, AtWork, Single
<1>s. ASSUME Drop(Stale(job)), kept' \subseteq kept \ Stale(job), phase' = phase,
             \A l \in Leases, a \in Asks : req'[l][a] \in {"bound", "check"} => req'[l][a] = req[l][a]
      PROVE  Young' /\ AtWork' /\ Single'
  <2>1. \A l \in Leases : age[l] = 0 /\ l \in open => l \in open' /\ age'[l] = 0
    BY <1>0, <1>s, YoungIsNotStale DEF Drop, Strip
  <2>2. Young'
    BY <1>0, <1>p, <1>s, <2>1 DEF Young
  <2>3. AtWork' /\ Single'
    BY <1>0, <1>p, <1>s DEF AtWork, Single, Drop, Strip
  <2> QED BY <2>2, <2>3
<1>1. ASSUME NEW l \in Leases, NEW a \in Asks, Ask(l, a)
      PROVE  Young' /\ Requests' /\ Entries' /\ AtWork' /\ Single'
  <2>1. /\ phase' = [phase EXCEPT ![l] = "asking"] /\ phase[l] # "in"
        /\ \A k \in Leases, b \in Asks : req'[k][b] \in {"bound", "check"} => req'[k][b] = req[k][b]
        /\ UNCHANGED <<open, age, line, kept>>
    BY <1>0, <1>1 DEF Ask, Step, bookVars
  <2>2. \A b \in Asks : req[l][b] \notin {"bound", "check"}
    BY <1>0, <1>1 DEF OneRequest, Ask, Step
  <2>3. Young'
    BY <1>0, <1>p, <2>1, <2>2 DEF Young
  <2>4. Requests' /\ Entries'
    BY <1>0, <1>p, <1>1, <2>1 DEF Requests, Entries, Ask, Step
  <2>5. AtWork' /\ Single'
    BY <1>0, <1>p, <2>1 DEF AtWork, Single
  <2> QED BY <2>3, <2>4, <2>5
<1>2. ASSUME NEW l \in Leases, NEW a \in Asks, AskTouch(l, a)
      PROVE  Young' /\ Requests' /\ Entries' /\ AtWork' /\ Single'
  <2>1. Young'
    BY <1>0, <1>p, <1>2 DEF Young, AskTouch, Touch, Step
  <2>2. Requests' /\ Entries' /\ AtWork' /\ Single'
    BY <1>0, <1>p, <1>2 DEF Requests, Entries, AtWork, Single, AskTouch, Touch, Step
  <2> QED BY <2>1, <2>2
<1>3. ASSUME NEW l \in Leases, NEW a \in Asks, GateQueued(l, a) \/ GateCheck(l, a)
      PROVE  Young' /\ Requests' /\ Entries' /\ AtWork' /\ Single'
  <2>1. phase[l] # "in" /\ Enter(l) /\ UNCHANGED <<open, age, phase, kept>>
    BY <1>0, <1>p, <1>3 DEF Requests, GateQueued, GateCheck, Step, bookVars
  <2>2. Young' /\ Requests'
    BY <1>0, <1>p, <1>3, <2>1 DEF Young, Requests, GateQueued, GateCheck, Step
  <2>3. Entries'
    BY <1>0, <1>p, <2>1 DEF Entries, Enter, Fresh
  <2>4. AtWork' /\ Single'
    BY <1>p, <2>1 DEF AtWork, Single
  <2> QED BY <2>2, <2>3, <2>4
<1>4. ASSUME NEW l \in Leases, NEW a \in Asks, GateBusy(l, a)
      PROVE  Young' /\ Requests' /\ Entries' /\ AtWork' /\ Single'
  <2>1. Young' /\ AtWork' /\ Single'
    BY <1>0, <1>4, <1>s DEF GateBusy, SweepAll, Sweep, Step
  <2>2. Requests' /\ Entries'
    BY <1>0, <1>p, <1>4 DEF Requests, Entries, GateBusy, Step
  <2> QED BY <2>1, <2>2
<1>5. ASSUME NEW l \in Leases, NEW a \in Asks, Admit(l, a)
      PROVE  /\ \A k \in kept \ Stale(job) : k = l
             /\ l \in line /\ line' = line \ {l} /\ Drop(Stale(job))
             /\ \A k \in Leases, b \in Asks : req'[k][b] # "none" => req'[k][b] = req[k][b] /\ k # l
  <2>1. Others(l) = {} /\ line' = line \ {l} /\ Drop(Stale(job)) /\ req[l][a] = "check"
    BY <1>5 DEF Admit, Keep, Busy, Step, Sweep
  <2>2. \A k \in kept : k \in open /\ k \notin line
    BY <1>p DEF AtWork, Entries
  <2>3. \A k \in kept \ Stale(job) : k = l
    BY <2>1, <2>2 DEF Others, Parked
  <2>4. l \in line
    BY <2>1 DEF TypeOK
  <2>5. \A k \in Leases, b \in Asks : req'[k][b] # "none" => req'[k][b] = req[k][b] /\ k # l
    BY <1>0, <1>5 DEF Admit, Step, OneRequest
  <2> QED BY <2>1, <2>3, <2>4, <2>5
<1>6. ASSUME NEW l \in Leases, NEW a \in Asks, GrantLost(l, a)
      PROVE  Young' /\ Requests' /\ Entries' /\ AtWork' /\ Single'
  <2>1. Admit(l, a) /\ phase' = phase /\ kept' = kept \ Stale(job)
    BY <1>6 DEF GrantLost
  <2>2. Young' /\ AtWork' /\ Single'
    BY <1>0, <1>5, <1>s, <2>1
  <2>3. Requests' /\ Entries'
    BY <1>0, <1>p, <1>5, <2>1 DEF Requests, Entries
  <2> QED BY <2>2, <2>3
<1>7. ASSUME NEW l \in Leases, NEW a \in Asks, GateGrant(l, a)
      PROVE  Young' /\ Requests' /\ Entries' /\ AtWork' /\ Single'
  <2>1. /\ Admit(l, a) /\ phase[l] = "asking" /\ phase' = [phase EXCEPT ![l] = "in"]
        /\ kept' = (kept \ Stale(job)) \cup {l} /\ req[l][a] = "check"
    BY <1>7 DEF GateGrant, Admit, Step
  <2>2. l \in open /\ age[l] = 0
    BY <1>p, <2>1 DEF Young
  <2>3. kept' = {l} /\ l \in open'
    BY <1>0, <1>5, <2>1, <2>2, YoungIsNotStale DEF Drop, Strip
  <2>4. \A k \in Leases : age[k] = 0 /\ k \in open => k \in open' /\ age'[k] = 0
    BY <1>0, <1>5, <2>1, YoungIsNotStale DEF Drop, Strip
  <2>5. Young'
    BY <1>0, <1>p, <1>5, <2>1, <2>4 DEF Young
  <2>6. Requests' /\ Entries'
    BY <1>0, <1>p, <1>5, <2>1 DEF Requests, Entries
  <2>7. AtWork' /\ Single'
    BY <1>0, <2>1, <2>3 DEF AtWork, Single
  <2> QED BY <2>5, <2>6, <2>7
<1>8. ASSUME NEW l \in Leases, Call(l) \/ Submit(l) \/ Heartbeat(l) \/ JobEnds(l)
      PROVE  Young' /\ Requests' /\ Entries' /\ AtWork' /\ Single'
  <2>1. /\ UNCHANGED <<line, req, phase, kept>> /\ open \subseteq open'
        /\ \A k \in Leases : age[k] = 0 => age'[k] = 0
    BY <1>0, <1>8 DEF Call, Submit, Heartbeat, JobEnds, gateVars, bookVars, Touch, TouchExisting
  <2> QED BY <1>0, <1>p, <2>1 DEF Young, Requests, Entries, AtWork, Single
<1>9. ASSUME NEW l \in Leases, Leave(l) \/ Vanish(l)
      PROVE  Young' /\ Requests' /\ Entries' /\ AtWork' /\ Single'
  <2>1. /\ UNCHANGED <<line, req>> /\ phase' = [phase EXCEPT ![l] = "gone"]
        /\ kept' = kept \ {l} /\ open \ {l} \subseteq open'
        /\ \A k \in Leases \ {l} : age'[k] = age[k]
    BY <1>0, <1>9 DEF Leave, Vanish, gateVars, bookVars, Release, Drop, Strip
  <2> QED BY <1>0, <1>p, <2>1 DEF Young, Requests, Entries, AtWork, Single
<1>10. ASSUME NEW l \in Leases, CleanUp(l)
       PROVE  Young' /\ Requests' /\ Entries' /\ AtWork' /\ Single'
  <2>1. /\ UNCHANGED <<line, req, phase, kept>> /\ phase[l] = "gone" /\ open \ {l} \subseteq open'
        /\ \A k \in Leases \ {l} : age'[k] = age[k]
    BY <1>0, <1>10 DEF CleanUp, gateVars, Release, Drop, Strip
  <2> QED BY <1>0, <1>p, <2>1 DEF Young, Requests, Entries, AtWork, Single
<1>11. CASE Sweeper
  <2>1. Young' /\ AtWork' /\ Single'
    BY <1>11, <1>s DEF Sweeper, SweepAll, Sweep, gateVars
  <2> QED BY <1>p, <1>11, <2>1 DEF Requests, Entries, Sweeper, gateVars
<1>12. CASE GateView
  BY <1>p, <1>12 DEF GateView, Keep, Fresh, bookVars, Young, Requests, Entries, AtWork, Single
<1>13. CASE Tick
  <2>1. /\ UNCHANGED <<line, req, phase, kept, open>>
        /\ \A l \in Leases, a \in Asks : req[l][a] \notin {"bound", "check"}
    BY <1>13 DEF Tick, InTime, Elapse
  <2> QED BY <1>p, <2>1 DEF Young, Requests, Entries, AtWork, Single
<1>14. CASE UNCHANGED vars
  BY <1>p, <1>14 DEF vars, gateVars, bookVars, Young, Requests, Entries, AtWork, Single
<1> QED BY <1>1, <1>2, <1>3, <1>4, <1>6, <1>7, <1>8, <1>9, <1>10, <1>11, <1>12, <1>13, <1>14 DEF Next

\* Two pipelines never load models side by side, for any number of executions
\* and any limits, as long as no request of a client overtakes another one:
\* with two under way it is false (a poll that was given up on is served after
\* the grant, and its sender counts as parked).
THEOREM GateExcludes == OneRequest => (Spec => []GateIsExclusive)
<1> SUFFICES ASSUME OneRequest PROVE Spec => []GateIsExclusive
  OBVIOUS
<1>1. Init => TypeOK /\ Polls /\ Alone
  BY OldAgeNat, EntryAssumption DEF Init, BookInit, TypeOK, BookTypeOK, Polls, Alone
<1>2. (TypeOK /\ Polls /\ Alone) /\ [Next]_vars => (TypeOK /\ Polls /\ Alone)'
  BY AcquireType, OtherType, PollsStep, AloneStep DEF Next
<1>3. Alone => GateIsExclusive
  <2> SUFFICES ASSUME Alone PROVE Cardinality(kept) <= 1
    BY DEF GateIsExclusive
  <2>1. CASE kept = {}
    BY <2>1, FS_EmptySet
  <2>2. CASE kept # {}
    <3>1. PICK l \in kept : TRUE
      BY <2>2
    <3>2. kept = {l}
      BY <3>1 DEF Alone
    <3> QED BY <3>2, FS_Singleton
  <2> QED BY <2>1, <2>2
<1> QED BY <1>1, <1>2, <1>3, PTL DEF Spec
===============================================================================
