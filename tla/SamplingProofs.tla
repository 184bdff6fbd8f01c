---------------------------- MODULE SamplingProofs ----------------------------
(***************************************************************************)
(* Proofs about Sampling, for any adapters, ControlNets, sizes, cards and  *)
(* chains, and at the end about SampleInputs, for any inputs.              *)
(*                                                                         *)
(* The memory of a card is counted in units, so that sums are cardinalities *)
(* and what is known of those carries over to them.                        *)
(***************************************************************************)
EXTENDS Sampling, SequenceTheorems, FiniteSetTheorems, TLAPS

(* Sums. *)

Units(J, size) == UNION {{j} \X (1 .. size[j]) : j \in J}

LEMMA UnitsFinite ==
    ASSUME NEW J, IsFiniteSet(J), NEW size, \A j \in J : size[j] \in Nat
    PROVE  IsFiniteSet(Units(J, size)) /\ Total(J, size) \in Nat
  <1> DEFINE of == [j \in J |-> {j} \X (1 .. size[j])]
             U == {{j} \X (1 .. size[j]) : j \in J}
  <1>1. of \in Surjection(J, U)
    BY DEF Surjection
  <1>2. IsFiniteSet(U)
    BY <1>1, FS_Surjection
  <1>3. ASSUME NEW j \in J PROVE IsFiniteSet({j} \X (1 .. size[j]))
    <2>1. IsFiniteSet({j})
      BY FS_Singleton, Zenon
    <2>2. 1 \in Int /\ size[j] \in Int
      OBVIOUS
    <2>3. IsFiniteSet(1 .. size[j])
      BY <2>2, FS_Interval, Zenon
    <2> QED
      BY <2>1, <2>3, FS_Product, Zenon
  <1>4. \A T \in U : IsFiniteSet(T)
    BY <1>3
  <1>5. IsFiniteSet(UNION U)
    BY <1>2, <1>4, FS_UNION
  <1> QED
    BY <1>5, FS_CardinalityType DEF Units, Total

\* The sum over one element.
LEMMA TotalOne ==
    ASSUME NEW j, NEW size, size[j] \in Nat
    PROVE  Total({j}, size) = size[j]
  <1>1. Units({j}, size) = {j} \X (1 .. size[j])
    BY DEF Units
  <1>2. Cardinality({j}) = 1 /\ IsFiniteSet({j})
    BY FS_Singleton
  <1>3. Cardinality(1 .. size[j]) = size[j] /\ IsFiniteSet(1 .. size[j])
    BY FS_Interval
  <1>4. Cardinality({j} \X (1 .. size[j])) = 1 * size[j]
    <2>1. Cardinality({j} \X (1 .. size[j])) = Cardinality({j}) * Cardinality(1 .. size[j])
      BY <1>2, <1>3, FS_Product, Zenon
    <2> QED
      BY <2>1, <1>2, <1>3
  <1> QED
    BY <1>1, <1>4 DEF Total, Units

\* Sums over disjoint sets add up.
LEMMA TotalUnion ==
    ASSUME NEW J, NEW K, IsFiniteSet(J), IsFiniteSet(K), J \cap K = {},
           NEW size, \A j \in J \cup K : size[j] \in Nat
    PROVE  Total(J \cup K, size) = Total(J, size) + Total(K, size)
  <1>1. Units(J \cup K, size) = Units(J, size) \cup Units(K, size)
    BY DEF Units
  <1>2. Units(J, size) \cap Units(K, size) = {}
    BY DEF Units
  <1>3. IsFiniteSet(Units(J, size)) /\ IsFiniteSet(Units(K, size))
    BY UnitsFinite
  <1>4. /\ Cardinality(Units(J, size)) \in Nat /\ Cardinality(Units(K, size)) \in Nat
        /\ Cardinality({}) = 0
    BY <1>3, FS_CardinalityType, FS_EmptySet
  <1>5. Cardinality(Units(J, size) \cup Units(K, size)) =
        Cardinality(Units(J, size)) + Cardinality(Units(K, size))
          - Cardinality(Units(J, size) \cap Units(K, size))
    BY <1>3, FS_Union, Zenon
  <1>6. Cardinality(Units(J \cup K, size)) =
        Cardinality(Units(J, size)) + Cardinality(Units(K, size)) - Cardinality({})
    BY <1>1, <1>2, <1>5, Zenon
  <1>7. Cardinality(Units(J \cup K, size)) =
        Cardinality(Units(J, size)) + Cardinality(Units(K, size))
    BY <1>4, <1>6
  <1> QED
    BY <1>7, Zenon DEF Total, Units

\* A sum over a smaller set is not larger.
LEMMA TotalSubset ==
    ASSUME NEW J, NEW K, IsFiniteSet(J), K \subseteq J,
           NEW size, \A j \in J : size[j] \in Nat
    PROVE  Total(K, size) <= Total(J, size)
  <1>1. Units(K, size) \subseteq Units(J, size)
    BY DEF Units
  <1>2. IsFiniteSet(Units(J, size))
    BY UnitsFinite
  <1> QED
    BY <1>1, <1>2, FS_Subset DEF Total, Units

\* Each element of K is counted at least once over J.
LEMMA TotalImage ==
    ASSUME NEW J, NEW K, IsFiniteSet(J), NEW of, NEW size, NEW each,
           \A j \in J : size[j] \in Nat /\ of[j] \in K /\ size[j] = each[of[j]],
           \A m \in K : \E j \in J : of[j] = m
    PROVE  Total(K, each) <= Total(J, size)
  <1> DEFINE f == [u \in Units(J, size) |-> <<of[u[1]], u[2]>>]
  <1>1. ASSUME NEW u \in Units(J, size)
        PROVE  <<of[u[1]], u[2]>> \in Units(K, each)
    BY DEF Units
  <1>2. ASSUME NEW v \in Units(K, each)
        PROVE  \E u \in Units(J, size) : <<of[u[1]], u[2]>> = v
    <2>1. PICK m \in K : \E n \in 1 .. each[m] : v = <<m, n>>
      BY DEF Units
    <2> PICK n \in 1 .. each[m] : v = <<m, n>>
      BY <2>1
    <2>2. PICK j \in J : of[j] = m
      OBVIOUS
    <2>3. <<j, n>> \in Units(J, size)
      BY <2>2 DEF Units
    <2> QED
      BY <2>2, <2>3
  <1>3. f \in Surjection(Units(J, size), Units(K, each))
    BY <1>1, <1>2 DEF Surjection
  <1>4. IsFiniteSet(Units(J, size))
    BY UnitsFinite
  <1>5. Cardinality(Units(K, each)) <= Cardinality(Units(J, size))
    BY <1>3, <1>4, FS_Surjection
  <1> QED
    BY <1>5 DEF Total, Units

-----------------------------------------------------------------------------
(* Types, and where a call is. *)

Busy == {"prepare", "ready", "loop", "net", "finally"}

\* Between calls nothing of a call is left; in its loop a call has placed all
\* its nets; a video has none; and while it runs, its own patches are enabled.
Shape ==
    /\ pc = "idle" => call = NoCall /\ place = <<>>
    /\ pc \in {"idle", "prepare", "ready"} => k = 0
    /\ pc \in {"ready", "loop", "net", "finally"} => Placed = Len(call.chain)
    /\ pc \in {"loop", "net"} => k >= 1
    /\ pc = "net" => k <= Len(call.chain)
    /\ call.kind # "sample" => call.chain = <<>>
    /\ pc \in Busy => enabled = call.patches

LEMMA Chain ==
    ASSUME TypeOK
    PROVE  /\ call.chain \in Seq([net : Nets, lo : 0 .. Steps, hi : 0 .. Steps])
           /\ Len(call.chain) \in Nat /\ DOMAIN call.chain = 1 .. Len(call.chain)
           /\ \A j \in 1 .. Len(call.chain) : call.chain[j].net \in Nets
           /\ Placed \in Nat /\ DOMAIN place = 1 .. Placed
           /\ \A j \in 1 .. Placed : place[j] \in BOOLEAN
  <1>1. call.chain \in Chains \cup {<<>>}
    BY DEF TypeOK
  <1>2. call.chain \in Seq([net : Nets, lo : 0 .. Steps, hi : 0 .. Steps])
    BY <1>1, ChainAssumption, EmptySeq, Zenon
  <1>3. \A j \in 1 .. Len(call.chain) :
            call.chain[j] \in [net : Nets, lo : 0 .. Steps, hi : 0 .. Steps]
    BY <1>2, ElementOfSeq, Zenon
  <1>4. place \in Seq(BOOLEAN)
    BY DEF TypeOK
  <1> QED
    BY <1>2, <1>3, <1>4 DEF Placed

LEMMA RunsTyped ==
    ASSUME TypeOK, NEW part \in Parts, Runs(part)
    PROVE  onCard' \subseteq Parts \cup Nets /\ onCard \cap Nets \subseteq onCard'
  BY NetAssumption DEF TypeOK, Runs

LEMMA ParkTyped ==
    ASSUME TypeOK, Park
    PROVE  onCard' \subseteq Parts \cup Nets /\ onCard \cap Nets \subseteq onCard'
  BY NetAssumption DEF TypeOK, Park, Parts

LEMMA InitTyped == Init => TypeOK /\ Shape
  <1> SUFFICES ASSUME Init PROVE TypeOK /\ Shape
    OBVIOUS
  <1>1. place \in Seq(BOOLEAN) /\ Placed = 0 /\ Len(call.chain) = 0
    BY DEF Init, Placed, NoCall
  <1>2. onCard \subseteq Parts \cup Nets
    BY DEF Init
  <1>3. i \in 0 .. Steps /\ k \in 0 .. Len(call.chain) + 1
    BY <1>1, ChainAssumption DEF Init
  <1>4. TypeOK
    BY <1>1, <1>2, <1>3 DEF TypeOK, Init, OwnUnet, NoCall
  <1>5. Shape
    BY DEF Init, Shape, NoCall, Busy
  <1> QED
    BY <1>4, <1>5

LEMMA BeginTyped ==
    ASSUME TypeOK, Shape,
           NEW kind \in {"sample", "video"}, NEW patches \in SUBSET Adapters,
           NEW ipa \in Ipas \cup {"none"}, NEW chain \in Chains \cup {<<>>},
           kind # "sample" => chain = <<>>,
           Begin([kind |-> kind, patches |-> patches, ipa |-> ipa, chain |-> chain]),
           onCard' \subseteq Parts \cup Nets, onCard \cap Nets \subseteq onCard'
    PROVE  TypeOK' /\ Shape'
  <1>1. /\ call' = [kind |-> kind, patches |-> patches, ipa |-> ipa, chain |-> chain]
        /\ pc = "idle" /\ pc' = "prepare" /\ patches \subseteq loaded /\ enabled' = patches
        /\ place' = <<>> /\ found' = unet
        /\ hooked' = hooked /\ card' = card /\ loaded' = loaded /\ unet' = unet
        /\ i' = i /\ k' = k /\ split' = split /\ torn' = split
    BY DEF Begin, fixed, Enabled
  <1>2. /\ call'.kind = kind /\ call'.patches = patches /\ call'.ipa = ipa
        /\ call'.chain = chain
    BY <1>1
  <1>3. place' \in Seq(BOOLEAN) /\ Placed' = 0
    BY <1>1 DEF Placed
  <1>4. Len(call'.chain) \in Nat
    BY <1>2, ChainAssumption
  <1>5. k' = 0
    BY <1>1 DEF Shape
  <1>6. call' \in [kind : {"none", "sample", "video"}, patches : SUBSET loaded',
                   ipa : {"none"} \cup Ipas, chain : Chains \cup {<<>>}]
    BY <1>1
  <1>7. TypeOK'
    BY <1>1, <1>3, <1>4, <1>5, <1>6 DEF TypeOK
  <1>8. Shape'
    BY <1>1, <1>2, <1>5 DEF Shape, Busy
  <1> QED
    BY <1>7, <1>8

\* How an element is placed is a Boolean; a net that is not placed to stay is
\* sent home.
LEMMA PlanEffect ==
    ASSUME TypeOK, Shape, Plan
    PROVE  /\ pc = "prepare" /\ Placed < Len(call.chain)
           /\ place' \in Seq(BOOLEAN) /\ Placed' = Placed + 1
           /\ \A j \in 1 .. Placed : place'[j] = place[j]
           /\ UNCHANGED <<hooked, card, loaded, enabled, unet, pc, call, i, k, found, torn>>
           /\ Planned \in Nets
           /\ \E free \in Available :
                 /\ place'[Placed + 1] = ~(Stays(free) \/ Comes(free))
                 /\ Stays(free) \/ Comes(free) => onCard' = onCard \cup {Planned}
                 /\ ~(Stays(free) \/ Comes(free)) =>
                        onCard' = onCard \ {Planned} /\ split' = split \ {Planned}
           /\ split' \subseteq split
  <1> PICK free \in Available :
            LET here == Stays(free) \/ Comes(free)
            IN  /\ place' = Append(place, ~here)
                /\ onCard' = IF here THEN onCard \cup {Planned} ELSE onCard \ {Planned}
                /\ split' = IF Stays(free) THEN split ELSE split \ {Planned}
    BY DEF Plan
  <1> DEFINE b == ~(Stays(free) \/ Comes(free))
  <1>1. b \in BOOLEAN
    OBVIOUS
  <1>2. place' = Append(place, b) /\ place \in Seq(BOOLEAN)
    BY DEF TypeOK
  <1>3. /\ Stays(free) \/ Comes(free) => onCard' = onCard \cup {Planned}
        /\ ~(Stays(free) \/ Comes(free)) =>
               onCard' = onCard \ {Planned} /\ split' = split \ {Planned}
        /\ split' \subseteq split
    OBVIOUS
  <1>4. pc = "prepare" /\ Placed < Len(call.chain)
    BY DEF Plan
  <1>5. Planned \in Nets
    BY <1>4, Chain DEF Planned
  <1>6. UNCHANGED <<hooked, card, loaded, enabled, unet, pc, call, i, k, found, torn>>
    BY DEF Plan, fixed
  <1> HIDE DEF b
  <1>7. /\ place' \in Seq(BOOLEAN) /\ Placed' = Placed + 1
        /\ \A j \in 1 .. Placed : place'[j] = place[j]
        /\ place'[Placed + 1] = b
    BY <1>1, <1>2 DEF Placed
  <1>8. place'[Placed + 1] = ~(Stays(free) \/ Comes(free))
    BY <1>7 DEF b
  <1> QED
    BY <1>3, <1>4, <1>5, <1>6, <1>7, <1>8

LEMMA PlanTyped ==
    ASSUME TypeOK, Shape, Plan
    PROVE  TypeOK' /\ Shape'
  <1>1. onCard' \subseteq Parts \cup Nets /\ split' \subseteq onCard' \cap Nets
    BY PlanEffect DEF TypeOK
  <1>2. Placed \in Nat /\ Len(call.chain) \in Nat
    BY Chain
  <1> QED
    BY <1>1, <1>2, PlanEffect DEF TypeOK, Shape, Busy

LEMMA LoadTyped ==
    ASSUME TypeOK, Shape,
           \/ \E a \in Adapters : LoadLora(a)
           \/ \E n \in Nets : LoadNet(n)
           \/ Encode
    PROVE  TypeOK' /\ Shape'
  <1>1. CASE \E a \in Adapters : LoadLora(a)
    BY <1>1 DEF LoadLora, TypeOK, Shape, Placed, fixed, Busy
  <1>2. CASE \E n \in Nets : LoadNet(n)
    BY <1>2 DEF LoadNet, TypeOK, Shape, Placed, fixed, Busy
  <1>3. CASE Encode
    <2>1. onCard' \subseteq Parts \cup Nets /\ onCard \cap Nets \subseteq onCard'
      BY <1>3, RunsTyped DEF Encode, Parts
    <2> QED
      BY <1>3, <2>1 DEF Encode, TypeOK, Shape, Placed, fixed, Busy
  <1> QED
    BY <1>1, <1>2, <1>3

LEMMA PrepareTyped ==
    ASSUME TypeOK, Shape, Install \/ PrepareRaises \/ PlanRaises \/ Enter
    PROVE  TypeOK' /\ Shape'
  <1>1. CASE Install
    BY <1>1 DEF Install, TypeOK, Shape, Placed, fixed, Busy
  <1>2. CASE PrepareRaises \/ PlanRaises
    <2>1. /\ call' = NoCall /\ place' = <<>> /\ pc' = "idle" /\ k' = k /\ i' = i
          /\ UNCHANGED <<hooked, card, loaded, enabled, unet, found, torn>>
          /\ k = 0
      BY <1>2 DEF PrepareRaises, PlanRaises, fixed, pipe, Shape
    <2>4. onCard' \subseteq Parts \cup Nets /\ split' \subseteq onCard' \cap Nets
      <3>1. CASE PrepareRaises
        BY <3>1 DEF PrepareRaises, pipe, TypeOK
      <3>2. CASE PlanRaises
        <4>1. Planned \in Nets
          <5>1. Placed < Len(call.chain)
            BY <3>2 DEF PlanRaises
          <5> QED
            BY <5>1, Chain DEF Planned
        <4> QED
          BY <3>2, <4>1 DEF PlanRaises, BreaksOff, TypeOK
      <3> QED
        BY <1>2, <3>1, <3>2
    <2>2. /\ place' \in Seq(BOOLEAN) /\ Placed' = 0 /\ Len(call'.chain) = 0
          /\ call'.chain = <<>>
      BY <2>1 DEF Placed, NoCall
    <2>3. call' \in [kind : {"none", "sample", "video"}, patches : SUBSET loaded',
                     ipa : {"none"} \cup Ipas, chain : Chains \cup {<<>>}]
      BY <2>1 DEF NoCall
    <2> QED
      BY <2>1, <2>2, <2>3, <2>4 DEF TypeOK, Shape, Busy
  <1>3. CASE Enter
    BY <1>3, Chain, ChainAssumption DEF Enter, TypeOK, Shape, Placed, fixed, pipe, Busy
  <1> QED
    BY <1>1, <1>2, <1>3

LEMMA NetTyped ==
    ASSUME TypeOK, Shape, NetSkipped \/ NetGoes \/ NetMoveRaises \/ NetReturns \/ NetRaises
    PROVE  TypeOK' /\ Shape'
  <1>1. /\ Len(call.chain) \in Nat /\ k \in 1 .. Len(call.chain)
        /\ call.chain[k].net \in Nets
    <2>1. Len(call.chain) \in Nat /\ \A j \in 1 .. Len(call.chain) : call.chain[j].net \in Nets
      BY Chain
    <2>2. pc = "net" \/ (pc = "loop" /\ k <= Len(call.chain))
      BY DEF NetSkipped, NetGoes, NetMoveRaises, NetReturns, NetRaises, InLoop, InChain
    <2>3. k \in 0 .. Len(call.chain) + 1
      BY DEF TypeOK
    <2>4. k >= 1 /\ k <= Len(call.chain)
      BY <2>2 DEF Shape
    <2> QED
      BY <2>1, <2>3, <2>4
  <1>2. CASE NetSkipped
    BY <1>1, <1>2 DEF NetSkipped, TypeOK, Shape, Placed, fixed, pipe, Busy, InLoop, InChain
  <1>3. CASE NetGoes
    BY <1>1, <1>3 DEF NetGoes, TypeOK, Shape, Placed, fixed, Busy, InLoop, InChain
  <1>4. CASE NetReturns
    BY <1>1, <1>4 DEF NetReturns, NetHome, TypeOK, Shape, Placed, fixed, Busy
  <1>5. CASE NetRaises
    BY <1>1, <1>5 DEF NetRaises, NetHome, TypeOK, Shape, Placed, fixed, Busy
  <1>6. CASE NetMoveRaises
    BY <1>1, <1>6
       DEF NetMoveRaises, BreaksOff, TypeOK, Shape, Placed, fixed, Busy, InLoop, InChain
  <1> QED
    BY <1>2, <1>3, <1>4, <1>5, <1>6

LEMMA StepTyped ==
    ASSUME TypeOK, Shape, UnetStep \/ VideoStep \/ LoopEnds
    PROVE  TypeOK' /\ Shape'
  <1>1. /\ onCard' \subseteq Parts \cup Nets /\ onCard \cap Nets \subseteq onCard'
        /\ split' = split /\ torn' = torn
    BY RunsTyped DEF UnetStep, VideoStep, LoopEnds, pipe, Parts, TypeOK
  <1>2. Steps \in Nat /\ Len(call.chain) \in Nat
    BY Chain, ChainAssumption
  <1>3. CASE UnetStep
    BY <1>1, <1>2, <1>3 DEF UnetStep, TypeOK, Shape, Placed, fixed, Busy, InLoop
  <1>4. CASE VideoStep
    BY <1>1, <1>2, <1>4 DEF VideoStep, TypeOK, Shape, Placed, fixed, Busy, InLoop
  <1>5. CASE LoopEnds
    BY <1>1, <1>2, <1>5 DEF LoopEnds, TypeOK, Shape, Placed, fixed, pipe, Busy
  <1> QED
    BY <1>3, <1>4, <1>5

LEMMA RestoredTyped ==
    ASSUME TypeOK
    PROVE  Restored \in [procs : {"own"} \cup Ipas, proj : {"own"} \cup Ipas]
  BY DEF Restored, SetProcessors, TypeOK

LEMMA FinallyTyped ==
    ASSUME TypeOK, Shape, Finally
    PROVE  TypeOK' /\ Shape'
  <1>1. /\ call' = NoCall /\ place' = <<>> /\ pc' = "idle" /\ k' = 0 /\ i' = 0
        /\ UNCHANGED <<hooked, card, onCard, split, loaded, found, torn>>
        /\ unet' \in {unet, Restored} /\ enabled' \in {enabled, {}}
    BY DEF Finally, fixed
  <1>2. /\ place' \in Seq(BOOLEAN) /\ Placed' = 0 /\ Len(call'.chain) = 0
        /\ call'.chain = <<>>
    BY <1>1 DEF Placed, NoCall
  <1>3. call' \in [kind : {"none", "sample", "video"}, patches : SUBSET loaded',
                   ipa : {"none"} \cup Ipas, chain : Chains \cup {<<>>}]
    BY <1>1 DEF NoCall
  <1>4. unet' \in [procs : {"own"} \cup Ipas, proj : {"own"} \cup Ipas]
    BY <1>1, RestoredTyped DEF TypeOK
  <1>5. i' \in 0 .. Steps
    BY <1>1, ChainAssumption
  <1> QED
    BY <1>1, <1>2, <1>3, <1>4, <1>5 DEF TypeOK, Shape, Busy

LEMMA Typed == Spec => [](TypeOK /\ Shape)
  <1>1. ASSUME TypeOK, Shape, [Next]_vars PROVE TypeOK' /\ Shape'
    <2>1. CASE UNCHANGED vars
      BY <1>1, <2>1 DEF vars, TypeOK, Shape, Placed, Busy
    <2>2. ASSUME NEW patches \in SUBSET Adapters, NEW ipa \in Ipas \cup {"none"},
                 NEW chain \in Chains, SampleBegins(patches, ipa, chain)
          PROVE  TypeOK' /\ Shape'
      BY <1>1, <2>2, ParkTyped, BeginTyped DEF SampleBegins
    <2>3. ASSUME NEW patches \in SUBSET Adapters, VideoBegins(patches)
          PROVE  TypeOK' /\ Shape'
      <3>1. onCard' \subseteq Parts \cup Nets /\ onCard \cap Nets \subseteq onCard'
        BY <1>1, <2>3 DEF VideoBegins, TypeOK
      <3> QED
        BY <1>1, <2>3, <3>1, BeginTyped DEF VideoBegins
    <2> QED
      BY <1>1, <2>1, <2>2, <2>3, LoadTyped, PlanTyped, PrepareTyped, NetTyped, StepTyped,
         FinallyTyped DEF Next
  <1> QED
    BY <1>1, InitTyped, PTL DEF Spec

\* Every variable holds a value of its kind, and only adapters that the pipe has
\* loaded take part in a forward.
THEOREM TypesHold == Spec => []TypeOK
  BY Typed, PTL

\* Whatever calls before it have left enabled when they raised, a call computes
\* with its own patches.
THEOREM OwnPatches == Spec => []StepUsesOwnPatches
  <1>1. TypeOK /\ Shape => StepUsesOwnPatches
    BY DEF Shape, StepUsesOwnPatches, Busy
  <1> QED
    BY <1>1, Typed, PTL

-----------------------------------------------------------------------------
(* Memory, of any set of parts and nets and of any chain of nets. *)

Listed(chain) ==
    /\ Len(chain) \in Nat /\ DOMAIN chain = 1 .. Len(chain)
    /\ \A j \in 1 .. Len(chain) : chain[j].net \in Nets

Asked(chain) == {chain[j].net : j \in DOMAIN chain}
SizeOf(chain) == [j \in DOMAIN chain |-> Size[chain[j].net]]

\* What is left beside on, and what element P is compared with then.
Left(on) == IF card - MB(on) < 0 THEN 0 ELSE card - MB(on)
Off(chain, P, on) == {j \in DOMAIN chain : j # P /\ chain[j].net \notin on}
Waiting(chain, P, on) == MB({"unet"} \ on) + Total(Off(chain, P, on), SizeOf(chain))
Need(chain, P, on) ==
    115 * Size[chain[P].net] + 100 * RESERVE + 115 * Waiting(chain, P, on)

\* Element P is placed to stay.
May(chain, P, on) ==
    \/ chain[P].net \in on /\ 100 * (Left(on) + Size[chain[P].net]) >= Need(chain, P, on)
    \/ 100 * Left(on) >= Need(chain, P, on)

LEMMA MBFinite ==
    ASSUME NEW S, S \subseteq Parts \cup Nets
    PROVE  IsFiniteSet(S) /\ MB(S) \in Nat /\ \A m \in S : Size[m] \in Nat
  <1>1. IsFiniteSet({"unet"} \cup {"text_encoder"} \cup {"vae"} \cup Nets)
    BY FS_Singleton, FS_Union, NetAssumption, Zenon
  <1>2. Parts \cup Nets = {"unet"} \cup {"text_encoder"} \cup {"vae"} \cup Nets
    BY DEF Parts
  <1>3. IsFiniteSet(S)
    BY <1>1, <1>2, FS_Subset
  <1>4. \A m \in S : Size[m] \in Nat
    BY SizeAssumption
  <1> QED
    BY <1>3, <1>4, UnitsFinite DEF MB

LEMMA MBSubset ==
    ASSUME NEW T, T \subseteq Parts \cup Nets, NEW S, S \subseteq T
    PROVE  MB(S) <= MB(T)
  BY MBFinite, TotalSubset DEF MB

LEMMA MBUnion ==
    ASSUME NEW S, S \subseteq Parts \cup Nets, NEW T, T \subseteq Parts \cup Nets,
           S \cap T = {}
    PROVE  MB(S \cup T) = MB(S) + MB(T)
  <1>1. IsFiniteSet(S) /\ IsFiniteSet(T) /\ \A m \in S \cup T : Size[m] \in Nat
    BY MBFinite
  <1> QED
    BY <1>1, TotalUnion DEF MB

LEMMA MBAdd ==
    ASSUME NEW S, S \subseteq Parts \cup Nets, NEW n \in Parts \cup Nets, n \notin S
    PROVE  MB(S \cup {n}) = MB(S) + Size[n]
  <1>1. MB(S \cup {n}) = MB(S) + MB({n})
    BY MBUnion
  <1>2. MB({n}) = Size[n]
    BY TotalOne, SizeAssumption DEF MB
  <1> QED
    BY <1>1, <1>2

LEMMA OffFinite ==
    ASSUME NEW chain, Listed(chain), NEW P, NEW on
    PROVE  /\ IsFiniteSet(Off(chain, P, on))
           /\ \A j \in DOMAIN chain : SizeOf(chain)[j] = Size[chain[j].net]
           /\ \A j \in DOMAIN chain : SizeOf(chain)[j] \in Nat
  <1>1. IsFiniteSet(1 .. Len(chain))
    BY FS_Interval DEF Listed
  <1>2. Off(chain, P, on) \subseteq 1 .. Len(chain)
    BY DEF Off, Listed
  <1> QED
    BY <1>1, <1>2, FS_Subset, SizeAssumption DEF SizeOf, Listed

LEMMA WaitingTyped ==
    ASSUME NEW chain, Listed(chain), NEW P \in DOMAIN chain, NEW on
    PROVE  /\ Waiting(chain, P, on) \in Nat /\ Size[chain[P].net] \in Nat
           /\ chain[P].net \in Nets /\ RESERVE \in Nat /\ RESERVE > 0
  <1>1. MB({"unet"} \ on) \in Nat
    BY MBFinite DEF Parts
  <1>2. \A j \in Off(chain, P, on) : SizeOf(chain)[j] \in Nat
    BY OffFinite DEF Off
  <1>3. Total(Off(chain, P, on), SizeOf(chain)) \in Nat
    BY <1>2, OffFinite, UnitsFinite
  <1> QED
    BY <1>1, <1>3, SizeAssumption DEF Waiting, Listed

\* The more is on the card, the less is waited for.
LEMMA WaitingShrinks ==
    ASSUME NEW chain, Listed(chain), NEW P \in DOMAIN chain, NEW on, NEW more, on \subseteq more
    PROVE  Waiting(chain, P, more) <= Waiting(chain, P, on)
  <1>1. MB({"unet"} \ more) <= MB({"unet"} \ on)
    BY MBSubset DEF Parts
  <1>2. Off(chain, P, more) \subseteq Off(chain, P, on)
    BY DEF Off
  <1>3. \A j \in Off(chain, P, on) : SizeOf(chain)[j] \in Nat
    BY OffFinite DEF Off
  <1>4. Total(Off(chain, P, more), SizeOf(chain)) <= Total(Off(chain, P, on), SizeOf(chain))
    BY <1>2, <1>3, OffFinite, TotalSubset
  <1>5. MB({"unet"} \ more) \in Nat /\ MB({"unet"} \ on) \in Nat
    BY MBFinite DEF Parts
  <1>6. /\ Total(Off(chain, P, more), SizeOf(chain)) \in Nat
        /\ Total(Off(chain, P, on), SizeOf(chain)) \in Nat
    BY <1>2, <1>3, OffFinite, UnitsFinite
  <1> QED
    BY <1>1, <1>4, <1>5, <1>6 DEF Waiting

\* Two elements with one net wait for the same.
LEMMA WaitingAgain ==
    ASSUME NEW chain, Listed(chain), NEW P \in DOMAIN chain, NEW Q \in DOMAIN chain,
           chain[P].net = chain[Q].net, P # Q, NEW on
    PROVE  Waiting(chain, P, on) = Waiting(chain, Q, on)
  <1>1. CASE chain[P].net \in on
    <2>1. Off(chain, P, on) = Off(chain, Q, on)
      BY <1>1 DEF Off
    <2> QED
      BY <2>1 DEF Waiting
  <1>2. CASE chain[P].net \notin on
    <2> DEFINE rest == Off(chain, P, on) \ {Q}
    <2>1. /\ Off(chain, P, on) = rest \cup {Q} /\ rest \cap {Q} = {}
          /\ Off(chain, Q, on) = rest \cup {P} /\ rest \cap {P} = {}
      BY <1>2 DEF Off
    <2>2. IsFiniteSet(Off(chain, P, on)) /\ \A j \in DOMAIN chain : SizeOf(chain)[j] \in Nat
      BY OffFinite
    <2>3. IsFiniteSet(rest)
      BY <2>2, FS_Difference
    <2>4. rest \subseteq DOMAIN chain
      BY DEF Off
    <2>5. IsFiniteSet(rest) /\ \A j \in rest : SizeOf(chain)[j] \in Nat
      BY <2>2, <2>3, <2>4
    <2>6. IsFiniteSet({P}) /\ IsFiniteSet({Q})
      BY FS_Singleton
    <2>7. /\ SizeOf(chain)[P] \in Nat /\ SizeOf(chain)[Q] \in Nat
          /\ SizeOf(chain)[P] = SizeOf(chain)[Q]
      BY OffFinite
    <2> HIDE DEF rest
    <2>8. Total(rest \cup {Q}, SizeOf(chain)) =
          Total(rest, SizeOf(chain)) + Total({Q}, SizeOf(chain))
      BY <2>1, <2>5, <2>6, <2>7, TotalUnion
    <2>9. Total(rest \cup {P}, SizeOf(chain)) =
          Total(rest, SizeOf(chain)) + Total({P}, SizeOf(chain))
      BY <2>1, <2>5, <2>6, <2>7, TotalUnion
    <2>10. Total({P}, SizeOf(chain)) = Total({Q}, SizeOf(chain))
      BY <2>7, TotalOne
    <2>11. Total(Off(chain, P, on), SizeOf(chain)) = Total(Off(chain, Q, on), SizeOf(chain))
      BY <2>1, <2>8, <2>9, <2>10
    <2> QED
      BY <2>11 DEF Waiting
  <1> QED
    BY <1>1, <1>2

\* What is waited for covers the unet and the other nets of the chain, however
\* often one occurs.
LEMMA WaitingCovers ==
    ASSUME NEW chain, Listed(chain), NEW P \in DOMAIN chain, NEW on
    PROVE  MB((({"unet"} \cup Asked(chain)) \ on) \ {chain[P].net}) <= Waiting(chain, P, on)
  <1> DEFINE others == {chain[j].net : j \in Off(chain, P, on)}
             of == [j \in DOMAIN chain |-> chain[j].net]
             first == {"unet"} \ on
  <1>1. others \subseteq Nets /\ first \subseteq Parts /\ first \cap others = {}
    BY NetAssumption DEF Listed, Off, Parts
  <1>2. (({"unet"} \cup Asked(chain)) \ on) \ {chain[P].net} \subseteq first \cup others
    BY DEF Asked, Off
  <1>3. MB(others) <= Total(Off(chain, P, on), SizeOf(chain))
    <2>1. \A j \in Off(chain, P, on) :
              SizeOf(chain)[j] \in Nat /\ of[j] \in others /\ SizeOf(chain)[j] = Size[of[j]]
      BY OffFinite DEF Off
    <2>2. \A m \in others : \E j \in Off(chain, P, on) : of[j] = m
      BY DEF Off
    <2>3. IsFiniteSet(Off(chain, P, on))
      BY OffFinite
    <2> HIDE DEF of, others
    <2> QED
      BY <2>1, <2>2, <2>3, TotalImage DEF MB
  <1>4. Total(Off(chain, P, on), SizeOf(chain)) \in Nat
    <2>1. \A j \in Off(chain, P, on) : SizeOf(chain)[j] \in Nat
      BY OffFinite DEF Off
    <2> QED
      BY <2>1, OffFinite, UnitsFinite
  <1> HIDE DEF others, first
  <1>5. MB(first \cup others) = MB(first) + MB(others)
    BY <1>1, MBUnion
  <1>6. MB((({"unet"} \cup Asked(chain)) \ on) \ {chain[P].net}) <= MB(first \cup others)
    BY <1>1, <1>2, MBSubset
  <1>7. /\ MB(first) \in Nat /\ MB(others) \in Nat
        /\ MB((({"unet"} \cup Asked(chain)) \ on) \ {chain[P].net}) \in Nat
    BY <1>1, <1>2, MBFinite
  <1> QED
    BY <1>3, <1>4, <1>5, <1>6, <1>7 DEF Waiting, first

LEMMA LeftIs ==
    ASSUME NEW on, MB(on) \in Nat, card \in Nat
    PROVE  Left(on) \in Nat /\ (Left(on) = card - MB(on) \/ (Left(on) = 0 /\ card < MB(on)))
  BY DEF Left

\* A net that may stay leaves room for everything that the loop needs.
LEMMA MayFits ==
    ASSUME NEW chain, Listed(chain), NEW P \in DOMAIN chain,
           NEW on, on \subseteq Parts \cup Nets, card \in Nat, May(chain, P, on)
    PROVE  MB(on \cup {chain[P].net} \cup {"unet"} \cup Asked(chain)) + RESERVE <= card
  <1> DEFINE n == chain[P].net
             rest == (({"unet"} \cup Asked(chain)) \ on) \ {n}
             W == Waiting(chain, P, on)
  <1>1. W \in Nat /\ Size[n] \in Nat /\ n \in Nets /\ RESERVE \in Nat /\ RESERVE > 0
    BY WaitingTyped
  <1>2. /\ on \cup {n} \cup {"unet"} \cup Asked(chain) = (on \cup {n}) \cup rest
        /\ rest \subseteq Parts \cup Nets /\ (on \cup {n}) \cap rest = {}
    BY DEF Asked, Parts, Listed
  <1>3. MB(rest) <= W
    BY WaitingCovers
  <1>4. \/ n \in on /\ 100 * (Left(on) + Size[n]) >= 115 * Size[n] + 100 * RESERVE + 115 * W
        \/ 100 * Left(on) >= 115 * Size[n] + 100 * RESERVE + 115 * W
    BY DEF May, Need
  <1>5. MB((on \cup {n}) \cup rest) = MB(on \cup {n}) + MB(rest)
    BY <1>1, <1>2, MBUnion
  <1>6. MB(on) \in Nat /\ MB(on \cup {n}) \in Nat /\ MB(rest) \in Nat
    BY <1>1, <1>2, MBFinite
  <1>7. n \notin on => MB(on \cup {n}) = MB(on) + Size[n]
    BY <1>1, MBAdd
  <1>8. n \in on => on \cup {n} = on
    OBVIOUS
  <1> HIDE DEF n, rest, W
  <1>9. MB(on \cup {n}) + W + RESERVE <= card
    <2>1. CASE n \in on
      <3>1. 100 * (Left(on) + Size[n]) >= 115 * Size[n] + 100 * RESERVE + 115 * W
        <4>1. Left(on) \in Nat
          BY <1>6, LeftIs
        <4> QED
          BY <1>1, <1>4, <4>1
      <3>2. MB(on \cup {n}) = MB(on)
        BY <1>8, <2>1
      <3>3. Left(on) \in Nat /\ (Left(on) = card - MB(on) \/ (Left(on) = 0 /\ card < MB(on)))
        BY <1>6, LeftIs
      <3> QED
        BY <1>1, <1>6, <3>1, <3>2, <3>3
    <2>2. CASE n \notin on
      <3>1. 100 * Left(on) >= 115 * Size[n] + 100 * RESERVE + 115 * W
        BY <1>4, <2>2
      <3>2. MB(on \cup {n}) = MB(on) + Size[n]
        BY <1>7, <2>2
      <3>3. Left(on) \in Nat /\ (Left(on) = card - MB(on) \/ (Left(on) = 0 /\ card < MB(on)))
        BY <1>6, LeftIs
      <3> QED
        BY <1>1, <1>6, <3>1, <3>2, <3>3
    <2> QED
      BY <2>1, <2>2
  <1>10. MB((on \cup {n}) \cup rest) + RESERVE <= card
    BY <1>1, <1>3, <1>5, <1>6, <1>9
  <1>11. (on \cup {n}) \cup rest = on \cup {chain[P].net} \cup {"unet"} \cup Asked(chain)
    BY <1>2 DEF n
  <1> QED
    BY <1>10, <1>11

\* A net that was placed to stay would be so again.
LEMMA MayAgain ==
    ASSUME NEW chain, Listed(chain), NEW P \in DOMAIN chain,
           NEW on, on \subseteq Parts \cup Nets, card \in Nat, May(chain, P, on)
    PROVE  May(chain, P, on \cup {chain[P].net})
  <1> DEFINE n == chain[P].net
             W == Waiting(chain, P, on)
             V == Waiting(chain, P, on \cup {n})
  <1>1. W \in Nat /\ V \in Nat /\ Size[n] \in Nat /\ n \in Nets
        /\ RESERVE \in Nat /\ RESERVE > 0
    BY WaitingTyped
  <1>2. V <= W
    BY WaitingShrinks
  <1>3. \/ n \in on /\ 100 * (Left(on) + Size[n]) >= 115 * Size[n] + 100 * RESERVE + 115 * W
        \/ 100 * Left(on) >= 115 * Size[n] + 100 * RESERVE + 115 * W
    BY DEF May, Need
  <1>4. 100 * (Left(on \cup {n}) + Size[n]) >= 115 * Size[n] + 100 * RESERVE + 115 * V
          => May(chain, P, on \cup {n})
    BY DEF May, Need
  <1>5. MB(on) \in Nat /\ MB(on \cup {n}) \in Nat
    BY <1>1, MBFinite
  <1>6. n \notin on => MB(on \cup {n}) = MB(on) + Size[n]
    BY <1>1, MBAdd
  <1>7. n \in on => on \cup {n} = on
    OBVIOUS
  <1> HIDE DEF n, W, V
  <1>8. 100 * (Left(on \cup {n}) + Size[n]) >= 115 * Size[n] + 100 * RESERVE + 115 * V
    <2>1. CASE n \in on
      <3>1. Left(on \cup {n}) = Left(on) /\ Left(on) \in Nat
        BY <1>5, <1>7, <2>1, LeftIs
      <3> QED
        BY <1>1, <1>2, <1>3, <3>1
    <2>2. CASE n \notin on
      <3>1. 100 * Left(on) >= 115 * Size[n] + 100 * RESERVE + 115 * W
        BY <1>3, <2>2
      <3>2. MB(on \cup {n}) = MB(on) + Size[n]
        BY <1>6, <2>2
      <3>3. /\ Left(on) \in Nat /\ (Left(on) = card - MB(on) \/ (Left(on) = 0 /\ card < MB(on)))
            /\ Left(on \cup {n}) \in Nat
            /\ \/ Left(on \cup {n}) = card - MB(on \cup {n})
               \/ Left(on \cup {n}) = 0 /\ card < MB(on \cup {n})
        BY <1>5, LeftIs
      <3> QED
        BY <1>1, <1>2, <1>5, <3>1, <3>2, <3>3
    <2> QED
      BY <2>1, <2>2
  <1> QED
    BY <1>4, <1>8 DEF n

\* And one that was placed per step would be so again.
LEMMA MayNotAgain ==
    ASSUME NEW chain, Listed(chain), NEW P \in DOMAIN chain,
           NEW on, on \subseteq Parts \cup Nets, card \in Nat, ~May(chain, P, on)
    PROVE  ~May(chain, P, on \ {chain[P].net})
  <1> DEFINE n == chain[P].net
             W == Waiting(chain, P, on)
             V == Waiting(chain, P, on \ {n})
  <1>1. W \in Nat /\ V \in Nat /\ Size[n] \in Nat /\ n \in Nets
        /\ RESERVE \in Nat /\ RESERVE > 0
    BY WaitingTyped
  <1>2. W <= V
    BY WaitingShrinks
  <1>3. /\ ~(n \in on /\ 100 * (Left(on) + Size[n]) >= 115 * Size[n] + 100 * RESERVE + 115 * W)
        /\ ~(100 * Left(on) >= 115 * Size[n] + 100 * RESERVE + 115 * W)
    BY DEF May, Need
  <1>4. May(chain, P, on \ {n}) =>
          100 * Left(on \ {n}) >= 115 * Size[n] + 100 * RESERVE + 115 * V
    BY DEF May, Need
  <1>5. MB(on) \in Nat /\ MB(on \ {n}) \in Nat
    BY MBFinite
  <1>6. n \in on => MB(on) = MB(on \ {n}) + Size[n]
    <2> SUFFICES ASSUME n \in on PROVE MB(on) = MB(on \ {n}) + Size[n]
      OBVIOUS
    <2>1. (on \ {n}) \cup {n} = on
      OBVIOUS
    <2>2. MB((on \ {n}) \cup {n}) = MB(on \ {n}) + Size[n]
      BY <1>1, MBAdd
    <2> QED
      BY <2>1, <2>2
  <1>7. n \notin on => on \ {n} = on
    OBVIOUS
  <1> HIDE DEF n, W, V
  <1>8. ~(100 * Left(on \ {n}) >= 115 * Size[n] + 100 * RESERVE + 115 * V)
    <2>1. CASE n \in on
      BY <1>1, <1>2, <1>3, <1>5, <1>6, <2>1 DEF Left
    <2>2. CASE n \notin on
      <3>1. Left(on \ {n}) = Left(on) /\ Left(on) \in Nat
        BY <1>5, <1>7, <2>2, LeftIs
      <3> QED
        BY <1>1, <1>2, <1>3, <3>1
    <2> QED
      BY <2>1, <2>2
  <1> QED
    BY <1>4, <1>8 DEF n

-----------------------------------------------------------------------------
(* The placement of the nets of a call, and its processors. *)

\* The processors in the unet: those that the call has found, or its own.
Own ==
    /\ pc = "prepare" => unet = found
    /\ pc \in {"ready", "loop", "net", "finally"} =>
          \/ call.ipa = "none" /\ unet = found
          \/ call.ipa # "none" /\ unet = [procs |-> call.ipa, proj |-> call.ipa]

\* Within a call no net is split that was not so when it began; the move that
\* breaks off ends the call.
Kept == /\ pc \in {"prepare", "ready", "loop", "net"} => split \subseteq torn
        /\ pc = "finally" => \A m, n \in split \ torn : m = n

\* If no net was split, there is room for all nets of the call as soon as one of
\* them stays.
Room == torn = {} /\ (\E j \in 1 .. Placed : ~place[j]) =>
            MB(onCard \cup {"unet"} \cup Asked(call.chain)) + RESERVE <= card

\* The last element would be placed as it was once more.
Again == torn = {} /\ pc = "prepare" /\ Placed >= 1 =>
             (~place[Placed] <=> May(call.chain, Placed, onCard))

\* If no net occurs twice, or none was split and no other net stands between the
\* occurrences of one, all of these are placed alike, those that stay are on the
\* card, and the others are not unless they run or their move has broken off.
Orderly == Once(call.chain) \/ (torn = {} /\ Together(call.chain))
Agree == \A j, l \in 1 .. Placed :
             call.chain[j].net = call.chain[l].net => (place[j] <=> place[l])
Fixed == \A j \in 1 .. Placed : ~place[j] => call.chain[j].net \in onCard
Moved == \A j \in 1 .. Placed :
             place[j] => \/ call.chain[j].net \notin onCard
                         \/ pc = "net" /\ call.chain[j].net = call.chain[k].net
                         \/ pc = "finally" /\ call.chain[j].net \in split
Alike == Orderly => Agree /\ Fixed /\ Moved

\* A net that is placed per step is on the card while it runs.
Here == pc = "net" /\ place[k] => call.chain[k].net \in onCard

Inv == TypeOK /\ Shape /\ Own /\ Kept /\ Room /\ Again /\ Alike /\ Here

\* plan decides by what is on the card and by the chain.
LEMMA PlanDecides ==
    ASSUME TypeOK, Shape, Plan
    PROVE  /\ Listed(call.chain) /\ Placed + 1 \in DOMAIN call.chain
           /\ Planned = call.chain[Placed + 1].net
           /\ place'[Placed + 1] \in BOOLEAN
           /\ ~place'[Placed + 1] => onCard' = onCard \cup {Planned}
           /\ place'[Placed + 1] => onCard' = onCard \ {Planned}
           /\ split = {} => place'[Placed + 1] = ~May(call.chain, Placed + 1, onCard)
  <1>1. Listed(call.chain)
    BY Chain DEF Listed
  <1>2. Placed + 1 \in DOMAIN call.chain
    BY Chain, PlanEffect
  <1>3. Awaited = Off(call.chain, Placed + 1, onCard)
    BY DEF Awaited, Off
  <1>4. Pending = Waiting(call.chain, Placed + 1, onCard)
    BY <1>3 DEF Pending, Waiting, SizeOf
  <1>5. Needed = Need(call.chain, Placed + 1, onCard)
    BY <1>4 DEF Needed, Need, Planned
  <1> PICK free \in Available :
            /\ place'[Placed + 1] = ~(Stays(free) \/ Comes(free))
            /\ Stays(free) \/ Comes(free) => onCard' = onCard \cup {Planned}
            /\ ~(Stays(free) \/ Comes(free)) =>
                   onCard' = onCard \ {Planned} /\ split' = split \ {Planned}
    BY PlanEffect
  <1>6. split = {} => free = Left(onCard)
    <2> SUFFICES ASSUME split = {} PROVE free = Left(onCard)
      OBVIOUS
    <2>1. PICK off \in SUBSET split : free = Beside(onCard \ off)
      BY DEF Available
    <2>2. onCard \ off = onCard
      BY <2>1
    <2> QED
      BY <2>1, <2>2 DEF Beside, Left
  <1>7. split = {} =>
           (Stays(free) \/ Comes(free) <=> May(call.chain, Placed + 1, onCard))
    BY <1>5, <1>6 DEF Stays, Comes, May, Planned
  <1>8. /\ place'[Placed + 1] \in BOOLEAN
        /\ ~place'[Placed + 1] => onCard' = onCard \cup {Planned}
        /\ place'[Placed + 1] => onCard' = onCard \ {Planned}
    OBVIOUS
  <1>9. split = {} => place'[Placed + 1] = ~May(call.chain, Placed + 1, onCard)
    BY <1>7
  <1> QED
    BY <1>1, <1>2, <1>8, <1>9 DEF Planned

LEMMA CardTyped ==
    ASSUME TypeOK
    PROVE  card \in Nat /\ onCard \subseteq Parts \cup Nets /\ Listed(call.chain)
           /\ Asked(call.chain) \subseteq Nets
  BY Chain, SizeAssumption DEF TypeOK, Listed, Asked

\* Room depends on what may come to the card only.
LEMMA RoomStays ==
    ASSUME TypeOK, Room, UNCHANGED <<card, call, place, torn>>,
           onCard' \subseteq onCard \cup {"unet"} \cup Asked(call.chain)
    PROVE  Room'
  <1> SUFFICES ASSUME torn = {}, \E j \in 1 .. Placed' : ~place'[j]
               PROVE  MB(onCard' \cup {"unet"} \cup Asked(call.chain)) + RESERVE <= card
    BY DEF Room
  <1> DEFINE S == onCard' \cup {"unet"} \cup Asked(call.chain)
             T == onCard \cup {"unet"} \cup Asked(call.chain)
  <1>1. MB(T) + RESERVE <= card
    BY DEF Room, Placed
  <1>2. S \subseteq T /\ T \subseteq Parts \cup Nets
    BY CardTyped DEF Parts
  <1> HIDE DEF S, T
  <1>3. MB(S) \in Nat /\ MB(T) \in Nat /\ MB(S) <= MB(T)
    BY <1>2, MBFinite, MBSubset
  <1>4. MB(S) + RESERVE <= card
    BY <1>1, <1>3, SizeAssumption, CardTyped
  <1> QED
    BY <1>4 DEF S

LEMMA PlanRoom ==
    ASSUME TypeOK, Shape, Kept, Room, Plan
    PROVE  Room'
  <1> SUFFICES ASSUME torn = {}, \E j \in 1 .. Placed' : ~place'[j]
               PROVE  MB(onCard' \cup {"unet"} \cup Asked(call.chain)) + RESERVE <= card
    BY PlanEffect DEF Room
  <1>1. call' = call /\ card' = card /\ Placed' = Placed + 1 /\ Placed \in Nat
        /\ \A j \in 1 .. Placed : place'[j] = place[j]
    BY PlanEffect, Chain
  <1>2. split = {}
    BY PlanEffect DEF Kept
  <1>3. CASE ~place'[Placed + 1]
    <2>1. onCard' = onCard \cup {call.chain[Placed + 1].net}
      BY <1>3, PlanDecides
    <2>2. May(call.chain, Placed + 1, onCard) /\ Placed + 1 \in DOMAIN call.chain
      BY <1>2, <1>3, PlanDecides
    <2>3. MB(onCard \cup {call.chain[Placed + 1].net} \cup {"unet"} \cup Asked(call.chain))
            + RESERVE <= card
      BY <2>2, CardTyped, MayFits
    <2> QED
      BY <2>1, <2>3
  <1>4. CASE place'[Placed + 1]
    <2>1. \E j \in 1 .. Placed : ~place[j]
      BY <1>1, <1>4
    <2> DEFINE S == onCard' \cup {"unet"} \cup Asked(call.chain)
               T == onCard \cup {"unet"} \cup Asked(call.chain)
    <2>2. MB(T) + RESERVE <= card
      BY <2>1 DEF Room
    <2>3. onCard' \subseteq onCard
      BY <1>4, PlanDecides
    <2>4. S \subseteq T /\ T \subseteq Parts \cup Nets
      BY <2>3, CardTyped DEF Parts
    <2> HIDE DEF S, T
    <2>5. MB(S) \in Nat /\ MB(T) \in Nat /\ MB(S) <= MB(T)
      BY <2>4, MBFinite, MBSubset
    <2>6. MB(S) + RESERVE <= card
      BY <2>2, <2>5, SizeAssumption, CardTyped
    <2> QED
      BY <2>6 DEF S
  <1> QED
    BY <1>3, <1>4, PlanDecides

LEMMA PlanAgain ==
    ASSUME TypeOK, Shape, Kept, Plan
    PROVE  Again'
  <1> SUFFICES ASSUME torn = {}
               PROVE  ~place'[Placed + 1] <=> May(call.chain, Placed + 1, onCard')
    <2>1. torn' = torn /\ call' = call /\ Placed' = Placed + 1
      BY PlanEffect
    <2>2. May(call.chain, Placed, onCard)' <=> May(call.chain, Placed + 1, onCard')
      BY <2>1, PlanEffect DEF May, Need, Left
    <2> QED
      BY <2>1, <2>2 DEF Again
  <1>1. /\ Listed(call.chain) /\ Placed + 1 \in DOMAIN call.chain
        /\ Planned = call.chain[Placed + 1].net
        /\ place'[Placed + 1] \in BOOLEAN
        /\ ~place'[Placed + 1] => onCard' = onCard \cup {Planned}
        /\ place'[Placed + 1] => onCard' = onCard \ {Planned}
        /\ place'[Placed + 1] = ~May(call.chain, Placed + 1, onCard)
    BY PlanEffect, PlanDecides DEF Kept
  <1>2. CASE May(call.chain, Placed + 1, onCard)
    <2>1. ~place'[Placed + 1] /\ onCard' = onCard \cup {call.chain[Placed + 1].net}
      BY <1>1, <1>2
    <2>2. May(call.chain, Placed + 1, onCard')
      BY <1>1, <1>2, <2>1, CardTyped, MayAgain
    <2> QED
      BY <2>1, <2>2
  <1>3. CASE ~May(call.chain, Placed + 1, onCard)
    <2>1. place'[Placed + 1] /\ onCard' = onCard \ {call.chain[Placed + 1].net}
      BY <1>1, <1>3
    <2>2. ~May(call.chain, Placed + 1, onCard')
      BY <1>1, <1>3, <2>1, CardTyped, MayNotAgain
    <2> QED
      BY <2>1, <2>2
  <1> QED
    BY <1>2, <1>3

\* A net that was placed already is placed the same way once more.
LEMMA PlanAlike ==
    ASSUME TypeOK, Shape, Kept, Again, Alike, Plan
    PROVE  Alike'
  <1> SUFFICES ASSUME Orderly PROVE Agree' /\ Fixed' /\ Moved'
    BY PlanEffect DEF Alike, Orderly
  <1> DEFINE P == Placed
             n == call.chain[P + 1].net
  <1>1. /\ call' = call /\ Placed' = P + 1 /\ Listed(call.chain) /\ P \in Nat
        /\ P + 1 \in DOMAIN call.chain /\ DOMAIN call.chain = 1 .. Len(call.chain)
        /\ Len(call.chain) \in Nat /\ pc = "prepare" /\ pc' = pc
        /\ \A j \in 1 .. P : place'[j] = place[j] /\ place[j] \in BOOLEAN
        /\ place'[P + 1] \in BOOLEAN
        /\ split = {} => place'[P + 1] = ~May(call.chain, P + 1, onCard)
    BY PlanEffect, PlanDecides, Chain
  <1>2. ASSUME NEW j \in 1 .. P, call.chain[j].net = n
        PROVE  place'[j] <=> place'[P + 1]
    <2>1. P \in DOMAIN call.chain /\ j \in DOMAIN call.chain /\ P \in 1 .. P /\ P \in j .. P + 1
      BY <1>1
    <2>0. ~Once(call.chain)
      BY <1>1, <1>2, <2>1 DEF Once
    <2>00. torn = {} /\ Together(call.chain) /\ split = {}
      BY <1>1, <2>0 DEF Orderly, Kept
    <2>2. call.chain[P].net = n
      BY <1>1, <1>2, <2>1, <2>00 DEF Together
    <2>3. place[j] <=> place[P]
      BY <1>2, <2>1, <2>2 DEF Alike, Agree
    <2>4. ~place[P] <=> May(call.chain, P, onCard)
      BY <1>1, <2>1, <2>00 DEF Again
    <2>5. Waiting(call.chain, P, onCard) = Waiting(call.chain, P + 1, onCard)
      BY <1>1, <2>1, <2>2, WaitingAgain
    <2>6. May(call.chain, P, onCard) <=> May(call.chain, P + 1, onCard)
      BY <2>2, <2>5 DEF May, Need
    <2> QED
      BY <1>1, <2>3, <2>4, <2>6, <2>00
  <1>3. Agree'
    <2> SUFFICES ASSUME NEW j \in 1 .. P + 1, NEW l \in 1 .. P + 1,
                        call.chain[j].net = call.chain[l].net
                 PROVE  place'[j] <=> place'[l]
      BY <1>1 DEF Agree
    <2>1. CASE j \in 1 .. P /\ l \in 1 .. P
      BY <1>1, <2>1 DEF Alike, Agree
    <2>2. CASE j = P + 1 /\ l \in 1 .. P
      BY <1>2, <2>2
    <2>3. CASE l = P + 1 /\ j \in 1 .. P
      BY <1>2, <2>3
    <2>4. CASE j = P + 1 /\ l = P + 1
      BY <2>4
    <2> QED
      BY <1>1, <2>1, <2>2, <2>3, <2>4
  <1>4. /\ ~place'[P + 1] => onCard' = onCard \cup {n}
        /\ place'[P + 1] => onCard' = onCard \ {n}
    BY PlanDecides
  <1>5. ASSUME NEW j \in 1 .. P + 1
        PROVE  /\ ~place'[j] => call.chain[j].net \in onCard'
               /\ place'[j] => call.chain[j].net \notin onCard'
    <2>1. CASE call.chain[j].net = n
      <3>1. place'[j] <=> place'[P + 1]
        BY <1>1, <1>2, <2>1
      <3> QED
        BY <1>4, <2>1, <3>1
    <2>2. CASE call.chain[j].net # n
      <3>1. j \in 1 .. P
        BY <1>1, <2>2
      <3>2. /\ ~place[j] => call.chain[j].net \in onCard
            /\ place[j] => call.chain[j].net \notin onCard
        BY <1>1, <3>1 DEF Alike, Fixed, Moved
      <3> QED
        BY <1>1, <1>4, <2>2, <3>1, <3>2
    <2> QED
      BY <2>1, <2>2
  <1>6. Fixed' /\ Moved'
    BY <1>1, <1>5 DEF Fixed, Moved
  <1> QED
    BY <1>3, <1>6

LEMMA NothingPlaced ==
    ASSUME Placed' = 0
    PROVE  Room' /\ Again' /\ Alike'
  BY DEF Room, Again, Alike, Agree, Fixed, Moved

\* A net is split where the call finds it so, or where its move breaks off.
LEMMA KeptStep ==
    ASSUME Inv, [Next]_vars
    PROVE  Kept'
  <1>1. CASE UNCHANGED vars
    BY <1>1 DEF vars, Inv, Kept
  <1>2. CASE pc' = "idle"
    BY <1>2 DEF Kept
  <1>3. ASSUME NEW c, Begin(c) PROVE Kept'
    BY <1>3 DEF Begin, Kept
  <1>4. CASE Plan
    BY <1>4, PlanEffect DEF Inv, Kept
  <1>5. CASE \/ Install \/ Enter \/ NetSkipped \/ NetGoes \/ NetReturns \/ NetRaises
             \/ UnetStep \/ VideoStep \/ LoopEnds
    <2>1. /\ pc \in {"prepare", "ready", "loop", "net"} /\ torn' = torn
          /\ split' \subseteq split
      BY <1>5 DEF Install, Enter, NetSkipped, NetGoes, NetReturns, NetRaises, UnetStep,
                  VideoStep, LoopEnds, InLoop, pipe
    <2> QED
      BY <2>1 DEF Inv, Kept
  <1>6. CASE NetMoveRaises
    <2>1. /\ split \subseteq torn /\ torn' = torn /\ pc' = "finally"
          /\ split' \subseteq split \cup {call.chain[k].net}
      BY <1>6 DEF NetMoveRaises, BreaksOff, InLoop, Inv, Kept
    <2> QED
      BY <2>1 DEF Kept
  <1>7. ASSUME \/ \E a \in Adapters : LoadLora(a)
               \/ \E n \in Nets : LoadNet(n)
               \/ Encode \/ PlanRaises \/ PrepareRaises \/ Finally
        PROVE  Kept'
    <2>1. pc' = "idle"
      BY <1>7 DEF LoadLora, LoadNet, Encode, PlanRaises, PrepareRaises, Finally
    <2> QED
      BY <1>2, <2>1
  <1> QED
    BY <1>1, <1>3, <1>4, <1>5, <1>6, <1>7 DEF Next, SampleBegins, VideoBegins

\* Neither the nets nor their placement change.
LEMMA AlikeStays ==
    ASSUME TypeOK, Alike, UNCHANGED <<call, place, torn>>,
           pc \notin {"net", "finally"}, pc' # "net",
           \A n \in Nets : n \in onCard' <=> n \in onCard
    PROVE  Alike'
  <1>1. \A j \in 1 .. Placed : Placed <= Len(call.chain) => call.chain[j].net \in Nets
    BY Chain
  <1>2. Placed' = Placed /\ Placed <= Len(call.chain)
    BY DEF Placed, TypeOK
  <1> QED
    BY <1>1, <1>2 DEF Alike, Orderly, Agree, Fixed, Moved

LEMMA RunsNets ==
    ASSUME NEW part \in Parts, Runs(part)
    PROVE  /\ \A n \in Nets : n \in onCard' <=> n \in onCard
           /\ onCard' \subseteq onCard \cup {part}
  BY NetAssumption DEF Runs

LEMMA IdleInv ==
    ASSUME Inv,
           \/ \E a \in Adapters : LoadLora(a)
           \/ \E n \in Nets : LoadNet(n)
           \/ Encode
    PROVE  Own' /\ Room' /\ Again' /\ Alike'
  <1>1. pc = "idle" /\ pc' = "idle" /\ place' = place
    BY DEF LoadLora, LoadNet, Encode
  <1>2. Placed' = 0
    BY <1>1 DEF Inv, Shape, Placed
  <1>3. Own'
    BY <1>1 DEF Own
  <1> QED
    BY <1>2, <1>3, NothingPlaced

LEMMA BeginInv ==
    ASSUME NEW c, Begin(c)
    PROVE  Own' /\ Room' /\ Again' /\ Alike'
  <1>1. Placed' = 0
    BY DEF Begin, Placed
  <1>2. Own'
    BY DEF Begin, Own
  <1> QED
    BY <1>1, <1>2, NothingPlaced

LEMMA PlanInv ==
    ASSUME Inv, Plan
    PROVE  Own' /\ Room' /\ Again' /\ Alike'
  <1>1. Own'
    BY PlanEffect DEF Inv, Own
  <1> QED
    BY <1>1, PlanRoom, PlanAgain, PlanAlike DEF Inv

LEMMA EnterInv ==
    ASSUME Inv, Install \/ Enter
    PROVE  Own' /\ Room' /\ Again' /\ Alike'
  <1>1. /\ UNCHANGED <<card, call, place, onCard, found, torn>>
        /\ pc \in {"prepare", "ready"} /\ pc' \in {"ready", "loop"}
    BY DEF Install, Enter, fixed, pipe
  <1>2. Own'
    <2>1. CASE Install
      BY <2>1 DEF Install, Inv, Own
    <2>2. CASE Enter
      BY <2>2 DEF Enter, Inv, Own, pipe
    <2> QED
      BY <2>1, <2>2
  <1>3. Room'
    BY <1>1, RoomStays DEF Inv
  <1>4. Again'
    BY <1>1 DEF Again
  <1>5. Alike'
    BY <1>1, AlikeStays DEF Inv
  <1> QED
    BY <1>2, <1>3, <1>4, <1>5

LEMMA LeaveInv ==
    ASSUME PrepareRaises \/ PlanRaises \/ Finally
    PROVE  Own' /\ Room' /\ Again' /\ Alike'
  <1>1. Placed' = 0
    BY DEF PrepareRaises, PlanRaises, Finally, Placed
  <1>2. Own'
    BY DEF PrepareRaises, PlanRaises, Finally, Own
  <1> QED
    BY <1>1, <1>2, NothingPlaced

LEMMA LoopInv ==
    ASSUME Inv, NetSkipped \/ UnetStep \/ LoopEnds
    PROVE  Own' /\ Room' /\ Again' /\ Alike'
  <1>1. /\ UNCHANGED <<card, call, place, unet, found, torn>>
        /\ pc = "loop" /\ pc' \in {"loop", "finally"}
    BY DEF NetSkipped, UnetStep, LoopEnds, InLoop, fixed, pipe
  <1>2. /\ \A n \in Nets : n \in onCard' <=> n \in onCard
        /\ onCard' \subseteq onCard \cup {"unet"}
    BY RunsNets DEF NetSkipped, UnetStep, LoopEnds, pipe, Parts
  <1>3. Own'
    BY <1>1 DEF Inv, Own
  <1>4. Room'
    BY <1>1, <1>2, RoomStays DEF Inv
  <1>5. Again'
    BY <1>1 DEF Again
  <1>6. Alike'
    BY <1>1, <1>2, AlikeStays DEF Inv
  <1> QED
    BY <1>3, <1>4, <1>5, <1>6

LEMMA VideoInv ==
    ASSUME Inv, VideoStep
    PROVE  Own' /\ Room' /\ Again' /\ Alike'
  <1>1. /\ UNCHANGED <<call, place, unet, found>> /\ pc = "loop" /\ pc' = pc
        /\ call.kind = "video"
    BY DEF VideoStep, InLoop
  <1>2. Placed' = 0
    BY <1>1 DEF Inv, Shape, Placed
  <1>3. Own'
    BY <1>1 DEF Inv, Own
  <1> QED
    BY <1>2, <1>3, NothingPlaced

LEMMA NetGoesInv ==
    ASSUME Inv, NetGoes \/ NetMoveRaises
    PROVE  Own' /\ Room' /\ Again' /\ Alike'
  <1> DEFINE n == call.chain[k].net
  <1>1. /\ UNCHANGED <<card, call, place, unet, found, torn, k>>
        /\ pc = "loop" /\ pc' \in {"net", "finally"} /\ k \in 1 .. Placed
        /\ k \in DOMAIN call.chain /\ Placed' = Placed /\ place[k] \in BOOLEAN
    BY Chain DEF NetGoes, NetMoveRaises, InLoop, InChain, fixed, Inv, TypeOK, Shape, Placed
  <1>2. /\ onCard \subseteq onCard' /\ onCard' \subseteq onCard \cup {n}
        /\ pc' = "net" \/ (pc' = "finally" /\ (onCard' = onCard \/ n \in split'))
    BY DEF NetGoes, NetMoveRaises, BreaksOff
  <1>3. Own'
    BY <1>1 DEF Inv, Own
  <1>4. Room'
    <2>1. n \in Asked(call.chain)
      BY <1>1 DEF Asked
    <2> QED
      BY <1>1, <1>2, <2>1, RoomStays DEF Inv
  <1>5. Again'
    BY <1>1 DEF Again
  <1>6. Alike'
    <2> SUFFICES ASSUME Orderly PROVE Agree' /\ Fixed' /\ Moved'
      BY <1>1 DEF Alike, Orderly
    <2>1. Agree' /\ Fixed'
      BY <1>1, <1>2 DEF Inv, Alike, Agree, Fixed
    <2>2. Moved'
      BY <1>1, <1>2 DEF Inv, Alike, Moved
    <2> QED
      BY <2>1, <2>2
  <1> QED
    BY <1>3, <1>4, <1>5, <1>6

LEMMA NetHomeInv ==
    ASSUME Inv, NetReturns \/ NetRaises
    PROVE  Own' /\ Room' /\ Again' /\ Alike'
  <1> DEFINE n == call.chain[k].net
  <1>1. /\ UNCHANGED <<card, call, place, unet, found, torn>>
        /\ pc = "net" /\ pc' \in {"loop", "finally"} /\ k \in 1 .. Placed
        /\ Placed' = Placed /\ place[k] \in BOOLEAN
    BY Chain DEF NetReturns, NetRaises, fixed, Inv, TypeOK, Shape, Placed
  <1>2. /\ place[k] => onCard' = onCard \ {n}
        /\ ~place[k] => onCard' = onCard
    BY <1>1 DEF NetReturns, NetRaises, NetHome
  <1>3. Own'
    BY <1>1 DEF Inv, Own
  <1>4. Room'
    <2>1. onCard' \subseteq onCard
      BY <1>1, <1>2
    <2> QED
      BY <1>1, <2>1, RoomStays DEF Inv
  <1>5. Again'
    BY <1>1 DEF Again
  <1>6. Alike'
    <2> SUFFICES ASSUME Orderly PROVE Agree' /\ Fixed' /\ Moved'
      BY <1>1 DEF Alike, Orderly
    <2>1. Agree /\ Fixed /\ Moved
      BY DEF Inv, Alike
    <2>2. Agree'
      BY <1>1, <2>1 DEF Agree
    <2>3. ASSUME NEW j \in 1 .. Placed
          PROVE  /\ ~place[j] => call.chain[j].net \in onCard'
                 /\ place[j] => call.chain[j].net \notin onCard'
      <3>1. call.chain[j].net = n => (place[j] <=> place[k])
        BY <1>1, <2>1 DEF Agree
      <3>2. /\ ~place[j] => call.chain[j].net \in onCard
            /\ place[j] /\ call.chain[j].net # n => call.chain[j].net \notin onCard
        BY <1>1, <2>1 DEF Fixed, Moved
      <3> QED
        BY <1>1, <1>2, <3>1, <3>2
    <2> QED
      BY <1>1, <2>2, <2>3 DEF Fixed, Moved
  <1> QED
    BY <1>3, <1>4, <1>5, <1>6

LEMMA HereInv ==
    ASSUME Here, [Next]_vars
    PROVE  Here'
  <1>1. CASE UNCHANGED vars
    BY <1>1 DEF vars, Here
  <1>2. CASE NetGoes
    BY <1>2 DEF NetGoes, Here, fixed
  <1>3. CASE Next /\ ~NetGoes
    <2>1. pc' # "net"
      BY <1>3
         DEF Next, LoadLora, LoadNet, Encode, SampleBegins, VideoBegins, Begin, Plan, PlanRaises,
             Install, PrepareRaises, Enter, NetSkipped, NetMoveRaises, NetReturns, NetRaises,
             UnetStep, VideoStep, InLoop, LoopEnds, Finally
    <2> QED
      BY <2>1 DEF Here
  <1> QED
    BY <1>1, <1>2, <1>3

LEMMA InitInv == Init => Own /\ Kept /\ Room /\ Again /\ Alike /\ Here
  <1> SUFFICES ASSUME Init PROVE Own /\ Kept /\ Room /\ Again /\ Alike /\ Here
    OBVIOUS
  <1>1. pc = "idle" /\ Placed = 0
    BY DEF Init, Placed
  <1> QED
    BY <1>1 DEF Own, Kept, Room, Again, Alike, Agree, Fixed, Moved, Here

LEMMA Invariant == Spec => []Inv
  <1>1. Init => Inv
    BY InitTyped, InitInv DEF Inv
  <1>2. ASSUME Inv, TypeOK', Shape', [Next]_vars PROVE Inv'
    <2> Here' /\ Kept'
      BY <1>2, HereInv, KeptStep DEF Inv
    <2>1. CASE UNCHANGED vars
      BY <1>2, <2>1
         DEF vars, Inv, Own, Room, Again, Alike, Orderly, Agree, Fixed, Moved, Placed, May,
             Need, Left
    <2>2. ASSUME NEW patches \in SUBSET Adapters, NEW ipa \in Ipas \cup {"none"},
                 NEW chain \in Chains, SampleBegins(patches, ipa, chain)
          PROVE  Inv'
      BY <1>2, <2>2, BeginInv DEF SampleBegins, Inv
    <2>3. ASSUME NEW patches \in SUBSET Adapters, VideoBegins(patches)
          PROVE  Inv'
      BY <1>2, <2>3, BeginInv DEF VideoBegins, Inv
    <2>4. CASE NetReturns \/ NetRaises
      BY <1>2, <2>4, NetHomeInv DEF Inv
    <2>5. CASE NetGoes \/ NetMoveRaises
      BY <1>2, <2>5, NetGoesInv DEF Inv
    <2>6. CASE NetSkipped \/ UnetStep \/ LoopEnds
      BY <1>2, <2>6, LoopInv DEF Inv
    <2>7. CASE VideoStep
      BY <1>2, <2>7, VideoInv DEF Inv
    <2>8. CASE PrepareRaises \/ PlanRaises \/ Finally
      BY <1>2, <2>8, LeaveInv DEF Inv
    <2>9. CASE Install \/ Enter
      BY <1>2, <2>9, EnterInv DEF Inv
    <2>10. CASE Plan
      BY <1>2, <2>10, PlanInv DEF Inv
    <2>11. CASE \/ \E a \in Adapters : LoadLora(a)
                \/ \E n \in Nets : LoadNet(n)
                \/ Encode
      BY <1>2, <2>11, IdleInv DEF Inv
    <2> QED
      BY <1>2, <2>1, <2>2, <2>3, <2>4, <2>5, <2>6, <2>7, <2>8, <2>9, <2>10, <2>11 DEF Next
  <1> QED
    BY <1>1, <1>2, Typed, PTL DEF Spec

\* A ControlNet is on the card when it runs, unless another one stands between
\* two of its occurrences; and as soon as one was placed to stay there is room
\* for it, for the unet, for the net that runs and for the reserve; provided that
\* the call has found no net split.
THEOREM PlacementHolds == Spec => []PlacementFits
  <1>1. ASSUME Inv PROVE PlacementFits
    <2> SUFFICES ASSUME pc = "net", torn = {}
                 PROVE  /\ Together(call.chain) => call.chain[k].net \in onCard \ split
                        /\ (\E j \in DOMAIN place : ~place[j]) =>
                               MB(onCard \cup {"unet"}) + RESERVE <= card
      BY DEF PlacementFits, NetRunsOnCard
    <2>1. k \in 1 .. Placed /\ DOMAIN place = 1 .. Placed
      BY <1>1, Chain DEF Inv, Shape, TypeOK
    <2>2. Together(call.chain) => call.chain[k].net \in onCard \ split
      BY <1>1, <2>1, Chain DEF Inv, Alike, Orderly, Fixed, Here, Kept
    <2>3. ASSUME \E j \in DOMAIN place : ~place[j]
          PROVE  MB(onCard \cup {"unet"}) + RESERVE <= card
      <3> DEFINE S == onCard \cup {"unet"}
                 T == onCard \cup {"unet"} \cup Asked(call.chain)
      <3>1. MB(T) + RESERVE <= card
        BY <1>1, <2>1, <2>3 DEF Inv, Room
      <3>2. S \subseteq T /\ T \subseteq Parts \cup Nets
        BY <1>1, CardTyped DEF Inv, Parts
      <3> HIDE DEF S, T
      <3>3. MB(S) \in Nat /\ MB(T) \in Nat /\ MB(S) <= MB(T)
        BY <3>2, MBFinite, MBSubset
      <3>4. MB(S) + RESERVE <= card
        BY <1>1, <3>1, <3>3, SizeAssumption, CardTyped DEF Inv
      <3> QED
        BY <3>4 DEF S
    <2> QED
      BY <2>2, <2>3
  <1> QED
    BY <1>1, Invariant, PTL

\* What a call leaves behind when its loop is over, however it ended: nothing,
\* but a part of a net whose move to the card has raised.
THEOREM NoTrace == Spec => LoopLeavesNoTrace
  <1>1. ASSUME Inv, pc = "finally", [Next]_vars, ~UNCHANGED vars
        PROVE  /\ enabled' = {} /\ unet' = found
               /\ Once(call.chain) \/ (torn = {} /\ Together(call.chain)) =>
                     \A j \in DOMAIN place :
                         place[j] => call.chain[j].net \notin onCard' \ split'
               /\ \A m, n \in split' \ torn : m = n
    <2>1. Finally
      BY <1>1
         DEF Next, LoadLora, LoadNet, Encode, SampleBegins, VideoBegins, Begin, Plan, Install,
             PrepareRaises, PlanRaises, Enter, NetSkipped, NetGoes, NetMoveRaises, NetReturns,
             NetRaises, UnetStep, VideoStep, InLoop, LoopEnds
    <2>2. enabled' = {}
      BY <1>1, <2>1 DEF Finally, Inv, Shape, Busy
    <2>3. unet' = found
      <3>1. CASE call.ipa = "none"
        BY <1>1, <2>1, <3>1 DEF Finally, Inv, Own
      <3>2. CASE call.ipa # "none"
        <4>1. unet = [procs |-> call.ipa, proj |-> call.ipa]
          BY <1>1, <3>2 DEF Inv, Own
        <4>2. found \in [procs : {"own"} \cup Ipas, proj : {"own"} \cup Ipas]
          BY <1>1 DEF Inv, TypeOK
        <4>3. Restored = found
          BY <4>1, <4>2 DEF Restored, SetProcessors
        <4> QED
          BY <2>1, <3>2, <4>3 DEF Finally
      <3> QED
        BY <3>1, <3>2
    <2>4. ASSUME Orderly, NEW j \in DOMAIN place, place[j]
          PROVE  call.chain[j].net \notin onCard' \ split'
      <3>1. j \in 1 .. Placed
        BY <1>1, Chain DEF Inv
      <3> QED
        BY <1>1, <2>1, <2>4, <3>1 DEF Finally, Inv, Alike, Moved
    <2>5. \A m, n \in split' \ torn : m = n
      BY <1>1, <2>1 DEF Finally, Inv, Kept
    <2> QED
      BY <2>2, <2>3, <2>4, <2>5 DEF Orderly
  <1>2. Inv /\ [Next]_vars =>
          [pc = "finally" =>
              /\ enabled' = {} /\ unet' = found
              /\ Once(call.chain) \/ (torn = {} /\ Together(call.chain)) =>
                    \A j \in DOMAIN place :
                        place[j] => call.chain[j].net \notin onCard' \ split'
              /\ \A m, n \in split' \ torn : m = n]_vars
    BY <1>1
  <1> QED
    BY <1>2, Invariant, PTL DEF Spec, LoopLeavesNoTrace

-----------------------------------------------------------------------------
(* The inputs of a call. *)

\* Any names: resolving twice is resolving once.
LEMMA ResolvesIs == ASSUME NEW names, NEW curves PROVE ResolvesOnce(names, curves)
<1> SUFFICES ASSUME NEW s \in names, NEW c \in curves, resolve_sampler(s, c) # Refused
             PROVE  /\ resolve_sampler(resolve_sampler(s, c).sampler, resolve_sampler(s, c).curve)
                       = resolve_sampler(s, c)
                    /\ c \notin {"", "normal"} => resolve_sampler(s, c).curve = c
  BY DEF ResolvesOnce
<1> DEFINE base == IF s = Legacy THEN "dpmpp_2m" ELSE s
           curve == Curve(s, c)
<1>1. /\ base \in SAMPLERS /\ curve \in SCHEDULES /\ curve \in supported_schedules(base)
      /\ resolve_sampler(s, c) = [sampler |-> base, curve |-> curve]
  BY DEF resolve_sampler
<1>2. c \notin {"", "normal"} => curve = c
  BY DEF Curve
<1> HIDE DEF base, curve
<1>3. base # Legacy /\ curve # ""
  BY <1>1 DEF SAMPLERS, SCHEDULES, Legacy
<1>4. Curve(base, curve) = curve
  BY <1>3 DEF Curve
<1>5. resolve_sampler(base, curve) = [sampler |-> base, curve |-> curve]
  BY <1>1, <1>3, <1>4 DEF resolve_sampler
<1>6. resolve_sampler(s, c).sampler = base /\ resolve_sampler(s, c).curve = curve
  BY <1>1
<1> QED BY <1>1, <1>2, <1>5, <1>6

\* round is off by a half at most.
LEMMA RoundedIs ==
    ASSUME NEW num \in Nat
    PROVE  /\ Rounded(num, 100) \in Nat
           /\ 100 * Rounded(num, 100) - num \in -50 .. 50
<1> DEFINE q == num \div 100
           r == num % 100
<1>1. q \in Nat /\ r \in 0 .. 99 /\ num = 100 * q + r
  OBVIOUS
<1>2. Rounded(num, 100) = IF 2 * r < 100 \/ (2 * r = 100 /\ q % 2 = 0) THEN q ELSE q + 1
  BY DEF Rounded
<1> HIDE DEF q, r
<1>3. CASE 2 * r < 100 \/ (2 * r = 100 /\ q % 2 = 0)
  <2>1. Rounded(num, 100) = q /\ r <= 50
    BY <1>1, <1>2, <1>3
  <2> QED BY <1>1, <2>1
<1>4. CASE ~(2 * r < 100 \/ (2 * r = 100 /\ q % 2 = 0))
  <2>1. Rounded(num, 100) = q + 1 /\ r >= 50
    BY <1>1, <1>2, <1>4
  <2> QED BY <1>1, <2>1
<1> QED BY <1>3, <1>4

\* Spans of any length, for any denoise.
LEMMA SpansAre ==
    ASSUME NEW most \in Nat, NEW denoises, denoises \subseteq 0 .. 100
    PROVE  SpansHandOver(most, denoises)
<1> SUFFICES ASSUME NEW steps \in 1 .. most, NEW denoise \in denoises
             PROVE  /\ \A m \in 1 .. steps - 1 :
                          /\ resolve_span(steps, 100, 0, m) = [start |-> 0, end |-> m]
                          /\ resolve_span(steps, denoise, m, 0) = [start |-> m, end |-> steps]
                          /\ m > 1 => resolve_span(steps, denoise, m - 1, m)
                                      = [start |-> m - 1, end |-> m]
                    /\ LET start == resolve_span(steps, denoise, 0, 0).start
                           off == 100 * start - steps * (100 - denoise)
                       IN  /\ start \in 0 .. steps - 1
                           /\ off \in -50 .. 50 \/ start = steps - 1
  BY DEF SpansHandOver
<1>1. steps \in Nat /\ steps >= 1 /\ denoise \in 0 .. 100
  OBVIOUS
<1>2. ASSUME NEW m \in 1 .. steps - 1 PROVE resolve_span(steps, 100, 0, m) = [start |-> 0, end |-> m]
  <2>1. End(steps, m) = m
    BY <1>1, <1>2 DEF End
  <2>2. Start(steps, 100, 0) = 0
    BY <1>1 DEF Start
  <2> QED BY <1>1, <1>2, <2>1, <2>2 DEF resolve_span
<1>3. ASSUME NEW m \in 1 .. steps - 1
      PROVE  resolve_span(steps, denoise, m, 0) = [start |-> m, end |-> steps]
  <2>1. End(steps, 0) = steps
    BY <1>1 DEF End
  <2>2. Start(steps, denoise, m) = m
    BY <1>1, <1>3 DEF Start
  <2> QED BY <1>1, <1>3, <2>1, <2>2 DEF resolve_span
<1>4. ASSUME NEW m \in 1 .. steps - 1, m > 1
      PROVE  resolve_span(steps, denoise, m - 1, m) = [start |-> m - 1, end |-> m]
  <2>1. End(steps, m) = m
    BY <1>1, <1>4 DEF End
  <2>2. Start(steps, denoise, m - 1) = m - 1
    BY <1>1, <1>4 DEF Start
  <2> QED BY <1>1, <1>4, <2>1, <2>2 DEF resolve_span
<1> DEFINE num == steps * (100 - denoise)
           start == Start(steps, denoise, 0)
<1>5. num \in Nat /\ (denoise = 100 => num = 0)
  <2>1. 100 - denoise \in Nat
    BY <1>1
  <2>2. \A x \in Nat : steps * x \in Nat /\ (x = 0 => steps * x = 0)
    BY <1>1
  <2> QED BY <1>1, <2>1, <2>2
<1>6. start = IF denoise = 100 THEN 0
              ELSE IF Rounded(num, 100) < steps THEN Rounded(num, 100) ELSE steps - 1
  BY <1>1 DEF Start
<1>7. Rounded(num, 100) \in Nat /\ 100 * Rounded(num, 100) - num \in -50 .. 50
  <2> HIDE DEF num
  <2> QED BY <1>5, RoundedIs
<1>8. resolve_span(steps, denoise, 0, 0).start = start /\ start \in 0 .. steps - 1
  <2>1. End(steps, 0) = steps
    BY <1>1 DEF End
  <2>2. start \in 0 .. steps - 1
    <3> HIDE DEF num, start
    <3> QED BY <1>1, <1>6, <1>7
  <2>3. resolve_span(steps, denoise, 0, 0) = [start |-> start, end |-> steps]
    <3> HIDE DEF num
    <3> QED BY <1>1, <2>1, <2>2 DEF resolve_span
  <2> QED BY <2>2, <2>3
<1>9. 100 * start - num \in -50 .. 50 \/ start = steps - 1
  <2> HIDE DEF num, start
  <2> QED BY <1>1, <1>5, <1>6, <1>7
<1> QED BY <1>2, <1>3, <1>4, <1>8, <1>9

\* The multiple of 8 below a size, or 8.
LEMMA AlignedIs ==
    ASSUME NEW x \in Nat
    PROVE  /\ Aligned(x) \in Nat /\ Aligned(x) % 8 = 0 /\ Aligned(x) > 0
           /\ Aligned(x) <= x \/ Aligned(x) = 8
<1>1. CASE x < 8
  BY <1>1 DEF Aligned
<1>2. CASE x >= 8
  <2> DEFINE q == x \div 8
  <2>1. q \in Nat /\ q >= 1 /\ q * 8 <= x
    BY <1>2
  <2>2. Aligned(x) = q * 8
    BY <1>2 DEF Aligned
  <2> HIDE DEF q
  <2>3. (q * 8) % 8 = 0
    BY <2>1
  <2> QED BY <2>1, <2>2, <2>3
<1> QED BY <1>1, <1>2

\* Images of any size, and any factor.
LEMMA UpscaleIs ==
    ASSUME NEW sizes, sizes \subseteq Nat, NEW scales, scales \subseteq Nat \ {0}
    PROVE  UpscaleFits(sizes, scales)
<1> SUFFICES ASSUME NEW w \in sizes, NEW h \in sizes, NEW scale \in scales,
                    NEW width \in sizes \cup {0}, NEW height \in sizes \cup {0},
                    NEW d \in {1, 2}
             PROVE  LET r == image_upscale(w, h, scale, width, height)
                        asked == IF width > 0 /\ height > 0 THEN <<width, height>>[d]
                                 ELSE Rounded(<<w, h>>[d] * scale, 100)
                    IN  r[d] % 8 = 0 /\ r[d] > 0 /\ (r[d] <= asked \/ r[d] = 8)
  BY DEF UpscaleFits
<1> DEFINE asked == IF width > 0 /\ height > 0 THEN <<width, height>>
                    ELSE <<Rounded(w * scale, 100), Rounded(h * scale, 100)>>
<1>1. /\ w \in Nat /\ h \in Nat /\ width \in Nat /\ height \in Nat /\ scale \in Nat /\ scale > 0
  OBVIOUS
<1>2. w * scale \in Nat /\ h * scale \in Nat
  <2>1. \A x, y \in Nat : x * y \in Nat
    OBVIOUS
  <2> QED BY <1>1, <2>1
<1>3. Rounded(w * scale, 100) \in Nat /\ Rounded(h * scale, 100) \in Nat
  BY <1>2, RoundedIs
<1>4. asked[1] \in Nat /\ asked[2] \in Nat
  BY <1>1, <1>3
<1>5. image_upscale(w, h, scale, width, height) = <<Aligned(asked[1]), Aligned(asked[2])>>
  <2>1. CASE width > 0 /\ height > 0
    BY <2>1 DEF image_upscale
  <2>2. CASE ~(width > 0 /\ height > 0)
    BY <1>1, <2>2 DEF image_upscale
  <2> QED BY <2>1, <2>2
<1>6. asked[d] = IF width > 0 /\ height > 0 THEN <<width, height>>[d]
                 ELSE Rounded(<<w, h>>[d] * scale, 100)
  <2>1. CASE d = 1
    BY <2>1
  <2>2. CASE d = 2
    BY <2>2
  <2> QED BY <2>1, <2>2
<1> HIDE DEF asked
<1>7. image_upscale(w, h, scale, width, height)[d] = Aligned(asked[d])
  BY <1>5
<1>8. asked[d] \in Nat
  BY <1>4
<1> QED BY <1>6, <1>7, <1>8, AlignedIs

\* h is f, of length a, and then g, of length b.
IsJoined(h, f, g, a, b) ==
    /\ DOMAIN h = 1 .. a + b
    /\ \A n \in 1 .. a : h[n] = f[n]
    /\ \A n \in 1 .. b : h[a + n] = g[n]

\* Two sequences after each other.
LEMMA Joined ==
    ASSUME NEW f, NEW g, NEW a \in Nat, NEW b \in Nat, NEW D,
           f \in [1 .. a -> D], g \in [1 .. b -> D]
    PROVE  IsJoined(f \o g, f, g, a, b)
<1>1. f \in Seq(D) /\ g \in Seq(D) /\ Len(f) = a /\ Len(g) = b
  <2>1. f \in Seq(D) /\ g \in Seq(D)
    BY SeqDef
  <2> QED BY <2>1, LenProperties
<1>2. f \o g \in Seq(D) /\ Len(f \o g) = a + b
  BY <1>1
<1> QED BY <1>1, <1>2 DEF IsJoined

\* The segments of a side, and its pooled embeddings: one of each segment or none.
LEMMA SegmentsAre ==
    ASSUME NEW side, NEW c, NEW A, c.areas \in Seq(A)
    PROVE  /\ Len(c.areas) \in Nat /\ DOMAIN c.areas = 1 .. Len(c.areas)
           /\ Segments(side, c) \in [1 .. Len(c.areas) -> {side} \X Nat]
           /\ \A n \in 1 .. Len(c.areas) : Segments(side, c)[n] = <<side, n>>
           /\ Pooleds(side, c) \in {Segments(side, c), <<>>}
<1>1. Len(c.areas) \in Nat /\ DOMAIN c.areas = 1 .. Len(c.areas)
  OBVIOUS
<1>2. \A n \in 1 .. Len(c.areas) : Segments(side, c)[n] = <<side, n>>
  BY <1>1 DEF Segments
<1>3. Segments(side, c) \in [1 .. Len(c.areas) -> {side} \X Nat]
  BY <1>1 DEF Segments
<1>4. Pooleds(side, c) \in {Segments(side, c), <<>>}
  BY DEF Pooleds
<1> QED BY <1>1, <1>2, <1>3, <1>4

\* What a forward carries for the sides of its rows.
RowsOf(F, f, sides, neg, control, ipa) ==
    LET h == F[f].hidden IN
    /\ sides = [r \in DOMAIN h |-> h[r][1]]
    /\ sides \in {<<"neg">>, <<"pos">>, <<"neg", "pos">>}
    /\ F[f].text = IF Pooleds("neg", neg) = <<>> THEN <<>> ELSE h
    /\ F[f].image = IF ipa THEN sides ELSE <<>>
    /\ F[f].tokens = IF control = "instantid" THEN sides ELSE <<>>

\* One segment: one row.
LEMMA OneSegmentRow ==
    ASSUME NEW side \in {"neg", "pos"}, NEW c, NEW A, c.areas \in Seq(A),
           NEW n \in 1 .. Len(c.areas), NEW control, NEW ipa \in BOOLEAN,
           NEW F, NEW f, F[f] = OneSegment(side, n, c, control, ipa),
           NEW neg, (Pooleds(side, c) = <<>>) <=> (Pooleds("neg", neg) = <<>>)
    PROVE  /\ F[f].hidden = << <<side, n>> >>
           /\ RowsOf(F, f, <<side>>, neg, control, ipa)
<1>1. /\ Segments(side, c)[n] = <<side, n>>
      /\ Pooleds(side, c) \in {Segments(side, c), <<>>}
  BY SegmentsAre
<1>2. F[f].hidden = << <<side, n>> >>
  BY <1>1 DEF OneSegment
<1>3. F[f].text = IF Pooleds("neg", neg) = <<>> THEN <<>> ELSE << <<side, n>> >>
  <2>1. F[f].text = IF Pooleds(side, c) = <<>> THEN <<>> ELSE <<Pooleds(side, c)[n]>>
    BY DEF OneSegment
  <2> QED BY <1>1, <2>1
<1>4. /\ F[f].image = IF ipa THEN <<side>> ELSE <<>>
      /\ F[f].tokens = IF control = "instantid" THEN <<side>> ELSE <<>>
  BY DEF OneSegment, OfSide
<1>5. <<side>> = [r \in DOMAIN << <<side, n>> >> |-> << <<side, n>> >>[r][1]]
  OBVIOUS
<1> QED BY <1>2, <1>3, <1>4, <1>5 DEF RowsOf

\* Both sides in one batch: two rows.
LEMMA BothSidesRows ==
    ASSUME NEW pos, NEW neg, NEW control, NEW ipa \in BOOLEAN,
           neg.areas = <<"none">>, pos.areas = <<"none">>,
           (Pooleds("pos", pos) = <<>>) <=> (Pooleds("neg", neg) = <<>>),
           NEW F, NEW f, F[f] = BothSides(pos, neg, control, ipa)
    PROVE  /\ F[f].hidden = << <<"neg", 1>>, <<"pos", 1>> >>
           /\ RowsOf(F, f, <<"neg", "pos">>, neg, control, ipa)
<1> DEFINE h == << <<"neg", 1>>, <<"pos", 1>> >>
<1>1. ASSUME NEW side, NEW c, c.areas = <<"none">>
      PROVE  Segments(side, c)[1] = <<side, 1>> /\ Pooleds(side, c) \in {Segments(side, c), <<>>}
  <2>1. DOMAIN c.areas = {1}
    BY <1>1
  <2> QED BY <2>1 DEF Segments, Pooleds
<1>2. F[f].hidden = h
  BY DEF BothSides
<1>3. F[f].text = IF Pooleds("neg", neg) = <<>> THEN <<>> ELSE h
  <2>1. /\ Segments("neg", neg)[1] = <<"neg", 1>> /\ Segments("pos", pos)[1] = <<"pos", 1>>
        /\ Pooleds("neg", neg) \in {Segments("neg", neg), <<>>}
        /\ Pooleds("pos", pos) \in {Segments("pos", pos), <<>>}
    BY <1>1
  <2>2. F[f].text = Cat(Pooleds("neg", neg), Pooleds("pos", pos))
    BY DEF BothSides
  <2> QED BY <2>1, <2>2 DEF Cat
<1>4. Cat(<<"neg">>, <<"pos">>) = <<"neg", "pos">> /\ Cat(<<>>, <<>>) = <<>>
  BY DEF Cat
<1>5. F[f].image = IF ipa THEN <<"neg", "pos">> ELSE <<>>
  <2>1. F[f].image = Cat(OfSide("neg", ipa), OfSide("pos", ipa))
    BY DEF BothSides
  <2>2. CASE ipa
    <3>1. OfSide("neg", ipa) = <<"neg">> /\ OfSide("pos", ipa) = <<"pos">>
      BY <2>2 DEF OfSide
    <3>2. F[f].image = <<"neg", "pos">>
      BY <1>4, <2>1, <3>1, Zenon
    <3> QED BY <2>2, <3>2
  <2>3. CASE ~ipa
    <3>1. OfSide("neg", ipa) = <<>> /\ OfSide("pos", ipa) = <<>>
      BY <2>3 DEF OfSide
    <3>2. F[f].image = <<>>
      BY <1>4, <2>1, <3>1, Zenon
    <3> QED BY <2>3, <3>2
  <2> QED BY <2>2, <2>3
<1>6. F[f].tokens = IF control = "instantid" THEN <<"neg", "pos">> ELSE <<>>
  <2>1. F[f].tokens = Cat(OfSide("neg", control = "instantid"), OfSide("pos", control = "instantid"))
    BY DEF BothSides
  <2>2. CASE control = "instantid"
    BY <2>1, <2>2 DEF Cat, OfSide
  <2>3. CASE control # "instantid"
    BY <2>1, <2>3 DEF Cat, OfSide
  <2> QED BY <2>2, <2>3
<1>7. <<"neg", "pos">> = [r \in DOMAIN h |-> h[r][1]]
  OBVIOUS
<1> QED BY <1>2, <1>3, <1>5, <1>6, <1>7 DEF RowsOf

\* Conditionings with any numbers of segments.
LEMMA RowsAre ==
    ASSUME NEW conds, NEW A, \A c \in conds : c.areas \in Seq(A), NEW controls
    PROVE  RowsBelongTogether(conds, controls)
<1> SUFFICES ASSUME NEW pos \in conds, NEW neg \in conds, NEW control \in controls,
                    NEW ipa \in BOOLEAN, Accepted(pos, neg, control)
             PROVE  LET F == Forwards(pos, neg, control, ipa)
                        Of(seg) == {f \in DOMAIN F :
                                       \E r \in DOMAIN F[f].hidden : F[f].hidden[r] = seg}
                    IN  /\ \A seg \in Range(Segments("neg", neg) \o Segments("pos", pos)) :
                              Cardinality(Of(seg)) = 1
                        /\ \A f \in DOMAIN F :
                              LET h == F[f].hidden
                                  sides == [r \in DOMAIN h |-> h[r][1]]
                              IN  /\ sides \in {<<"neg">>, <<"pos">>, <<"neg", "pos">>}
                                  /\ F[f].text = IF Pooleds("neg", neg) = <<>> THEN <<>> ELSE h
                                  /\ F[f].image = IF ipa THEN sides ELSE <<>>
                                  /\ F[f].tokens = IF control = "instantid" THEN sides ELSE <<>>
  BY DEF RowsBelongTogether
<1> DEFINE F == Forwards(pos, neg, control, ipa)
           Of(seg) == {f \in DOMAIN F : \E r \in DOMAIN F[f].hidden : F[f].hidden[r] = seg}
           a == Len(neg.areas)
           b == Len(pos.areas)
           all == Segments("neg", neg) \o Segments("pos", pos)
<1>1. (Pooleds("pos", pos) = <<>>) <=> (Pooleds("neg", neg) = <<>>)
  BY DEF Accepted
<1>2. /\ a \in Nat /\ b \in Nat /\ DOMAIN neg.areas = 1 .. a /\ DOMAIN pos.areas = 1 .. b
      /\ Segments("neg", neg) \in [1 .. a -> {"neg"} \X Nat]
      /\ Segments("pos", pos) \in [1 .. b -> {"pos"} \X Nat]
      /\ \A n \in 1 .. a : Segments("neg", neg)[n] = <<"neg", n>>
      /\ \A n \in 1 .. b : Segments("pos", pos)[n] = <<"pos", n>>
  BY SegmentsAre
\* Every segment is one of a side.
<1>3. \A seg \in Range(all) : (\E n \in 1 .. a : seg = <<"neg", n>>)
                              \/ (\E n \in 1 .. b : seg = <<"pos", n>>)
  <2> DEFINE D == {"neg", "pos"} \X Nat
  <2>1. Segments("neg", neg) \in [1 .. a -> D] /\ Segments("pos", pos) \in [1 .. b -> D]
    BY <1>2
  <2> HIDE DEF D
  <2>2. /\ DOMAIN all = 1 .. a + b
        /\ \A n \in 1 .. a : all[n] = Segments("neg", neg)[n]
        /\ \A n \in 1 .. b : all[a + n] = Segments("pos", pos)[n]
    <3> HIDE DEF a, b
    <3>1. IsJoined(all, Segments("neg", neg), Segments("pos", pos), a, b)
      BY <1>2, <2>1, Joined, Zenon
    <3> QED BY <3>1 DEF IsJoined
  <2> HIDE DEF all, a, b
  <2>3. \A m \in 1 .. a + b : m \in 1 .. a \/ (m - a \in 1 .. b /\ m = a + (m - a))
    BY <1>2
  <2>4. ASSUME NEW m \in 1 .. a + b
        PROVE  (\E n \in 1 .. a : all[m] = <<"neg", n>>) \/ (\E n \in 1 .. b : all[m] = <<"pos", n>>)
    <3>1. CASE m \in 1 .. a
      <4>1. all[m] = <<"neg", m>>
        BY <1>2, <2>2, <3>1
      <4> QED BY <3>1, <4>1
    <3>2. CASE m - a \in 1 .. b /\ m = a + (m - a)
      <4> DEFINE n == m - a
      <4>1. n \in 1 .. b /\ m = a + n
        BY <3>2
      <4> HIDE DEF n
      <4>2. all[m] = <<"pos", n>>
        BY <1>2, <2>2, <4>1
      <4> QED BY <4>1, <4>2
    <3> QED BY <2>3, <3>1, <3>2
  <2> QED BY <2>2, <2>4 DEF Range
\* Which forward has which rows, and carries what.
<1>4. /\ \A f \in DOMAIN F : \E sides : RowsOf(F, f, sides, neg, control, ipa)
      /\ \A seg \in Range(all) : \E f : Of(seg) = {f}
  <2>1. CASE Mode(pos, neg) = "cat"
    <3>1. neg.areas = <<"none">> /\ pos.areas = <<"none">>
      BY <2>1 DEF Mode, IsPlain
    <3>2. F = <<BothSides(pos, neg, control, ipa)>>
      BY <2>1 DEF Forwards
    <3>3. DOMAIN F = {1} /\ F[1] = BothSides(pos, neg, control, ipa)
      BY <3>2
    <3> HIDE DEF F
    <3>4. /\ F[1].hidden = << <<"neg", 1>>, <<"pos", 1>> >>
          /\ RowsOf(F, 1, <<"neg", "pos">>, neg, control, ipa)
      BY <1>1, <3>1, <3>3, BothSidesRows
    <3>5. a = 1 /\ b = 1
      BY <3>1
    <3>6. \A seg \in Range(all) : seg \in {<<"neg", 1>>, <<"pos", 1>>}
      <4> HIDE DEF all, a, b
      <4> QED BY <1>3, <3>5
    <3>7. ASSUME NEW seg \in {<<"neg", 1>>, <<"pos", 1>>} PROVE Of(seg) = {1}
      <4> DEFINE h == << <<"neg", 1>>, <<"pos", 1>> >>
      <4>1. \E r \in DOMAIN h : h[r] = seg
        <5>1. DOMAIN h = {1, 2} /\ h[1] = <<"neg", 1>> /\ h[2] = <<"pos", 1>>
          OBVIOUS
        <5> HIDE DEF h
        <5> QED BY <5>1
      <4> HIDE DEF h
      <4>2. F[1].hidden = h
        BY <3>4 DEF h
      <4> QED BY <3>3, <4>1, <4>2
    <3>8. \A seg \in Range(all) : \E f : Of(seg) = {f}
      <4> HIDE DEF all, Of
      <4> QED BY <3>6, <3>7
    <3> QED BY <3>3, <3>4, <3>8
  <2>2. CASE Mode(pos, neg) # "cat"
    <3> DEFINE G == [n \in DOMAIN neg.areas |-> OneSegment("neg", n, neg, control, ipa)]
               H == [n \in DOMAIN pos.areas |-> OneSegment("pos", n, pos, control, ipa)]
               D == {G[n] : n \in 1 .. a} \cup {H[n] : n \in 1 .. b}
    <3>1. F = G \o H
      BY <2>2 DEF Forwards
    <3>2. /\ \A n \in 1 .. a : G[n] = OneSegment("neg", n, neg, control, ipa)
          /\ \A n \in 1 .. b : H[n] = OneSegment("pos", n, pos, control, ipa)
          /\ G = [n \in 1 .. a |-> G[n]] /\ H = [n \in 1 .. b |-> H[n]]
      BY <1>2
    <3> HIDE DEF F, G, H, a, b
    <3>3. G \in [1 .. a -> D] /\ H \in [1 .. b -> D]
      <4>1. (\A n \in 1 .. a : G[n] \in D) /\ (\A n \in 1 .. b : H[n] \in D)
        OBVIOUS
      <4> HIDE DEF D
      <4> QED BY <3>2, <4>1
    <3> HIDE DEF D
    <3>4. /\ DOMAIN F = 1 .. a + b
          /\ \A n \in 1 .. a : F[n] = G[n]
          /\ \A n \in 1 .. b : F[a + n] = H[n]
      <4>1. IsJoined(G \o H, G, H, a, b)
        BY <1>2, <3>3, Joined, Zenon
      <4> QED BY <3>1, <4>1 DEF IsJoined
    <3>5. ASSUME NEW n \in 1 .. a
          PROVE  F[n].hidden = << <<"neg", n>> >> /\ RowsOf(F, n, <<"neg">>, neg, control, ipa)
      <4>1. F[n] = OneSegment("neg", n, neg, control, ipa)
        BY <3>2, <3>4
      <4>2. (Pooleds("neg", neg) = <<>>) <=> (Pooleds("neg", neg) = <<>>)
        OBVIOUS
      <4>3. "neg" \in {"neg", "pos"} /\ neg.areas \in Seq(A)
        OBVIOUS
      <4> QED BY <4>1, <4>2, <4>3, OneSegmentRow DEF a
    <3>6. ASSUME NEW n \in 1 .. b
          PROVE  /\ F[a + n].hidden = << <<"pos", n>> >>
                 /\ RowsOf(F, a + n, <<"pos">>, neg, control, ipa)
      <4>1. F[a + n] = OneSegment("pos", n, pos, control, ipa)
        BY <3>2, <3>4
      <4> QED BY <1>1, <4>1, OneSegmentRow DEF b
    <3>7. \A m \in 1 .. a + b : m \in 1 .. a \/ (m - a \in 1 .. b /\ m = a + (m - a))
      BY <1>2
    <3>8. \A f \in DOMAIN F : \E sides : RowsOf(F, f, sides, neg, control, ipa)
      BY <3>4, <3>5, <3>6, <3>7
    <3>9. \A x, seg : (\E r \in DOMAIN <<x>> : <<x>>[r] = seg) <=> x = seg
      OBVIOUS
    <3>10. ASSUME NEW n \in 1 .. a PROVE Of(<<"neg", n>>) = {n}
      <4>1. \A f \in 1 .. a : f \in Of(<<"neg", n>>) <=> f = n
        <5>1. \A f \in 1 .. a : f \in DOMAIN F
          BY <1>2, <3>4
        <5> QED BY <3>5, <3>9, <5>1
      <4>2. \A f \in 1 .. b : a + f \notin Of(<<"neg", n>>)
        BY <3>6, <3>9
      <4>3. \A f \in Of(<<"neg", n>>) : f \in 1 .. a + b
        BY <3>4
      <4> HIDE DEF Of
      <4> QED BY <3>7, <4>1, <4>2, <4>3
    <3>11. ASSUME NEW n \in 1 .. b PROVE Of(<<"pos", n>>) = {a + n}
      <4>1. \A f \in 1 .. a : f \notin Of(<<"pos", n>>)
        BY <3>5, <3>9
      <4>2. \A f \in 1 .. b : a + f \in Of(<<"pos", n>>) <=> f = n
        <5>1. \A f \in 1 .. b : a + f \in DOMAIN F
          BY <1>2, <3>4
        <5> QED BY <3>6, <3>9, <5>1
      <4>3. \A f \in Of(<<"pos", n>>) : f \in 1 .. a + b
        BY <3>4
      <4> HIDE DEF Of
      <4>4. a + n \in Of(<<"pos", n>>)
        BY <4>2
      <4>5. ASSUME NEW m \in Of(<<"pos", n>>) PROVE m = a + n
        <5>1. m - a \in 1 .. b /\ m = a + (m - a)
          BY <3>7, <4>1, <4>3
        <5> QED BY <4>2, <5>1
      <4> QED BY <4>4, <4>5
    <3>12. \A seg \in Range(all) : \E f : Of(seg) = {f}
      <4> HIDE DEF all, Of
      <4> SUFFICES ASSUME NEW seg \in Range(all) PROVE \E f : Of(seg) = {f}
        OBVIOUS
      <4>1. CASE \E n \in 1 .. a : seg = <<"neg", n>>
        BY <3>10, <4>1
      <4>2. CASE \E n \in 1 .. b : seg = <<"pos", n>>
        BY <3>11, <4>2
      <4> QED BY <1>3, <4>1, <4>2
    <3> QED BY <3>8, <3>12
  <2> QED BY <2>1, <2>2
<1>5. \A seg \in Range(all) : Cardinality(Of(seg)) = 1
  <2> HIDE DEF Of, all
  <2> QED BY <1>4, FS_Singleton
<1> QED BY <1>4, <1>5 DEF RowsOf

\* The pure parts of the run: InputsAreRight, for any inputs of their kind.
THEOREM InputsHold == Spec => []InputsAreRight
<1>1. InputsAreRight
  <2>1. NamesResolve
    BY ResolvesIs DEF NamesResolve
  <2>2. SpansAreRight
    BY InputAssumption, SpansAre DEF SpansAreRight
  <2>3. RowsAreRight
    BY InputAssumption, RowsAre DEF RowsAreRight
  <2>4. ImagesFit
    BY InputAssumption, UpscaleIs DEF ImagesFit
  <2> QED BY <2>1, <2>2, <2>3, <2>4 DEF InputsAreRight
<1> QED BY <1>1, PTL
=============================================================================
