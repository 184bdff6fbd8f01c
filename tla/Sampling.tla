------------------------------- MODULE Sampling -------------------------------
(***************************************************************************)
(* What the operators of app/ops.py do to the pipe they share.  A pipe     *)
(* stays resident and every pipeline that loads the same checkpoint gets   *)
(* the same one: sample and video_sample enable LoRA adapters in it, swap  *)
(* its attention processors and move its parts and ControlNets between     *)
(* card and memory.  Calls run one at a time, under EXEC_LOCK; any of them *)
(* may raise, and is interrupted by an exception too.                      *)
(***************************************************************************)
EXTENDS Integers, Sequences, FiniteSets, Basics, SampleInputs

CONSTANTS
    Adapters,  \* names of LoRA adapters
    Nets,      \* ControlNets, each resident on its own
    Size,      \* MB of the parts and of the nets
    Cards,     \* amounts of memory that a card may have
    RESERVE,   \* ControlNetPlacement.RESERVE_MB
    Chains,    \* what control may be: a sequence of [net, lo, hi]
    Steps,     \* timesteps of the span
    Names, Curves,   \* what the pure parts are compared over: samplers and curves
    Most, Denoises,  \* as a request names them; lengths and denoises of spans;
    Conds, Controls, \* conditionings, and what control is; sizes and factors of
    Extents, Scales  \* images

Parts == {"unet", "text_encoder", "vae"}

ASSUME SizeAssumption ==
    Size \in [Parts \cup Nets -> Nat] /\ RESERVE \in Nat \ {0} /\ Cards \subseteq Nat
ASSUME NetAssumption == Nets \cap Parts = {} /\ IsFiniteSet(Nets)
ASSUME ChainAssumption ==
    /\ Steps \in Nat \ {0}
    /\ \A c \in Chains : c \in Seq([net : Nets, lo : 0 .. Steps, hi : 0 .. Steps])
ASSUME InputAssumption ==
    /\ Most \in Nat /\ Denoises \subseteq 0 .. 100
    /\ \A c \in Conds : c.areas \in Seq({"none", "inside", "outside"})
    /\ Extents \subseteq Nat /\ Scales \subseteq Nat \ {0}

VARIABLES
    hooked,   \* the pipe was loaded with offload: hooks move its parts
    card,     \* memory of the card
    onCard,   \* parts and nets on the card, by their first parameter
    split,    \* the nets of these whose move to the card broke off half way
    loaded,   \* ModelManager._adapters of the pipe
    enabled,  \* the adapters that take part in a forward
    unet,     \* processors and projection of the unet: own, or of an IPAdapter
    pc,
    call,     \* the call in progress
    place,    \* per element of its chain: placed per step?
    i, k,     \* the step, and the element of the chain in it
    found,    \* history: unet as the call has found it
    torn      \* history: split as the call has found it

vars == <<hooked, card, onCard, split, loaded, enabled, unet, pc, call, place, i, k, found, torn>>

pipe == <<onCard, split, loaded, enabled, unet>>
fixed == <<hooked, card>>

\* An IPAdapter projects image features with a linear layer, or with a
\* resampler that has attention layers of its own.
Ipas == {"linear", "resampler"}
OwnUnet == [procs |-> "own", proj |-> "own"]

NoCall == [kind |-> "none", patches |-> {}, ipa |-> "none", chain |-> <<>>]

Init == /\ hooked \in BOOLEAN /\ card \in Cards
        /\ onCard = IF hooked THEN Nets ELSE Nets \cup Parts
        /\ split = {} /\ loaded = {} /\ enabled = {} /\ unet = OwnUnet
        /\ pc = "idle" /\ call = NoCall /\ place = <<>> /\ i = 0 /\ k = 0
        /\ found = OwnUnet /\ torn = {}

(***************************************************************************)
(* Memory.                                                                 *)
(***************************************************************************)

\* _module_mb, of everything in S.
MB(S) == Total(S, Size)

\* available_vram_bytes: a card that is oversubscribed has nothing left.  How
\* much of a split net is on the card is not kept: none or all of it.
Beside(on) == LET left == card - MB(on) IN IF left < 0 THEN 0 ELSE left
Available == {Beside(onCard \ off) : off \in SUBSET split}

\* A part runs.  On a pipe with hooks it comes to the card, and the hooks may
\* send others away.
Runs(part) ==
    IF hooked THEN \E away \in SUBSET (Parts \ {part}) :
                       onCard' = (onCard \ away) \cup {part}
              ELSE UNCHANGED onCard

\* park_idle_components: what the loop does not run goes to memory; what
\* cannot be moved stays.
Park == LET idle == {"text_encoder", "vae"}
        IN  IF hooked THEN \E gone \in SUBSET idle : onCard' = onCard \ gone
                      ELSE UNCHANGED onCard

\* The elements of the chain that are not planned yet begin here.
Placed == Len(place)
Planned == call.chain[Placed + 1].net

\* Fault: the net is alone on the card (execution 796).
PendingNone == 0

\* _peers_pending_mb: the unet and the nets of the other elements, as often
\* as they occur, that are not on the card.
Awaited == {j \in DOMAIN call.chain : j # Placed + 1 /\ call.chain[j].net \notin onCard}
Pending ==
    MB({"unet"} \ onCard)
      + Total(Awaited, [j \in DOMAIN call.chain |-> Size[call.chain[j].net]])

\* In hundredths of a MB: FACTOR is 1.15.
Needed == 115 * Size[Planned] + 100 * RESERVE + 115 * Pending

Stays(free) == Planned \in onCard /\ 100 * (free + Size[Planned]) >= Needed
Comes(free) == 100 * free >= Needed

(***************************************************************************)
(* The operators.                                                          *)
(***************************************************************************)

\* Fault: the adapter is not written down.
LoadLoraAgain(a) ==
    /\ pc = "idle" /\ a \notin loaded
    /\ enabled' \in {enabled, enabled \cup {a}}
    /\ UNCHANGED <<fixed, onCard, split, loaded, unet, pc, call, place, i, k, found, torn>>

\* lora_apply: an adapter is loaded once; diffusers may enable what it loads.
LoadLora(a) ==
    /\ pc = "idle" /\ a \notin loaded
    /\ loaded' = loaded \cup {a}
    /\ enabled' \in {enabled, enabled \cup {a}}
    /\ UNCHANGED <<fixed, onCard, split, unet, pc, call, place, i, k, found, torn>>

\* load_controlnet puts the net on the card, the whole of it, or fails and
\* forgets it.
LoadNet(n) ==
    /\ pc = "idle" /\ n \notin onCard \ split
    /\ onCard' = onCard \cup {n} /\ split' = split \ {n}
    /\ UNCHANGED <<fixed, loaded, enabled, unet, pc, call, place, i, k, found, torn>>

\* clip_encode, vae_encode and vae_decode.
Encode ==
    /\ pc = "idle" /\ hooked
    /\ Runs("text_encoder") \/ Runs("vae")
    /\ UNCHANGED <<fixed, split, loaded, enabled, unet, pc, call, place, i, k, found, torn>>

\* Fault: a call without patches leaves what is enabled.
EnabledOnly(patches) == IF patches = {} THEN enabled ELSE patches

\* _enable_adapters
Enabled(patches) == patches

Begin(c) == /\ pc = "idle" /\ c.patches \subseteq loaded
            /\ pc' = "prepare" /\ call' = c
            /\ enabled' = Enabled(c.patches)
            /\ place' = <<>> /\ found' = unet /\ torn' = split
            /\ UNCHANGED <<fixed, split, loaded, unet, i, k>>

SampleBegins(patches, ipa, chain) ==
    /\ Begin([kind |-> "sample", patches |-> patches, ipa |-> ipa, chain |-> chain])
    /\ Park

VideoBegins(patches) ==
    /\ Begin([kind |-> "video", patches |-> patches, ipa |-> "none", chain |-> <<>>])
    /\ UNCHANGED onCard

\* ControlNetPlacement.plan of the next element: a net that stays is not moved.
Plan ==
    /\ pc = "prepare" /\ Placed < Len(call.chain)
    /\ \E free \in Available :
         LET here == Stays(free) \/ Comes(free)
         IN  /\ place' = Append(place, ~here)
             /\ onCard' = IF here THEN onCard \cup {Planned} ELSE onCard \ {Planned}
             /\ split' = IF Stays(free) THEN split ELSE split \ {Planned}
    /\ UNCHANGED <<fixed, loaded, enabled, unet, pc, call, i, k, found, torn>>

\* A move of net n to the card raises: nothing of it has got there, or a part.
BreaksOff(n) == \/ UNCHANGED <<onCard, split>>
                \/ onCard' = onCard \cup {n} /\ split' = split \cup {n}

\* The move of plan raises, before the try statement of sample.
PlanRaises ==
    /\ pc = "prepare" /\ Placed < Len(call.chain)
    /\ Planned \notin onCard /\ \E free \in Available : Comes(free)
    /\ BreaksOff(Planned)
    /\ pc' = "idle" /\ call' = NoCall /\ place' = <<>>
    /\ UNCHANGED <<fixed, loaded, enabled, unet, i, k, found, torn>>

\* load_ip_adapter, if the model carries one.
Install ==
    /\ pc = "prepare" /\ Placed = Len(call.chain)
    /\ pc' = "ready"
    /\ unet' = IF call.ipa = "none" THEN unet ELSE [procs |-> call.ipa, proj |-> call.ipa]
    /\ UNCHANGED <<fixed, onCard, split, loaded, enabled, call, place, i, k, found, torn>>

\* What may be wrong with the inputs (the span, the sizes of masks and areas,
\* one side with and one without pooled embeddings, no image for a video), or
\* the memory, ends the call before its try statement.
PrepareRaises ==
    /\ pc \in {"prepare", "ready"}
    /\ pc' = "idle" /\ call' = NoCall /\ place' = <<>>
    /\ UNCHANGED <<fixed, pipe, i, k, found, torn>>

Enter ==
    /\ pc = "ready"
    /\ pc' = "loop" /\ i' = 0 /\ k' = 1
    /\ UNCHANGED <<fixed, pipe, call, place, found, torn>>

(***************************************************************************)
(* The loop: the ControlNets of a step one after the other, then the unet. *)
(***************************************************************************)

InLoop == pc = "loop" /\ i < Steps
InChain == k <= Len(call.chain)
InWindow == call.chain[k].lo <= i /\ i < call.chain[k].hi

NetSkipped ==
    /\ InLoop /\ InChain /\ ~InWindow
    /\ k' = k + 1
    /\ UNCHANGED <<fixed, pipe, pc, call, place, i, found, torn>>

NetGoes ==
    /\ InLoop /\ InChain /\ InWindow
    /\ pc' = "net"
    /\ IF place[k] THEN /\ onCard' = onCard \cup {call.chain[k].net}
                        /\ split' = split \ {call.chain[k].net}
                   ELSE UNCHANGED <<onCard, split>>
    /\ UNCHANGED <<fixed, loaded, enabled, unet, call, place, i, k, found, torn>>

\* The move to the card raises.  It stands before the try statement of
\* ControlNetPlacement.run: nothing moves the net home.
NetMoveRaises ==
    /\ InLoop /\ InChain /\ InWindow
    /\ place[k] /\ call.chain[k].net \notin onCard \ split
    /\ BreaksOff(call.chain[k].net)
    /\ pc' = "finally"
    /\ UNCHANGED <<fixed, loaded, enabled, unet, call, place, i, k, found, torn>>

\* Fault: the net goes home whether it was placed per step or not.
NetHomeAlways == onCard \ {call.chain[k].net}

\* The finally clause of ControlNetPlacement.run.
NetHome == IF place[k] THEN onCard \ {call.chain[k].net} ELSE onCard

\* The forward of a net of which a part is not on the card raises.
NetReturns ==
    /\ pc = "net" /\ call.chain[k].net \notin split
    /\ onCard' = NetHome /\ split' = split \cap onCard'
    /\ pc' = "loop" /\ k' = k + 1
    /\ UNCHANGED <<fixed, loaded, enabled, unet, call, place, i, found, torn>>

NetRaises ==
    /\ pc = "net"
    /\ onCard' = NetHome /\ split' = split \cap onCard'
    /\ pc' = "finally"
    /\ UNCHANGED <<fixed, loaded, enabled, unet, call, place, i, k, found, torn>>

\* The forward of the unet and the step of the scheduler.  A unet that kept the
\* processors of an IPAdapter raises if the call brings no image features.
UnetStep ==
    /\ InLoop /\ call.kind = "sample" /\ ~InChain
    /\ unet.procs = "own" \/ call.ipa # "none"
    /\ Runs("unet")
    /\ i' = i + 1 /\ k' = 1
    /\ UNCHANGED <<fixed, split, loaded, enabled, unet, pc, call, place, found, torn>>

\* A step of the pipe that video_sample calls.
VideoStep ==
    /\ InLoop /\ call.kind = "video"
    /\ \E part \in Parts : Runs(part)
    /\ i' = i + 1
    /\ UNCHANGED <<fixed, split, loaded, enabled, unet, pc, call, place, k, found, torn>>

\* The loop is through, interrupt_check raises, or a forward does.
LoopEnds ==
    /\ pc = "loop"
    /\ pc' = "finally"
    /\ UNCHANGED <<fixed, pipe, call, place, i, k, found, torn>>

\* set_attn_processor counts the attention layers below the unet, those of a
\* resampler too, and raises if their number is not that of the processors.
SetProcessors(u) == IF (u.proj = "resampler") = (found.proj = "resampler")
                    THEN [u EXCEPT !.procs = found.procs] ELSE u

\* Fault: the processors are restored while the projection is still in place.
RestoredFirst == LET u == SetProcessors(unet)
                 IN  IF u.procs = found.procs THEN found ELSE unet

\* The projection first, then the processors.
Restored == SetProcessors([unet EXCEPT !.proj = found.proj])

\* The finally clauses of sample and of video_sample.
Finally ==
    /\ pc = "finally"
    /\ pc' = "idle" /\ call' = NoCall /\ place' = <<>> /\ i' = 0 /\ k' = 0
    /\ unet' = IF call.ipa = "none" THEN unet ELSE Restored
    /\ enabled' = IF call.patches = {} THEN enabled ELSE {}
    /\ UNCHANGED <<fixed, onCard, split, loaded, found, torn>>

Next == \/ \E a \in Adapters : LoadLora(a)
        \/ \E n \in Nets : LoadNet(n)
        \/ Encode
        \/ \E patches \in SUBSET Adapters, ipa \in Ipas \cup {"none"}, chain \in Chains :
               SampleBegins(patches, ipa, chain)
        \/ \E patches \in SUBSET Adapters : VideoBegins(patches)
        \/ Plan \/ PlanRaises \/ Install \/ PrepareRaises \/ Enter
        \/ NetSkipped \/ NetGoes \/ NetMoveRaises \/ NetReturns \/ NetRaises
        \/ UnetStep \/ VideoStep \/ LoopEnds \/ Finally

Spec == Init /\ [][Next]_vars

-----------------------------------------------------------------------------
(* Properties. *)

\* Every variable holds a value of its kind; only loaded adapters are enabled.
TypeOK ==
    /\ hooked \in BOOLEAN /\ card \in Cards
    /\ onCard \subseteq Parts \cup Nets
    /\ split \subseteq onCard \cap Nets /\ torn \subseteq Nets
    /\ loaded \subseteq Adapters /\ enabled \subseteq loaded
    /\ unet \in [procs : {"own"} \cup Ipas, proj : {"own"} \cup Ipas]
    /\ found \in [procs : {"own"} \cup Ipas, proj : {"own"} \cup Ipas]
    /\ pc \in {"idle", "prepare", "ready", "loop", "net", "finally"}
    /\ call \in [kind : {"none", "sample", "video"}, patches : SUBSET loaded,
                 ipa : {"none"} \cup Ipas, chain : Chains \cup {<<>>}]
    /\ place \in Seq(BOOLEAN) /\ Placed <= Len(call.chain)
    /\ i \in 0 .. Steps /\ k \in 0 .. Len(call.chain) + 1

\* A call computes with its own patches and with nobody else's, whatever calls
\* before it have left enabled when they raised (ops.py:34).
StepUsesOwnPatches == pc \in {"loop", "net"} => enabled = call.patches

\* Between two occurrences of a ControlNet in a chain stands no other one.
Together(chain) ==
    \A j, l \in DOMAIN chain :
        chain[j].net = chain[l].net => \A m \in j .. l : chain[m].net = chain[j].net

\* No ControlNet occurs twice.
Once(chain) == \A j, l \in DOMAIN chain : chain[j].net = chain[l].net => j = l

\* A ControlNet is on the card when it runs (test_offload_parking.py:187), also
\* when the same one occurs twice in a chain and each occurrence was planned by
\* itself.
NetRunsOnCard == pc = "net" => call.chain[k].net \in onCard \ split

\* So it is unless another net stands between the occurrences; and a net that
\* was planned to stay leaves room for the unet, for the nets that come and go
\* and for the reserve, in every step (executions 795 and 796).  Both if no
\* move that broke off in an earlier call has left a net split: plan takes such
\* a net for one that is on the card.
PlacementFits ==
    pc = "net" /\ torn = {} =>
        /\ Together(call.chain) => NetRunsOnCard
        /\ (\E j \in DOMAIN place : ~place[j]) => MB(onCard \cup {"unet"}) + RESERVE <= card

\* A call that has reached its loop leaves the pipe as it was and without
\* adapters, however the loop ends (ops.py:849).  Of the nets that were placed
\* per step it leaves none on the card, but a part of the one whose move to the
\* card has raised (ops.py:497); and no other net that was not split before.
LoopLeavesNoTrace ==
    [][pc = "finally" =>
          /\ enabled' = {} /\ unet' = found
          /\ Once(call.chain) \/ (torn = {} /\ Together(call.chain)) =>
                \A j \in DOMAIN place :
                    place[j] => call.chain[j].net \notin onCard' \ split'
          /\ \A m, n \in split' \ torn : m = n]_vars

NamesResolve == ResolvesOnce(Names, Curves)
SpansAreRight == SpansHandOver(Most, Denoises)
RowsAreRight == RowsBelongTogether(Conds, Controls)
ImagesFit == UpscaleFits(Extents, Scales)

\* The pure parts of the operators do what they promise: see ResolvesOnce,
\* SpansHandOver, RowsBelongTogether and UpscaleFits.
InputsAreRight ==
    hooked \in BOOLEAN => NamesResolve /\ SpansAreRight /\ RowsAreRight /\ ImagesFit
=============================================================================
