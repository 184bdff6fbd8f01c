---------------------------- MODULE SampleInputs ----------------------------
(***************************************************************************)
(* What sample of app/ops.py makes of its inputs before it runs a step:    *)
(* the sampler, the span of steps, the windows of ControlNets, and the     *)
(* forwards of the unet with everything that goes with each of their rows. *)
(***************************************************************************)
EXTENDS Integers, Sequences, FiniteSets, SequencesExt

Refused == [refused |-> TRUE]

\* Python's round of num / den.
Rounded(num, den) ==
    LET q == num \div den  r == 2 * (num % den)
    IN  IF r < den \/ (r = den /\ q % 2 = 0) THEN q ELSE q + 1

(***************************************************************************)
(* resolve_sampler: the update rule and the curve of sigmas.               *)
(***************************************************************************)

SAMPLERS == {"euler", "euler_a", "ddim", "lms", "dpmpp_2m", "dpmpp_2m_sde", "uni_pc"}
SCHEDULES == {"normal", "karras", "exponential", "beta"}
Legacy == "dpmpp_2m_karras"

supported_schedules(s) == IF s \in {"euler_a", "ddim"} THEN {"normal"} ELSE SCHEDULES

\* Fault: the legacy name fixes the curve, whatever the caller says.
CurveOfName(s, c) == IF s = Legacy THEN "karras" ELSE IF c = "" THEN "normal" ELSE c

\* A legacy name chooses the curve only if the caller has chosen none.
Curve(s, c) == IF s = Legacy /\ c \in {"", "normal"} THEN "karras"
               ELSE IF c = "" THEN "normal" ELSE c

resolve_sampler(s, c) ==
    LET base == IF s = Legacy THEN "dpmpp_2m" ELSE s
    IN  IF base \in SAMPLERS /\ Curve(s, c) \in SCHEDULES
             /\ Curve(s, c) \in supported_schedules(base)
        THEN [sampler |-> base, curve |-> Curve(s, c)] ELSE Refused

(***************************************************************************)
(* resolve_span: the timesteps that a call runs, of all that the schedule  *)
(* has.  denoise is given in hundredths.                                   *)
(***************************************************************************)

\* Fault: an early end is inclusive.
EndAfter(steps, end_at) == IF end_at <= 0 \/ end_at >= steps THEN steps ELSE end_at + 1

End(steps, end_at) == IF end_at <= 0 \/ end_at >= steps THEN steps ELSE end_at

Start(steps, denoise, start_at) ==
    LET wanted == IF start_at > 0 THEN start_at
                  ELSE IF denoise = 100 THEN 0
                  ELSE Rounded(steps * (100 - denoise), 100)
    IN  IF wanted < steps THEN wanted ELSE steps - 1

resolve_span(steps, denoise, start_at, end_at) ==
    IF steps < 1 \/ End(steps, end_at) <= Start(steps, denoise, start_at) THEN Refused
    ELSE [start |-> Start(steps, denoise, start_at), end |-> End(steps, end_at)]

(***************************************************************************)
(* controlnet_apply, and the window of a bundle in a span of n steps; the  *)
(* limits are given in hundredths.                                         *)
(***************************************************************************)

controlnet_apply(net, from, to, chain) ==
    IF 0 <= from /\ from < to /\ to <= 100
    THEN Append(chain, [net |-> net, from |-> from, to |-> to]) ELSE Refused

Windows(chain, n) ==
    [j \in DOMAIN chain |-> [net |-> chain[j].net, lo |-> Rounded(chain[j].from * n, 100),
                                                   hi |-> Rounded(chain[j].to * n, 100)]]

(***************************************************************************)
(* Conditioning.  A COND has a kind, the area of each segment (none, inside *)
(* or outside the latent), a weight, a length in tokens, and a number of   *)
(* pooled embeddings.  The tensors of segment n of a side are <<side, n>>. *)
(***************************************************************************)

\* as_cond_segments
Refuses(c) == c.kind = "dict" \/ c.areas = <<>>

Segments(side, c) == [n \in DOMAIN c.areas |-> <<side, n>>]

\* cond_pooleds; <<>> stands for None.
Pooleds(side, c) ==
    IF c.kind = "sdxl" \/ (c.kind = "sdxl segments" /\ c.pooleds = Len(c.areas))
    THEN Segments(side, c) ELSE <<>>

IsPlain(c) == c.areas = <<"none">> /\ c.weight = 1

Mode(pos, neg) == IF ~IsPlain(pos) \/ ~IsPlain(neg) THEN "area"
                  ELSE IF pos.tokens # neg.tokens THEN "split" ELSE "cat"

Accepted(pos, neg, control) ==
    /\ ~Refuses(pos) /\ ~Refuses(neg)
    /\ control # "none" => Mode(pos, neg) # "area"
    /\ \A c \in {pos, neg} : \A n \in DOMAIN c.areas : c.areas[n] # "outside"
    /\ (Pooleds("pos", pos) = <<>>) <=> (Pooleds("neg", neg) = <<>>)

\* Fault: the positive side comes first.
CatReversed(neg, pos) == IF neg = <<>> THEN <<>> ELSE <<pos[1], neg[1]>>

\* Two halves of a batch; nothing, if there is nothing.
Cat(neg, pos) == IF neg = <<>> THEN <<>> ELSE <<neg[1], pos[1]>>

\* build_sdxl_added, the image features of an IPAdapter and the face tokens of
\* InstantID: what goes with the rows of a forward of one segment, and with
\* those of the batch of both sides.  Images and tokens belong to a side.
OfSide(side, present) == IF present THEN <<side>> ELSE <<>>

OneSegment(side, n, c, control, ipa) ==
    [hidden |-> <<Segments(side, c)[n]>>,
     text   |-> IF Pooleds(side, c) = <<>> THEN <<>> ELSE <<Pooleds(side, c)[n]>>,
     image  |-> OfSide(side, ipa),
     tokens |-> OfSide(side, control = "instantid")]

BothSides(pos, neg, control, ipa) ==
    [hidden |-> << <<"neg", 1>>, <<"pos", 1>> >>,
     text   |-> Cat(Pooleds("neg", neg), Pooleds("pos", pos)),
     image  |-> Cat(OfSide("neg", ipa), OfSide("pos", ipa)),
     tokens |-> Cat(OfSide("neg", control = "instantid"), OfSide("pos", control = "instantid"))]

\* The forwards of one step, in their order.
Forwards(pos, neg, control, ipa) ==
    IF Mode(pos, neg) = "cat" THEN <<BothSides(pos, neg, control, ipa)>>
    ELSE [n \in DOMAIN neg.areas |-> OneSegment("neg", n, neg, control, ipa)]
         \o [n \in DOMAIN pos.areas |-> OneSegment("pos", n, pos, control, ipa)]

(***************************************************************************)
(* image_upscale: to a size, or by a factor in hundredths.                 *)
(***************************************************************************)

\* Fault: up to the next multiple.
AlignedUp(x) == ((x + 7) \div 8) * 8

Aligned(x) == IF x < 8 THEN 8 ELSE (x \div 8) * 8

image_upscale(w, h, scale, width, height) ==
    IF width > 0 /\ height > 0 THEN <<Aligned(width), Aligned(height)>>
    ELSE IF scale <= 0 THEN Refused
    ELSE <<Aligned(Rounded(w * scale, 100)), Aligned(Rounded(h * scale, 100))>>

-----------------------------------------------------------------------------
(* What the functions promise, over sets of inputs. *)

\* sample resolves the names and make_scheduler resolves the result again: the
\* second time changes nothing and refuses nothing, and a curve that the caller
\* has chosen is the one he gets (samplers.py:14).
ResolvesOnce(names, curves) ==
    \A s \in names, c \in curves :
        LET r == resolve_sampler(s, c)
        IN  r # Refused => /\ resolve_sampler(r.sampler, r.curve) = r
                           /\ c \notin {"", "normal"} => r.curve = c

\* Calls that hand a latent on run every step of the schedule once: one that
\* ends at step m, and one that starts there, whatever its denoise.  A span is
\* never empty, and denoise picks the start nearest to it (ops.py:626).
SpansHandOver(most, denoises) ==
    \A steps \in 1 .. most, denoise \in denoises :
        /\ \A m \in 1 .. steps - 1 :
              /\ resolve_span(steps, 100, 0, m) = [start |-> 0, end |-> m]
              /\ resolve_span(steps, denoise, m, 0) = [start |-> m, end |-> steps]
              /\ m > 1 => resolve_span(steps, denoise, m - 1, m) = [start |-> m - 1, end |-> m]
        /\ LET start == resolve_span(steps, denoise, 0, 0).start
               off == 100 * start - steps * (100 - denoise)
           IN  start \in 0 .. steps - 1 /\ (off \in -50 .. 50 \/ start = steps - 1)

\* Each row of a forward carries the pooled embedding of its own segment, the
\* image features and the face tokens of its own side, or none at all; the
\* halves of a batch are negative, positive, as chunk(2) takes them apart; and
\* every segment of both sides has its row (ops.py:233).
RowsBelongTogether(conds, controls) ==
    \A pos, neg \in conds, control \in controls, ipa \in BOOLEAN :
        Accepted(pos, neg, control) =>
            LET F == Forwards(pos, neg, control, ipa)
                Of(seg) == {f \in DOMAIN F : \E r \in DOMAIN F[f].hidden : F[f].hidden[r] = seg}
            IN  /\ \A seg \in Range(Segments("neg", neg) \o Segments("pos", pos)) :
                      Cardinality(Of(seg)) = 1
                /\ \A f \in DOMAIN F :
                      LET h == F[f].hidden
                          sides == [r \in DOMAIN h |-> h[r][1]]
                      IN  /\ sides \in {<<"neg">>, <<"pos">>, <<"neg", "pos">>}
                          /\ F[f].text = IF Pooleds("neg", neg) = <<>> THEN <<>> ELSE h
                          /\ F[f].image = IF ipa THEN sides ELSE <<>>
                          /\ F[f].tokens = IF control = "instantid" THEN sides ELSE <<>>

\* An upscaled image can be encoded (its sides are multiples of 8, not 0) and
\* is never larger than what was asked for, unless that is below 8.
UpscaleFits(sizes, scales) ==
    \A w, h \in sizes, scale \in scales, width, height \in sizes \cup {0} :
        LET r == image_upscale(w, h, scale, width, height)
        IN  \A d \in {1, 2} :
              LET asked == IF width > 0 /\ height > 0 THEN <<width, height>>[d]
                           ELSE Rounded(<<w, h>>[d] * scale, 100)
              IN  r[d] % 8 = 0 /\ r[d] > 0 /\ (r[d] <= asked \/ r[d] = 8)
=============================================================================
