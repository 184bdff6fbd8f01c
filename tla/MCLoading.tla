------------------------------ MODULE MCLoading ------------------------------
(* Instances of Loading for TLC: a large and a small checkpoint, the name  *)
(* of the small one part of the other's, and a ControlNet; two pipes do    *)
(* not fit on the card.                                                    *)
EXTENDS Loading, TLC

CONSTANTS sd, sdxl, net

ThreeFiles == {sd, sdxl, net}
Kinds == [n \in ThreeFiles |-> IF n = net THEN "controlnet" ELSE "checkpoint"]
Weights == [n \in ThreeFiles |-> CASE n = sdxl -> 7 [] n = sd -> 3 [] n = net -> 2]
Similar == [n \in ThreeFiles |-> IF n = sd THEN {sd, sdxl} ELSE {n}]

ask(loader, name, dtype, offload) ==
    [loader |-> loader, name |-> name, dtype |-> dtype, offload |-> offload]
SomeAsks == {ask("pipe", sdxl, "auto", "auto"), ask("pipe", sd, "fp16", "auto"),
             ask("pipe", net, "auto", "auto"), ask("cn", net, "auto", "auto"),
             ask("motion", sd, "auto", "auto")}

set(knob, value) == [knob |-> knob, value |-> value]
SomePatches == {<<set("strict", 1)>>, <<set("strict", 0), set("floor", 99)>>}

UpTo(k) == UNION {kSubset(n, KeyPrefixes) : n \in 0 .. k}
UpToThree == UpTo(3)
UpToOne == UpTo(1)

Either == Permutations(Executions)
===============================================================================
