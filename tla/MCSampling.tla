------------------------------ MODULE MCSampling ------------------------------
(* Instances of Sampling for TLC: cards on which a pipe fits with no net,   *)
(* with the small one, with the large one, and with both; and the inputs   *)
(* over which SampleInputs is checked.                                     *)
EXTENDS Sampling, TLC

CONSTANTS big, small

Sizes == [m \in Parts \cup Nets |->
            IF m = "unet" THEN 20 ELSE IF m = big THEN 14 ELSE IF m = small THEN 6 ELSE 4]

\* From one to three nets, one of them in the second half only, and the same net
\* twice, next to each other.
SomeChains ==
    LET one(n, from) == controlnet_apply(n, from, 100, <<>>)
        then(chain, n, from) == controlnet_apply(n, from, 100, chain)
    IN  {Windows(chain, Steps) :
            chain \in {<<>>, one(big, 0), then(one(big, 0), small, 50), then(one(small, 0), big, 0),
                       then(one(big, 50), big, 0), then(then(one(small, 0), small, 0), big, 0)}}

\* The same net twice, before and after another one.
AgainChains ==
    LET then(chain, n) == controlnet_apply(n, 0, 100, chain)
    IN  {Windows(then(then(then(<<>>, small), big), small), Steps)}

\* What each kind of COND may hold; a plain tensor may be of another length.
Areas == BoundedSeq({"none", "inside", "outside"}, 2)
AllConds ==
    [kind : {"tensor", "sdxl"}, areas : {<<"none">>}, weight : {1}, tokens : {77, 154},
     pooleds : {1}]
    \cup [kind : {"segments", "sdxl segments"}, areas : Areas, weight : {1, 2},
          tokens : {77}, pooleds : 0 .. 2]
    \cup [kind : {"dict"}, areas : {<<"none">>}, weight : {1}, tokens : {77}, pooleds : {1}]

AllNames == SAMPLERS \cup {Legacy, "other"}
AllCurves == SCHEDULES \cup {"", "other"}
===============================================================================
