---------------------------- MODULE SerialQueue ----------------------------
(***************************************************************************)
(* What the job system (jobs.py) promises, without threads, tables or      *)
(* status fields: jobs wait in line, one at a time is served, in order,    *)
(* and a job may be passed over only if somebody asked for it to stop.     *)
(***************************************************************************)
EXTENDS Naturals, Sequences

CONSTANTS Jobs, NoJob

VARIABLES
    line,    \* the jobs waiting, first in line first
    active,  \* the job being served, or NoJob
    asked,   \* the jobs somebody asked to stop
    fate     \* per job: none, waiting, active, ran or skipped

vars == <<line, active, asked, fate>>

Init == /\ line = <<>> /\ active = NoJob /\ asked = {}
        /\ fate = [j \in Jobs |-> "none"]

Join(j) == /\ fate[j] = "none"
           /\ fate' = [fate EXCEPT ![j] = "waiting"]
           /\ line' = Append(line, j)
           /\ UNCHANGED <<active, asked>>

Ask(j) == /\ asked' = asked \cup {j}
          /\ UNCHANGED <<line, active, fate>>

Begin == /\ line # <<>> /\ active = NoJob
         /\ active' = Head(line) /\ line' = Tail(line)
         /\ fate' = [fate EXCEPT ![Head(line)] = "active"]
         /\ UNCHANGED asked

Skip == /\ line # <<>> /\ active = NoJob /\ Head(line) \in asked
        /\ line' = Tail(line)
        /\ fate' = [fate EXCEPT ![Head(line)] = "skipped"]
        /\ UNCHANGED <<active, asked>>

End == /\ active # NoJob
       /\ active' = NoJob
       /\ fate' = [fate EXCEPT ![active] = "ran"]
       /\ UNCHANGED <<line, asked>>

Serve == Begin \/ Skip \/ End

Next == Serve \/ \E j \in Jobs : Join(j) \/ Ask(j)

Spec == Init /\ [][Next]_vars

FairSpec == Spec /\ WF_vars(Serve)
=============================================================================
