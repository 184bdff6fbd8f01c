-------------------------------- MODULE Gate --------------------------------
(***************************************************************************)
(* The gate that serializes pipelines: GateQueue (app/lease.py) with the   *)
(* busy check of main.py over the register of leases and the job table.    *)
(*                                                                         *)
(* An execution polls POST /leases/acquire until it is granted, works      *)
(* (calls, one job at a time) and leaves, or falls silent.  acquire() runs *)
(* under GateQueue._lock, but its busy check reads the jobs first and the  *)
(* register afterwards, and both change meanwhile.  A client whose poll    *)
(* got no answer sends another; the first may still be served.             *)
(***************************************************************************)
EXTENDS LeaseBook, FiniteSets

CONSTANTS
    EntryTTL,  \* GATE_ENTRY_TTL
    Asks       \* the acquire requests of one client that may be under way

ASSUME EntryAssumption == EntryTTL \in Nat \ {0}

VARIABLES
    line,   \* GateQueue._queue: the waiting executions
    ahead,  \* per waiting execution: those before it in the queue
    since,  \* now - seen of each entry of the queue
    req,    \* per execution and request: sent, bound to the lease, or in the
            \* busy check, where it holds the lock of the gate
    snap,   \* the executions with a live job, as the busy check has read them
    phase,  \* per execution, its client: new, asking, in, or gone
    job,    \* the executions that have a pending or running job
    kept    \* history: admitted, and the lease has never lapsed since

gateVars == <<line, ahead, since, req, snap>>
vars == <<bookVars, gateVars, phase, job, kept>>

LockFree == \A l \in Leases, a \in Asks : req[l][a] # "check"

Init == /\ BookInit
        /\ line = {} /\ ahead = [l \in Leases |-> {}] /\ since = [l \in Leases |-> 0]
        /\ req = [l \in Leases |-> [a \in Asks |-> "none"]]
        /\ snap = {}
        /\ phase = [l \in Leases |-> "new"]
        /\ job = {} /\ kept = {}

(***************************************************************************)
(* POST /leases/acquire.                                                   *)
(***************************************************************************)

Step(l, a, from, to) ==
    /\ req[l][a] = from
    /\ req' = [req EXCEPT ![l][a] = to]

\* The client polls, and polls again if it has got no answer.
Ask(l, a) ==
    /\ phase[l] \in {"new", "asking"}
    /\ Step(l, a, "none", "sent")
    /\ phase' = [phase EXCEPT ![l] = "asking"]
    /\ UNCHANGED <<bookVars, line, ahead, since, snap, job, kept>>

\* _bind_lease.
AskTouch(l, a) ==
    /\ Step(l, a, "sent", "bound")
    /\ Touch(l, {})
    /\ UNCHANGED <<line, ahead, since, snap, phase, job, kept>>

\* Fault: an entry expires while its client still polls.
FreshEarly == {l \in line : since[l] + 1 < EntryTTL}

\* The entries that are still polled for.
Fresh == {l \in line : since[l] < EntryTTL}

\* Those before l once it has polled: its entry keeps its place, a new one is
\* the last.
AheadOf(l) == IF l \in Fresh THEN ahead[l] \cap Fresh ELSE Fresh

\* The queue keeps the entries in stay, in their order.
Keep(stay) == /\ line' = stay
              /\ ahead' = [k \in Leases |-> IF k \in stay THEN ahead[k] \cap stay ELSE {}]

Seen(l) == since' = [k \in Leases |-> IF k \in Fresh \ {l} THEN since[k] ELSE 0]

\* Fault: the place of a new entry counts those that have expired.
EnterStale(l) ==
    /\ line' = Fresh \cup {l}
    /\ ahead' = [k \in Leases |-> IF k = l THEN (IF l \in Fresh THEN ahead[l] ELSE line)
                                  ELSE IF k \in Fresh THEN ahead[k] \cap Fresh ELSE {}]
    /\ Seen(l)

\* A poll of l: what has expired goes, the entry of l is refreshed or made.
Enter(l) ==
    /\ line' = Fresh \cup {l}
    /\ ahead' = [k \in Leases |-> IF k = l THEN AheadOf(l)
                                  ELSE IF k \in Fresh THEN ahead[k] \cap Fresh ELSE {}]
    /\ Seen(l)

\* Somebody is ahead.
GateQueued(l, a) ==
    /\ LockFree /\ AheadOf(l) # {}
    /\ Step(l, a, "bound", "none")
    /\ Enter(l)
    /\ UNCHANGED <<bookVars, snap, phase, job, kept>>

\* At the head: the busy check begins, with jobman.list().
GateCheck(l, a) ==
    /\ LockFree /\ AheadOf(l) = {}
    /\ Step(l, a, "bound", "check")
    /\ Enter(l)
    /\ snap' = job
    /\ UNCHANGED <<bookVars, phase, job, kept>>

\* gate.behind: those who have not been admitted yet, unless they have a job.
Parked(l) == (line \ {l}) \ snap

\* Fault: whoever waits in the queue with a lease counts as a holder.
OthersAll(l) == open \ (Stale(job) \cup {l})

\* Fault: only jobs count.
OthersNone(l) == {}

\* The leases of others, after the sweep of leases.view().
Others(l) == open \ (Stale(job) \cup {l} \cup Parked(l))

\* The sweep inside the check; a lease that lapses is not kept.
SweepAll == Sweep(job) /\ kept' = kept \ Stale(job)

Busy(l) == Others(l) # {} \/ snap \ {l} # {}

GateBusy(l, a) ==
    /\ Step(l, a, "check", "none") /\ Busy(l)
    /\ snap' = {} /\ SweepAll
    /\ UNCHANGED <<line, ahead, since, phase, job>>

\* The head of the queue leaves it: l, since the lock is held.
Admit(l, a) == /\ Step(l, a, "check", "none") /\ ~Busy(l)
               /\ Keep(line \ {l}) /\ since' = [since EXCEPT ![l] = 0]
               /\ snap' = {} /\ Sweep(job)
               /\ UNCHANGED job

\* The answer reaches a client that waits for it.
GateGrant(l, a) ==
    /\ Admit(l, a)
    /\ phase[l] = "asking"
    /\ phase' = [phase EXCEPT ![l] = "in"]
    /\ kept' = (kept \ Stale(job)) \cup {l}

\* The answer is lost, or comes too late.
GrantLost(l, a) ==
    /\ Admit(l, a)
    /\ kept' = kept \ Stale(job)
    /\ UNCHANGED phase

(***************************************************************************)
(* Executions that were admitted.                                          *)
(***************************************************************************)

\* A synchronous call or the poll of a job.
Call(l) ==
    /\ phase[l] = "in"
    /\ Touch(l, {})
    /\ UNCHANGED <<gateVars, phase, job, kept>>

\* POST /jobs renews the lease; the job exists before time passes.
Submit(l) ==
    /\ phase[l] = "in" /\ l \notin job
    /\ Touch(l, {})
    /\ job' = job \cup {l}
    /\ UNCHANGED <<gateVars, phase, kept>>

\* The heartbeat of a job revives no lease.
Heartbeat(l) ==
    /\ l \in job
    /\ TouchExisting(l)
    /\ UNCHANGED <<gateVars, phase, job, kept>>

JobEnds(l) ==
    /\ l \in job
    /\ job' = job \ {l}
    /\ UNCHANGED <<bookVars, gateVars, phase, kept>>

\* The last node of the pipeline releases the lease.
Leave(l) ==
    /\ phase[l] = "in" /\ l \notin job
    /\ phase' = [phase EXCEPT ![l] = "gone"]
    /\ Release(l) \/ (l \notin open /\ UNCHANGED bookVars)
    /\ kept' = kept \ {l}
    /\ UNCHANGED <<gateVars, job>>

\* The client is cancelled or killed, waiting or admitted.
Vanish(l) ==
    /\ phase[l] \in {"asking", "in"}
    /\ phase' = [phase EXCEPT ![l] = "gone"]
    /\ kept' = kept \ {l}
    /\ UNCHANGED <<bookVars, gateVars, job>>

\* The monitor page releases the lease of an execution that has ended.
CleanUp(l) ==
    /\ phase[l] = "gone"
    /\ Release(l)
    /\ UNCHANGED <<gateVars, phase, job, kept>>

\* Any other reader of the register.
Sweeper ==
    /\ Stale(job) # {} /\ SweepAll
    /\ UNCHANGED <<gateVars, phase, job>>

\* GET /leases drops the entries that have expired.
GateView ==
    /\ LockFree /\ Fresh # line
    /\ Keep(Fresh)
    /\ since' = [l \in Leases |-> IF l \in Fresh THEN since[l] ELSE 0]
    /\ UNCHANGED <<bookVars, req, snap, phase, job, kept>>

\* A check takes no time, nor does a request between its touch and the lock,
\* and a client that waits polls more often than its entry expires.
InTime ==
    \A l \in Leases :
        /\ \A a \in Asks : req[l][a] \notin {"bound", "check"}
        /\ phase[l] = "asking" /\ l \in line => since[l] + 1 < EntryTTL

Tick ==
    /\ InTime
    /\ (\E l \in open : age[l] < OldAge) \/ (\E l \in line : since[l] < EntryTTL)
    /\ Elapse
    /\ since' = [l \in Leases |-> IF l \in line /\ since[l] < EntryTTL
                                  THEN since[l] + 1 ELSE since[l]]
    /\ UNCHANGED <<line, ahead, req, snap, phase, job, kept>>

Next == \/ \E l \in Leases, a \in Asks :
               \/ Ask(l, a) \/ AskTouch(l, a) \/ GateQueued(l, a) \/ GateCheck(l, a)
               \/ GateBusy(l, a) \/ GateGrant(l, a) \/ GrantLost(l, a)
        \/ \E l \in Leases :
               \/ Call(l) \/ Submit(l) \/ Heartbeat(l) \/ JobEnds(l)
               \/ Leave(l) \/ Vanish(l) \/ CleanUp(l)
        \/ Sweeper \/ GateView \/ Tick

Spec == Init /\ [][Next]_vars

(***************************************************************************)
(* Fairness: requests are served (strong: the lock is free again and again *)
(* and the queue moves), a waiting client goes on polling, answers are not *)
(* lost for ever, jobs end, and an admitted client ends in one way or      *)
(* another.                                                                *)
(***************************************************************************)
Fairness ==
    /\ \A l \in Leases, a \in Asks :
           /\ WF_vars(phase[l] = "asking" /\ Ask(l, a)) /\ WF_vars(AskTouch(l, a))
           /\ SF_vars(GateQueued(l, a)) /\ SF_vars(GateCheck(l, a))
           /\ WF_vars(GateBusy(l, a) \/ GrantLost(l, a))
           /\ SF_vars(GateGrant(l, a))
    /\ \A l \in Leases : /\ WF_vars(JobEnds(l))
                         /\ WF_vars(phase[l] = "in" /\ (Leave(l) \/ Vanish(l)))

FairSpec == Spec /\ Fairness

-----------------------------------------------------------------------------
(* Properties. *)

\* Every variable holds a value of its kind, the places in the queue are a
\* total order, and one request at most is in the check, of the head.
TypeOK ==
    /\ BookTypeOK
    /\ line \subseteq Leases /\ ahead \in [Leases -> SUBSET line]
    /\ \A l \in Leases : l \notin ahead[l] /\ (l \notin line => ahead[l] = {})
    /\ \A k, l \in line : k # l => (k \in ahead[l] <=> l \notin ahead[k])
    /\ \A l \in Leases : \A k \in ahead[l] : ahead[k] \subseteq ahead[l]
    /\ since \in [Leases -> 0 .. EntryTTL]
    /\ req \in [Leases -> [Asks -> {"none", "sent", "bound", "check"}]]
    /\ \A l \in Leases, a \in Asks :
           req[l][a] = "check" =>
               /\ l \in line /\ ahead[l] = {}
               /\ \A k \in Leases, b \in Asks : req[k][b] = "check" => k = l /\ b = a
    /\ snap \subseteq Leases /\ job \subseteq Leases /\ kept \subseteq Leases
    /\ phase \in [Leases -> {"new", "asking", "in", "gone"}]

\* Two pipelines never load models side by side: of the executions that were
\* admitted and whose lease has not lapsed since, at most one is at work,
\* although the check reads jobs and leases at different moments and leaves
\* out whoever is queued behind.
GateIsExclusive == Cardinality(kept) <= 1

\* Who came first stays first: a client that keeps polling is ahead of those
\* that came after it until it is admitted, whoever polls, joins, expires or is
\* admitted meanwhile.
PlaceIsKept ==
    [][\A k, l \in line :
          k \in ahead[l] /\ phase[k] = "asking" /\ l \in line'
              => k \in ahead'[l] \/ (\E a \in Asks : Admit(k, a))]_vars

\* Nobody waits for ever: not for executions queued behind it, which wait
\* for it (the deadlock of executions 1130 and 1131), not for the entry of a
\* client that was killed, nor for its lease.  Time passes: clients do not
\* poll without end in one unit of it.
EveryWaiterEnters ==
    []<><<Tick>>_vars => \A l \in Leases : phase[l] = "asking" ~> phase[l] # "asking"
=============================================================================
