----------------------------- MODULE LeasedJobs -----------------------------
(***************************************************************************)
(* Leases and jobs together: who renews a lease, who may take it away, and *)
(* how a job finds out that its execution was given up (B2, R3).           *)
(*                                                                         *)
(* Four kinds of threads meet here: request threads (POST /jobs, the poll  *)
(* GET /jobs/{id}, DELETE /leases/{id}, POST /interrupt), the pump thread  *)
(* of each /ws connection, the job worker with the engine running in it,   *)
(* and whoever reads the register, which sweeps it.  The job queue itself  *)
(* is taken by what it promises, SerialQueue (JobQueue implements it), a   *)
(* job ending where the worker writes its final status; the register of    *)
(* leases is LeaseBook.                                                    *)
(***************************************************************************)
EXTENDS LeaseBook, Sequences

CONSTANTS
    Jobs, NoJob,
    LeaseOf,   \* [Jobs -> Leases]: the X-FlowX-Lease header of the submit
    Watched    \* bound: the jobs for which a client opens /ws

ASSUME NoJobAssumption == NoJob \notin Jobs
ASSUME LeaseOfAssumption == LeaseOf \in [Jobs -> Leases]
ASSUME WatchedAssumption == Watched \subseteq Jobs

VARIABLES
    line, active, asked, fate,  \* the job queue; asked: cancel_event is set
    sub,       \* per job: how far its POST /jobs has come
    epc,       \* where the engine is with the active job
    client,    \* per lease: the execution's client is here, or gone
    released,  \* leases removed by DELETE, no request of the client since
    ws         \* per job: its /ws pump thread

queueVars == <<line, active, asked, fate>>
vars == <<bookVars, queueVars, sub, epc, client, released, ws>>

Queue == INSTANCE SerialQueue

\* The job may be pending or running: it has not left the queue, or runs.
\* Without an interrupt it is; an interrupted one may read `cancelled' from
\* the interrupt on, waiting or not (JobQueue, InterruptMark).
LiveJob(j) == fate[j] \in {"waiting", "active"}
SureJob(j) == LiveJob(j) /\ j \notin asked

Init == /\ BookInit /\ Queue!Init
        /\ sub = [j \in Jobs |-> "new"]
        /\ epc = "idle"
        /\ client = [l \in Leases |-> "here"]
        /\ released = {}
        /\ ws = [j \in Jobs |-> "off"]

(***************************************************************************)
(* Request threads.                                                        *)
(***************************************************************************)

\* submit_job: _bind_lease renews the lease before the job exists.
SubmitTouch(j) ==
    /\ sub[j] = "new" /\ client[LeaseOf[j]] = "here"
    /\ sub' = [sub EXCEPT ![j] = "touched"]
    /\ Touch(LeaseOf[j], {})
    /\ released' = released \ {LeaseOf[j]}
    /\ UNCHANGED <<queueVars, epc, client, ws>>

\* jobman.submit, with the lease in the job.
SubmitJob(j) ==
    /\ sub[j] = "touched"
    /\ sub' = [sub EXCEPT ![j] = "sent"]
    /\ Queue!Join(j)
    /\ UNCHANGED <<bookVars, epc, client, released, ws>>

\* get_job: the poll of a client counts as activity of its lease.
Poll(l) ==
    /\ client[l] = "here"
    /\ \E j \in Jobs : LeaseOf[j] = l /\ sub[j] = "sent"
    /\ Touch(l, {})
    /\ released' = released \ {l}
    /\ UNCHANGED <<queueVars, sub, epc, client, ws>>

Interrupt(j) ==
    /\ sub[j] = "sent"
    /\ Queue!Ask(j)
    /\ UNCHANGED <<bookVars, sub, epc, client, released, ws>>

\* release_lease: from the execution's last node, or from the monitor page.
ReleaseLease(l) ==
    /\ Release(l)
    /\ released' = released \cup {l}
    /\ UNCHANGED <<queueVars, sub, epc, client, ws>>

\* The client's process ends or is killed; its requests have been answered.
Vanish(l) ==
    /\ client[l] = "here"
    /\ \A j \in Jobs : LeaseOf[j] = l => sub[j] # "touched"
    /\ client' = [client EXCEPT ![l] = "gone"]
    /\ UNCHANGED <<bookVars, queueVars, sub, epc, released, ws>>

(***************************************************************************)
(* The pump thread of /ws?job_id=j: _renew_lease reads the job's status    *)
(* and then, in a second step, touches the lease.                          *)
(***************************************************************************)

WsOpen(j) ==
    /\ j \in Watched /\ ws[j] = "off" /\ sub[j] = "sent" /\ client[LeaseOf[j]] = "here"
    /\ ws' = [ws EXCEPT ![j] = "on"]
    /\ UNCHANGED <<bookVars, queueVars, sub, epc, client, released>>

\* Fault: the pump renews the lease whatever has become of the job.
WsReadAlways(j) ==
    /\ ws[j] = "on"
    /\ ws' = [ws EXCEPT ![j] = "due"]
    /\ UNCHANGED <<bookVars, queueVars, sub, epc, client, released>>

WsRead(j) ==
    /\ ws[j] = "on" /\ LiveJob(j)
    /\ ws' = [ws EXCEPT ![j] = "due"]
    /\ UNCHANGED <<bookVars, queueVars, sub, epc, client, released>>

WsTouch(j) ==
    /\ ws[j] = "due"
    /\ ws' = [ws EXCEPT ![j] = "on"]
    /\ Touch(LeaseOf[j], {})
    /\ UNCHANGED <<queueVars, sub, epc, client, released>>

\* The disconnect is noticed when a send fails.
WsClose(j) ==
    /\ ws[j] = "on"
    /\ ws' = [ws EXCEPT ![j] = "off"]
    /\ UNCHANGED <<bookVars, queueVars, sub, epc, client, released>>

(***************************************************************************)
(* The worker and the engine: run_graph checks the cancel flag, reports    *)
(* the stage (a heartbeat) and pins the operator's models, node by node;   *)
(* run_op reports and pins without a check.                                *)
(***************************************************************************)

\* The worker takes the next job and enters run_graph or run_op.
WorkerBegin ==
    /\ Queue!Begin
    /\ epc' \in {"check", "beat"}
    /\ UNCHANGED <<bookVars, sub, client, released, ws>>

WorkerSkip ==
    /\ Queue!Skip
    /\ UNCHANGED <<bookVars, sub, epc, client, released, ws>>

RunEnds == /\ Queue!End /\ epc' = "idle"
           /\ UNCHANGED <<bookVars, sub, client, released, ws>>

\* execution.check_cancelled between two nodes.
EngineCheck ==
    /\ epc = "check" /\ active \notin asked
    /\ epc' = "beat"
    /\ UNCHANGED <<bookVars, queueVars, sub, client, released, ws>>

EngineCancelled == epc \in {"check", "op"} /\ active \in asked /\ RunEnds

\* Job._touch_lease: a released lease is not revived, the job cancels itself.
Heartbeat ==
    /\ TouchExisting(LeaseOf[active])
    /\ asked' = IF LeaseOf[active] \in open THEN asked ELSE asked \cup {active}
    /\ UNCHANGED <<line, active, fate, sub, client, released, ws>>

EngineStage == epc = "beat" /\ epc' = "pin" /\ Heartbeat

\* set_progress: a step of the sampler.
EngineProgress == epc = "op" /\ UNCHANGED epc /\ Heartbeat

\* pin_objects: an operator with a resident model among its inputs renews
\* the lease of the thread, and registers it if it is not registered.
EnginePin ==
    /\ epc = "pin" /\ epc' = "op"
    /\ Touch(LeaseOf[active], {}) \/ UNCHANGED bookVars
    /\ UNCHANGED <<queueVars, sub, client, released, ws>>

\* _attribute: a loader that has found or loaded its model does the same.
EngineAttribute ==
    /\ epc = "op" /\ UNCHANGED epc
    /\ Touch(LeaseOf[active], {})
    /\ UNCHANGED <<queueVars, sub, client, released, ws>>

EngineNextNode ==
    /\ epc = "op" /\ epc' = "check"
    /\ UNCHANGED <<bookVars, queueVars, sub, client, released, ws>>

\* The last operator returns, or any step of the run raises.
EngineEnds == epc # "idle" /\ RunEnds

Engine == \/ EngineCheck \/ EngineCancelled \/ EngineStage \/ EngineProgress
          \/ EnginePin \/ EngineAttribute \/ EngineNextNode \/ EngineEnds

(***************************************************************************)
(* Sweeps and time.                                                        *)
(***************************************************************************)

\* active_leases: the leases of the jobs that read pending or running.
Snapshot == {LeaseOf[j] : j \in {i \in Jobs : SureJob(i)}}
Snapshots == {Snapshot \cup {LeaseOf[j] : j \in some} :
                 some \in SUBSET {i \in asked : LiveJob(i)}}

\* Whoever reads the register: /leases, the gate, a load or an unload, the
\* object store, and auto-reclaim every minute.
Sweeper ==
    /\ \E busy \in Snapshots : Stale(busy) # {} /\ Sweep(busy)
    /\ UNCHANGED <<queueVars, sub, epc, client, released, ws>>

\* A request is between its touch and its submit for no longer than the idle
\* limit, and a client that is here lets no TTL pass without a poll.
InTime ==
    \A j \in Jobs :
        /\ sub[j] = "touched" /\ IdleRelease > 0 => age[LeaseOf[j]] < IdleRelease
        /\ sub[j] = "touched" \/ (LiveJob(j) /\ client[LeaseOf[j]] = "here")
           => age[LeaseOf[j]] < TTL

Tick ==
    /\ InTime
    /\ \E l \in open : age[l] < OldAge
    /\ Elapse
    /\ UNCHANGED <<queueVars, sub, epc, client, released, ws>>

Next == \/ \E j \in Jobs : \/ SubmitTouch(j) \/ SubmitJob(j) \/ Interrupt(j)
                           \/ WsOpen(j) \/ WsRead(j) \/ WsTouch(j) \/ WsClose(j)
        \/ \E l \in Leases : Poll(l) \/ ReleaseLease(l) \/ Vanish(l)
        \/ WorkerBegin \/ WorkerSkip \/ Engine
        \/ Sweeper \/ Tick

Spec == Init /\ [][Next]_vars

(***************************************************************************)
(* Fairness: the server's threads are scheduled, the auto-reclaim thread   *)
(* sweeps again and again, time passes, and a run ends because its graph   *)
(* has finitely many nodes (strong: an operator is reached over and over). *)
(* Clients owe nothing; that a connection of a gone client is noticed is   *)
(* the ping every 30 seconds.                                              *)
(***************************************************************************)
Fairness ==
    /\ WF_vars(WorkerBegin \/ WorkerSkip)
    /\ SF_vars(EngineEnds)
    /\ WF_vars(Sweeper) /\ WF_vars(Tick)
    /\ \A j \in Jobs : /\ WF_vars(SubmitJob(j)) /\ WF_vars(WsTouch(j))
                       /\ WF_vars(client[LeaseOf[j]] = "gone" /\ WsClose(j))

FairSpec == Spec /\ Fairness

-----------------------------------------------------------------------------
(* Properties. *)

\* Every variable holds a value of its kind.
TypeOK ==
    /\ BookTypeOK
    /\ line \in Seq(Jobs) /\ active \in Jobs \cup {NoJob} /\ asked \subseteq Jobs
    /\ fate \in [Jobs -> {"none", "waiting", "active", "ran", "skipped"}]
    /\ sub \in [Jobs -> {"new", "touched", "sent"}]
    /\ epc \in {"idle", "check", "beat", "pin", "op"}
    /\ client \in [Leases -> {"here", "gone"}]
    /\ released \subseteq Leases
    /\ ws \in [Jobs -> {"off", "on", "due"}]

\* As long as a client is here and has not interrupted its job, no sweep
\* takes the lease of the pending or running job, however long the queue and
\* however long an operator runs without a heartbeat: the models of the job
\* stay protected and the job does not cancel itself.  Only DELETE /leases
\* ends the lease of a live job.
LiveJobIsLeased ==
    \A j \in Jobs : SureJob(j) /\ client[LeaseOf[j]] = "here" /\ LeaseOf[j] \notin released
        => LeaseOf[j] \in open

\* A client that is gone does not block the others for good: its lease ends,
\* whatever its jobs, its /ws pump and their late touches do.
AbandonedLeaseEnds ==
    \A l \in Leases : client[l] = "gone" ~> [](l \notin open)

\* lease.py:101: a job whose lease was explicitly released while it ran, by
\* a client that gave the execution up, cancels itself at its next heartbeat.
ReleasedJobDies ==
    [][\A j \in Jobs :
          /\ active = j /\ LeaseOf[j] \in released /\ client[LeaseOf[j]] = "gone"
          /\ EngineStage \/ EngineProgress
          => j \in asked']_vars
=============================================================================
