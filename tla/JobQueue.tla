------------------------------ MODULE JobQueue ------------------------------
(***************************************************************************)
(* The asynchronous job system of the inference server (app/jobs.py).      *)
(*                                                                         *)
(* Request threads submit jobs and interrupt them; one worker thread runs  *)
(* them in FIFO order.  `JobManager._lock' protects only the job table:    *)
(* every field of a Job (status, error, result, finished_at) is written by *)
(* the worker and by interrupting request threads without a lock.  The     *)
(* actions below are therefore one shared access wide: a handler is a few  *)
(* actions in sequence, tracked by a program counter per thread, and the   *)
(* interleavings of those actions are the ones the interpreter can produce.*)
(* A critical section of `_lock' is one action.                            *)
(***************************************************************************)
EXTENDS Naturals, Sequences, FiniteSets

CONSTANTS
    Jobs,       \* the jobs that clients may submit (Job objects, by id)
    Clients,    \* request threads that may run JobManager.interrupt
    Retained,   \* JobManager._retained: finished jobs kept in the table
    NoJob       \* "the worker holds no job"

ASSUME RetainedAssumption == Retained \in Nat
ASSUME NoJobAssumption == NoJob \notin Jobs

VARIABLES
    subPc,      \* per job: how far its submit() request has come
    table,      \* JobManager._jobs, as the set of jobs in it
    queue,      \* JobManager._queue
    status,     \* Job.status ("none": not constructed yet)
    cancel,     \* the jobs whose cancel_event is set
    error,      \* Job.error, by kind ("none": None)
    result,     \* the jobs whose result is set
    finishedAt, \* Job.finished_at (0: None)
    now,        \* the last value time.time() gave for a finished_at
    told,       \* per job: the types of the events published about it
    wpc,        \* the worker's program counter
    cur,        \* the worker's local variable `job'
    outcome,    \* the branch on which self._run left ("none": not yet)
    ipc,        \* per client: the program counter inside interrupt()
    todo,       \* per client: targets the loop of interrupt() has not reached
    aim         \* per client: the loop variable `job' of interrupt()

jobVars    == <<status, cancel, error, result, finishedAt, now, told>>
workerVars == <<wpc, cur, outcome>>
clientVars == <<ipc, todo, aim>>
vars == <<subPc, table, queue, jobVars, workerVars, clientVars>>

Live     == {"pending", "running"}
Terminal == {"done", "failed", "cancelled"}

\* Fault: the table is trimmed without looking at the status.
FinishedUnfiltered == table

\* The finished jobs of the table.
Finished == {j \in table : status[j] \in Terminal}

\* events.publish: the event about j is handed to the subscribers.
Publish(j, type) == told' = [told EXCEPT ![j] = @ \cup {type}]

\* finished_at = time.time()
Stamp(j) == /\ now' = now + 1
            /\ finishedAt' = [finishedAt EXCEPT ![j] = now + 1]

Init ==
    /\ subPc = [j \in Jobs |-> "new"]
    /\ table = {}
    /\ queue = <<>>
    /\ status = [j \in Jobs |-> "none"]
    /\ cancel = {}
    /\ error = [j \in Jobs |-> "none"]
    /\ result = {}
    /\ finishedAt = [j \in Jobs |-> 0]
    /\ now = 0
    /\ told = [j \in Jobs |-> {}]
    /\ wpc = "get" /\ cur = NoJob /\ outcome = "none"
    /\ ipc = [c \in Clients |-> "idle"]
    /\ todo = [c \in Clients |-> {}]
    /\ aim = [c \in Clients |-> NoJob]

(***************************************************************************)
(* JobManager.submit, on the request thread of POST /jobs.                 *)
(***************************************************************************)

\* The Job is constructed (status pending) and, under the lock, inserted.
SubmitInsert(j) ==
    /\ subPc[j] = "new"
    /\ subPc' = [subPc EXCEPT ![j] = "tabled"]
    /\ table' = table \cup {j}
    /\ status' = [status EXCEPT ![j] = "pending"]
    /\ UNCHANGED <<queue, cancel, error, result, finishedAt, now, told,
                   workerVars, clientVars>>

\* Fault: the queue is last-in, first-out.
SubmitPutFront(j) ==
    /\ subPc[j] = "tabled"
    /\ subPc' = [subPc EXCEPT ![j] = "queued"]
    /\ queue' = <<j>> \o queue
    /\ UNCHANGED <<table, jobVars, workerVars, clientVars>>

\* self._queue.put(job): after the lock is released.
SubmitPut(j) ==
    /\ subPc[j] = "tabled"
    /\ subPc' = [subPc EXCEPT ![j] = "queued"]
    /\ queue' = Append(queue, j)
    /\ UNCHANGED <<table, jobVars, workerVars, clientVars>>

SubmitPublish(j) ==
    /\ subPc[j] = "queued"
    /\ subPc' = [subPc EXCEPT ![j] = "sent"]
    /\ Publish(j, "submitted")
    /\ UNCHANGED <<table, queue, status, cancel, error, result, finishedAt,
                   now, workerVars, clientVars>>

Submit(j) == SubmitInsert(j) \/ SubmitPut(j) \/ SubmitPublish(j)

(***************************************************************************)
(* JobManager.interrupt, on the request thread of POST /interrupt.         *)
(***************************************************************************)

\* Under the lock: the target named by the client, or every live job.
InterruptTargets(c) ==
    /\ ipc[c] = "idle"
    /\ \E targets \in {{j} : j \in table}
                      \cup {{j \in table : status[j] \in Live}} :
         /\ targets # {}
         /\ todo' = [todo EXCEPT ![c] = targets]
    /\ ipc' = [ipc EXCEPT ![c] = "loop"]
    /\ UNCHANGED <<subPc, table, queue, jobVars, workerVars, aim>>

\* Outside the lock: set the flag of the next target and read its status.
InterruptSignal(c) ==
    /\ ipc[c] = "loop"
    /\ \E j \in todo[c] :
         /\ todo' = [todo EXCEPT ![c] = @ \ {j}]
         /\ cancel' = cancel \cup {j}
         /\ IF status[j] = "pending"
            THEN /\ aim' = [aim EXCEPT ![c] = j]
                 /\ ipc' = [ipc EXCEPT ![c] = "mark"]
            ELSE /\ ipc' = [ipc EXCEPT ![c] =
                                IF todo[c] = {j} THEN "idle" ELSE "loop"]
                 /\ UNCHANGED aim
    /\ UNCHANGED <<subPc, table, queue, status, error, result, finishedAt,
                   now, told, workerVars>>

\* The target was pending when it was read: job.status = "cancelled".
InterruptMark(c) ==
    /\ ipc[c] = "mark"
    /\ ipc' = [ipc EXCEPT ![c] = "error"]
    /\ status' = [status EXCEPT ![aim[c]] = "cancelled"]
    /\ UNCHANGED <<subPc, table, queue, cancel, error, result, finishedAt,
                   now, told, workerVars, todo, aim>>

\* Fault: the status is written once more, with the error.
InterruptErrorMarks(c) ==
    /\ ipc[c] = "error"
    /\ ipc' = [ipc EXCEPT ![c] = "finish"]
    /\ status' = [status EXCEPT ![aim[c]] = "cancelled"]
    /\ error' = [error EXCEPT ![aim[c]] = "before start"]
    /\ UNCHANGED <<subPc, table, queue, cancel, result, finishedAt,
                   now, told, workerVars, todo, aim>>

\* job.error = "cancelled before start"
InterruptError(c) ==
    /\ ipc[c] = "error"
    /\ ipc' = [ipc EXCEPT ![c] = "finish"]
    /\ error' = [error EXCEPT ![aim[c]] = "before start"]
    /\ UNCHANGED <<subPc, table, queue, status, cancel, result, finishedAt,
                   now, told, workerVars, todo, aim>>

\* job.finished_at, the cancelled event, and the next turn of the loop.
InterruptFinish(c) ==
    /\ ipc[c] = "finish"
    /\ Stamp(aim[c])
    /\ Publish(aim[c], "cancelled")
    /\ ipc' = [ipc EXCEPT ![c] = IF todo[c] = {} THEN "idle" ELSE "loop"]
    /\ aim' = [aim EXCEPT ![c] = NoJob]
    /\ UNCHANGED <<subPc, table, queue, status, cancel, error, result,
                   workerVars, todo>>

\* What an interrupt that has begun still does.
InterruptStep(c) == \/ InterruptSignal(c) \/ InterruptMark(c)
                    \/ InterruptError(c) \/ InterruptFinish(c)

(***************************************************************************)
(* JobManager._worker, the single worker thread.                           *)
(***************************************************************************)

WorkerGet ==
    /\ wpc = "get" /\ queue # <<>>
    /\ cur' = Head(queue) /\ queue' = Tail(queue)
    /\ wpc' = "test"
    /\ UNCHANGED <<subPc, table, jobVars, outcome, clientVars>>

\* Fault: the test reads the cancel flag instead of the status.
WorkerSkipFlagged ==
    /\ wpc = "test" /\ cur \in cancel
    /\ wpc' = "get" /\ cur' = NoJob
    /\ UNCHANGED <<subPc, table, queue, jobVars, outcome, clientVars>>

\* Fault: the test is gone, and any job may be skipped.
WorkerSkipAny ==
    /\ wpc = "test"
    /\ wpc' = "get" /\ cur' = NoJob
    /\ UNCHANGED <<subPc, table, queue, jobVars, outcome, clientVars>>

\* if job.status == "cancelled": continue -- no _evict on this path.
WorkerSkip ==
    /\ wpc = "test" /\ status[cur] = "cancelled"
    /\ wpc' = "get" /\ cur' = NoJob
    /\ UNCHANGED <<subPc, table, queue, jobVars, outcome, clientVars>>

WorkerAccept ==
    /\ wpc = "test" /\ status[cur] # "cancelled"
    /\ wpc' = "start"
    /\ UNCHANGED <<subPc, table, queue, jobVars, cur, outcome, clientVars>>

\* job.status = "running": a separate access from the test above.
WorkerStart ==
    /\ wpc = "start"
    /\ wpc' = "announce"
    /\ status' = [status EXCEPT ![cur] = "running"]
    /\ UNCHANGED <<subPc, table, queue, cancel, error, result, finishedAt,
                   now, told, cur, outcome, clientVars>>

WorkerAnnounce ==
    /\ wpc = "announce"
    /\ wpc' = "run"
    /\ Publish(cur, "running")
    /\ UNCHANGED <<subPc, table, queue, status, cancel, error, result,
                   finishedAt, now, cur, outcome, clientVars>>

\* Fault: the return value is not stored.
RunReturnsLost ==
    /\ wpc = "run"
    /\ wpc' = "status" /\ outcome' = "done"
    /\ UNCHANGED <<subPc, table, queue, jobVars, cur, clientVars>>

\* self._run returns: the operators ended with no checkpoint seeing the flag.
RunReturns ==
    /\ wpc = "run"
    /\ wpc' = "status" /\ outcome' = "done"
    /\ result' = result \cup {cur}
    /\ UNCHANGED <<subPc, table, queue, status, cancel, error, finishedAt,
                   now, told, cur, clientVars>>

\* check_cancelled: a checkpoint of the running operators sees the flag.
RunCancelled ==
    /\ wpc = "run" /\ cur \in cancel
    /\ wpc' = "status" /\ outcome' = "cancelled"
    /\ UNCHANGED <<subPc, table, queue, jobVars, cur, clientVars>>

\* Fault: an exception of an operator ends the worker thread.
RunFailsDead ==
    /\ wpc = "run"
    /\ wpc' = "dead" /\ outcome' = "failed"
    /\ UNCHANGED <<subPc, table, queue, jobVars, cur, clientVars>>

\* Any other exception.
RunFails ==
    /\ wpc = "run"
    /\ wpc' = "status" /\ outcome' = "failed"
    /\ UNCHANGED <<subPc, table, queue, jobVars, cur, clientVars>>

\* Fault: a cancelled run leaves the status as it is.
WorkerStatusKept ==
    /\ wpc = "status"
    /\ status' = IF outcome = "cancelled" THEN status
                 ELSE [status EXCEPT ![cur] = outcome]
    /\ wpc' = IF outcome = "done" THEN "tell" ELSE "error"
    /\ UNCHANGED <<subPc, table, queue, cancel, error, result, finishedAt,
                   now, told, cur, outcome, clientVars>>

\* Fault: a failed run gets a status that no client knows.
WorkerStatusError ==
    /\ wpc = "status"
    /\ status' = [status EXCEPT ![cur] =
                     IF outcome = "failed" THEN "error" ELSE outcome]
    /\ wpc' = IF outcome = "done" THEN "tell" ELSE "error"
    /\ UNCHANGED <<subPc, table, queue, cancel, error, result, finishedAt,
                   now, told, cur, outcome, clientVars>>

\* job.status, first on each branch.
WorkerStatus ==
    /\ wpc = "status"
    /\ status' = [status EXCEPT ![cur] = outcome]
    /\ wpc' = IF outcome = "done" THEN "tell" ELSE "error"
    /\ UNCHANGED <<subPc, table, queue, cancel, error, result, finishedAt,
                   now, told, cur, outcome, clientVars>>

\* job.error, after the status, on the two exception branches.
WorkerError ==
    /\ wpc = "error"
    /\ wpc' = "tell"
    /\ error' = [error EXCEPT ![cur] = outcome]
    /\ UNCHANGED <<subPc, table, queue, status, cancel, result, finishedAt,
                   now, told, cur, outcome, clientVars>>

\* events.publish of the branch taken.
WorkerTell ==
    /\ wpc = "tell"
    /\ wpc' = "finally"
    /\ Publish(cur, outcome)
    /\ UNCHANGED <<subPc, table, queue, status, cancel, error, result,
                   finishedAt, now, cur, outcome, clientVars>>

\* finally: job.finished_at (the bindings of the thread are local).
WorkerFinally ==
    /\ wpc = "finally"
    /\ wpc' = "evict"
    /\ Stamp(cur)
    /\ UNCHANGED <<subPc, table, queue, status, cancel, error, result, told,
                   cur, outcome, clientVars>>

\* The oldest of a set of finished jobs, by finished_at with None first,
\* such that Retained of them stay: finished[:len(finished) - retained].
Oldest(finished, gone) ==
    /\ gone \subseteq finished
    /\ Cardinality(finished \ gone) = Retained
    /\ \A d \in gone, k \in finished \ gone : finishedAt[d] <= finishedAt[k]

\* Fault: one finished job too many is tolerated.
WorkerEvictLate ==
    /\ wpc = "evict"
    /\ wpc' = "get" /\ cur' = NoJob /\ outcome' = "none"
    /\ IF Cardinality(Finished) <= Retained + 1
       THEN UNCHANGED table
       ELSE \E gone \in SUBSET Finished : /\ Oldest(Finished, gone)
                                          /\ table' = table \ gone
    /\ UNCHANGED <<subPc, queue, jobVars, clientVars>>

\* self._evict(), under the lock.
WorkerEvict ==
    /\ wpc = "evict"
    /\ wpc' = "get" /\ cur' = NoJob /\ outcome' = "none"
    /\ IF Cardinality(Finished) <= Retained
       THEN UNCHANGED table
       ELSE \E gone \in SUBSET Finished : /\ Oldest(Finished, gone)
                                          /\ table' = table \ gone
    /\ UNCHANGED <<subPc, queue, jobVars, clientVars>>

RunEnds == RunReturns \/ RunCancelled \/ RunFails

WorkerStep ==
    \/ WorkerGet \/ WorkerSkip \/ WorkerAccept \/ WorkerStart
    \/ WorkerAnnounce \/ RunEnds \/ WorkerStatus \/ WorkerError
    \/ WorkerTell \/ WorkerFinally \/ WorkerEvict

Next == \/ \E j \in Jobs : Submit(j)
        \/ \E c \in Clients : InterruptTargets(c) \/ InterruptStep(c)
        \/ WorkerStep

Spec == Init /\ [][Next]_vars

(***************************************************************************)
(* Fairness.  The worker is a thread of the server: it is scheduled, and   *)
(* an operator it runs ends (returns, raises or reaches a checkpoint).  A  *)
(* request that has begun submit() or interrupt() runs to its end.  No     *)
(* client is obliged to send a request.                                    *)
(***************************************************************************)
Fairness ==
    /\ WF_vars(WorkerStep)
    /\ \A j \in Jobs : WF_vars(SubmitPut(j) \/ SubmitPublish(j))
    /\ \A c \in Clients : WF_vars(InterruptStep(c))

FairSpec == Spec /\ Fairness

(***************************************************************************)
(* Properties.                                                             *)
(***************************************************************************)

\* Between WorkerStart and WorkerEvict the worker is executing cur.
Executing == wpc \notin {"get", "test", "start"}

Queued(j) == \E i \in 1 .. Len(queue) : queue[i] = j

\* An interrupt has read that j is pending and will write its status.
Doomed(j) == \E c \in Clients : ipc[c] = "mark" /\ aim[c] = j

\* Every variable holds a value of its kind.
TypeOK ==
    /\ subPc \in [Jobs -> {"new", "tabled", "queued", "sent"}]
    /\ table \subseteq Jobs
    /\ queue \in Seq(Jobs)
    /\ status \in [Jobs -> {"none"} \cup Live \cup Terminal]
    /\ cancel \subseteq Jobs
    /\ error \in [Jobs -> {"none", "before start", "cancelled", "failed"}]
    /\ result \subseteq Jobs
    /\ finishedAt \in [Jobs -> Nat]
    /\ now \in Nat
    /\ told \in [Jobs -> SUBSET ({"submitted", "running"} \cup Terminal)]
    /\ wpc \in {"get", "test", "start", "announce", "run", "status", "error",
                "tell", "finally", "evict"}
    /\ cur \in Jobs \cup {NoJob}
    /\ outcome \in {"none"} \cup Terminal
    /\ ipc \in [Clients -> {"idle", "loop", "mark", "error", "finish"}]
    /\ todo \in [Clients -> SUBSET Jobs]
    /\ aim \in [Clients -> Jobs \cup {NoJob}]

\* The GPU is serial: whatever interrupts do to the status of jobs, a job
\* whose status is running is the one the worker holds, so queue_state and
\* active_leases never report a second running job or a dead one.
RunningIsHeld ==
    \A j \in Jobs : status[j] = "running" =>
        cur = j /\ wpc \in {"announce", "run", "status"}

\* No job is lost between the table, the queue and the worker: as long as a
\* job is pending, a submit, the queue or the worker still has it in hand.
PendingIsInHand ==
    \A j \in Jobs : status[j] = "pending" =>
        \/ subPc[j] = "tabled"
        \/ Queued(j)
        \/ cur = j /\ wpc \in {"test", "start"}

\* _evict never takes away a job that is pending or running, even when an
\* interrupt has rewritten the status of jobs while the worker decided:
\* GET /jobs/{id} finds a live job.
LiveJobIsKept == \A j \in Jobs : status[j] \in Live => j \in table

\* What a terminal event promises is there for the poll that follows it:
\* done has its result, failed and cancelled have an error.
EventIsBacked ==
    \A j \in Jobs :
        /\ (status[j] = "done" \/ "done" \in told[j]) => j \in result
        /\ told[j] \cap {"failed", "cancelled"} # {} => error[j] # "none"

\* A job that left the queue without ever having run was cancelled, and its
\* status says so: the worker's `continue' drops nobody else.
DroppedWasCancelled ==
    \A j \in Jobs :
        subPc[j] \in {"queued", "sent"} /\ ~Queued(j) /\ cur # j
            /\ "running" \notin told[j]
        => j \in cancel /\ status[j] = "cancelled"

\* Memory: of the jobs that have run, the table keeps at most Retained
\* finished ones, and one more while the worker is between the final status
\* of a job and its _evict.
RanWithinRetained ==
    Cardinality({j \in Finished : "running" \in told[j]})
        <= Retained + (IF Executing THEN 1 ELSE 0)

\* interrupt() and the worker write the status without a lock (jobs.py:239-270),
\* so a final status can be written over, but in two ways only: an interrupt
\* that had read `pending' cancels the job, whatever has become of it; and the
\* worker, for the job in its hands of which no end is told yet, puts running or
\* the end of the run in the place of an interrupt's `cancelled'.
FinalStatusStays ==
    [][\A j \in Jobs : status[j] \in Terminal /\ status'[j] # status[j] =>
          \/ Doomed(j) /\ status'[j] = "cancelled"
          \/ /\ status[j] = "cancelled" /\ j \in cancel
             /\ cur = j /\ told[j] \cap {"done", "failed"} = {}]_vars

\* Every submitted job reaches a final status for good, whatever is
\* interrupted: no interrupt, failure or skip stops the worker.
EveryJobSettles ==
    \A j \in Jobs : status[j] = "pending" ~> [](status[j] \in Terminal)

\* interrupt() marks a pending job cancelled so that the worker skips it
\* (jobs.py:227, tests/test_jobs.py): once cancelled it does not start.
CancelledNeverStarts ==
    [][\A j \in Jobs : status[j] = "cancelled" => status'[j] # "running"]_vars

(***************************************************************************)
(* The promise of the job system: SerialQueue.                             *)
(***************************************************************************)
\* The line a client sees: the job the worker has taken but not started is
\* still its head.
Line == IF wpc \in {"test", "start"} THEN <<cur>> \o queue ELSE queue

Fate == [j \in Jobs |->
    CASE subPc[j] \in {"new", "tabled"} -> "none"
      [] Queued(j) \/ (cur = j /\ ~Executing) -> "waiting"
      [] cur = j /\ Executing -> "active"
      [] OTHER -> IF "running" \in told[j] THEN "ran" ELSE "skipped"]

Serial == INSTANCE SerialQueue WITH
    line   <- Line,
    active <- IF Executing THEN cur ELSE NoJob,
    asked  <- cancel,
    fate   <- Fate

\* The job system serves its jobs one at a time, each at most once, in the
\* order of the queue, skips only jobs that were asked to stop, and serves
\* every job in the end.
ServesInTurn == Serial!FairSpec
=============================================================================
