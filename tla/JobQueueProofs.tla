--------------------------- MODULE JobQueueProofs ---------------------------
(***************************************************************************)
(* Proofs about JobQueue, for any jobs, any number of interrupting request *)
(* threads and any retention limit, and at the end about Watch, for any    *)
(* connections and any sizes of their queues.                              *)
(*                                                                         *)
(* The inductive invariant IInv is the conjunction of four groups, each    *)
(* preserved with the help of the ones before it:                          *)
(*   Phases    what the program counters say about the local variables;    *)
(*   Places    where a job can be: in a submit, in the queue, with the     *)
(*             worker, in the table, in the hands of an interrupt;         *)
(*   Statuses  which status a job can have in each of these places;        *)
(*   Backing   what has been set before a status or an event says so.      *)
(***************************************************************************)
EXTENDS Watch, SequenceTheorems, FiniteSetTheorems, TLAPS

\* Local variables follow the program counters.
Phases ==
    /\ cur = NoJob <=> wpc = "get"
    /\ wpc \in {"status", "tell"} => outcome \in Terminal
    /\ wpc = "error" => outcome \in {"cancelled", "failed"}
    /\ \A c \in Clients : ipc[c] \in {"mark", "error", "finish"} => aim[c] \in Jobs

\* The queue holds submitted jobs, each once, and not the worker's; nobody
\* holds a job that was not submitted.
Places ==
    /\ \A j \in Jobs : status[j] = "none" <=> subPc[j] = "new"
    /\ \A i \in 1 .. Len(queue) :
           subPc[queue[i]] \in {"queued", "sent"} /\ queue[i] # cur
    /\ \A i, k \in 1 .. Len(queue) : queue[i] = queue[k] => i = k
    /\ cur \in Jobs => subPc[cur] \in {"queued", "sent"}
    /\ \A j \in table : subPc[j] # "new"
    /\ \A c \in Clients : \A j \in todo[c] : subPc[j] # "new"
    /\ \A c \in Clients : aim[c] \in Jobs => subPc[aim[c]] # "new"

\* Before it runs a job is pending or cancelled, afterwards it is final.
Statuses ==
    /\ \A j \in Jobs :
           subPc[j] = "tabled" \/ Queued(j) \/ (cur = j /\ wpc \in {"test", "start"})
           => status[j] \in {"pending", "cancelled"}
    /\ \A j \in Jobs :
           \/ subPc[j] \in {"new", "tabled"} \/ Queued(j)
           \/ cur = j /\ wpc \in {"test", "start", "announce"}
           => "running" \notin told[j]
    /\ \A j \in Jobs : "running" \in told[j] /\ cur # j => status[j] \in Terminal
    /\ wpc \in {"error", "tell", "finally", "evict"} => status[cur] \in Terminal
    /\ Executing /\ wpc # "announce" => "running" \in told[cur]
    /\ wpc = "start" => cur \in table
    /\ RunningIsHeld
    /\ PendingIsInHand
    /\ LiveJobIsKept

\* A status or an event never runs ahead of what it promises.
Backing ==
    /\ \A j \in Jobs : status[j] = "cancelled" => j \in cancel
    /\ \A c \in Clients : ipc[c] = "mark" => aim[c] \in cancel
    /\ wpc \in {"status", "tell"} /\ outcome = "done" => cur \in result
    /\ wpc = "status" /\ outcome = "cancelled" => cur \in cancel
    /\ wpc = "tell" /\ outcome # "done" => error[cur] # "none"
    /\ \A c \in Clients : ipc[c] = "finish" => error[aim[c]] # "none"
    /\ EventIsBacked
    /\ DroppedWasCancelled

IInv == TypeOK /\ Phases /\ Places /\ Statuses /\ Backing

-----------------------------------------------------------------------------
(* The actions, for the proofs that look at each of them. *)

USE NoJobAssumption

LEMMA InitIInv == Init => IInv
<1> SUFFICES ASSUME Init PROVE IInv
  OBVIOUS
<1>0. queue \in Seq(Jobs) /\ Len(queue) = 0
  BY EmptySeq DEF Init
<1>1. TypeOK
  BY <1>0 DEF Init, TypeOK, Live, Terminal
<1>2. Phases
  BY DEF Init, Phases
<1>3. Places
  BY <1>0 DEF Init, Places
<1>4. Statuses
  BY <1>0 DEF Init, Statuses, RunningIsHeld, PendingIsInHand, LiveJobIsKept,
              Queued, Executing, Live, Terminal
<1>5. Backing
  BY DEF Init, Backing, EventIsBacked, DroppedWasCancelled
<1> QED
  BY <1>1, <1>2, <1>3, <1>4, <1>5 DEF IInv

EventTypes == {"submitted", "running"} \cup Terminal

\* Publishing an event keeps the type of told.
LEMMA PublishType ==
  ASSUME told \in [Jobs -> SUBSET EventTypes], NEW j, NEW type \in EventTypes,
         Publish(j, type)
  PROVE  told' \in [Jobs -> SUBSET EventTypes]
<1>1. \A k \in Jobs : told'[k] \in SUBSET EventTypes
  <2> TAKE k \in Jobs
  <2>1. CASE k = j
    BY <2>1 DEF Publish
  <2>2. CASE k # j
    BY <2>2 DEF Publish
  <2> QED BY <2>1, <2>2
<1> QED BY <1>1 DEF Publish

\* Stamping a job keeps the types of the clock and of finished_at.
LEMMA StampType ==
  ASSUME now \in Nat, finishedAt \in [Jobs -> Nat], NEW j, Stamp(j)
  PROVE  now' \in Nat /\ finishedAt' \in [Jobs -> Nat]
<1>1. now' \in Nat
  BY DEF Stamp
<1>2. \A k \in Jobs : finishedAt'[k] \in Nat
  BY DEF Stamp
<1> QED BY <1>1, <1>2 DEF Stamp

LEMMA TypeStep == TypeOK /\ Phases /\ [Next]_vars => TypeOK' /\ Phases'
<1> SUFFICES ASSUME TypeOK, Phases, [Next]_vars PROVE TypeOK' /\ Phases'
  OBVIOUS
<1> USE DEF TypeOK, Phases, Live, Terminal, jobVars, workerVars, clientVars
<1>1. ASSUME NEW j \in Jobs, SubmitInsert(j) PROVE TypeOK' /\ Phases'
  BY <1>1 DEF SubmitInsert
<1>2. ASSUME NEW j \in Jobs, SubmitPut(j) PROVE TypeOK' /\ Phases'
  BY <1>2, AppendProperties DEF SubmitPut
<1>3. ASSUME NEW j \in Jobs, SubmitPublish(j) PROVE TypeOK' /\ Phases'
  BY <1>3 DEF SubmitPublish, Publish
<1>4. ASSUME NEW c \in Clients, InterruptTargets(c) PROVE TypeOK' /\ Phases'
  <2>1. PICK targets \in {{j} : j \in table}
                         \cup {{j \in table : status[j] \in Live}} :
                 todo' = [todo EXCEPT ![c] = targets]
    BY <1>4 DEF InterruptTargets
  <2>2. targets \in SUBSET Jobs
    <3>1. CASE \E j \in table : targets = {j}
      BY <3>1
    <3>2. CASE targets = {j \in table : status[j] \in Live}
      BY <3>2
    <3> QED BY <3>1, <3>2
  <2> QED BY <1>4, <2>1, <2>2 DEF InterruptTargets
<1>5. ASSUME NEW c \in Clients, InterruptSignal(c) PROVE TypeOK' /\ Phases'
  <2>1. PICK j \in todo[c] :
               /\ todo' = [todo EXCEPT ![c] = @ \ {j}]
               /\ cancel' = cancel \cup {j}
               /\ \/ /\ aim' = [aim EXCEPT ![c] = j]
                     /\ ipc' = [ipc EXCEPT ![c] = "mark"]
                  \/ /\ \E p \in {"idle", "loop"} : ipc' = [ipc EXCEPT ![c] = p]
                     /\ UNCHANGED aim
    BY <1>5 DEF InterruptSignal
  <2>2. j \in Jobs /\ todo' \in [Clients -> SUBSET Jobs]
    BY <2>1
  <2>3. CASE aim' = [aim EXCEPT ![c] = j] /\ ipc' = [ipc EXCEPT ![c] = "mark"]
    BY <1>5, <2>1, <2>2, <2>3 DEF InterruptSignal
  <2>4. ASSUME NEW p \in {"idle", "loop"}, ipc' = [ipc EXCEPT ![c] = p],
               UNCHANGED aim
        PROVE  TypeOK' /\ Phases'
    BY <1>5, <2>1, <2>2, <2>4 DEF InterruptSignal
  <2> QED BY <2>1, <2>3, <2>4
<1>6. ASSUME NEW c \in Clients, InterruptMark(c) PROVE TypeOK' /\ Phases'
  BY <1>6 DEF InterruptMark
<1>7. ASSUME NEW c \in Clients, InterruptError(c) PROVE TypeOK' /\ Phases'
  BY <1>7 DEF InterruptError
<1>8. ASSUME NEW c \in Clients, InterruptFinish(c) PROVE TypeOK' /\ Phases'
  <2>1. now' \in Nat /\ finishedAt' \in [Jobs -> Nat]
    BY <1>8, StampType DEF InterruptFinish
  <2> QED BY <1>8, <2>1 DEF InterruptFinish, Publish
<1>9. CASE WorkerGet
  <2>1. Head(queue) \in Jobs /\ Tail(queue) \in Seq(Jobs)
    BY <1>9, HeadTailProperties DEF WorkerGet
  <2> QED BY <1>9, <2>1 DEF WorkerGet
<1>10. CASE WorkerSkip
  BY <1>10 DEF WorkerSkip
<1>10a. CASE WorkerAccept
  BY <1>10a DEF WorkerAccept
<1>10b. CASE WorkerStart
  BY <1>10b DEF WorkerStart
<1>11. CASE WorkerAnnounce
  BY <1>11 DEF WorkerAnnounce, Publish
<1>12. CASE RunEnds
  BY <1>12 DEF RunEnds, RunReturns, RunCancelled, RunFails
<1>13. CASE WorkerStatus
  BY <1>13 DEF WorkerStatus
<1>13a. CASE WorkerError
  BY <1>13a DEF WorkerError
<1>14. CASE WorkerTell
  BY <1>14 DEF WorkerTell, Publish
<1>15. CASE WorkerFinally
  <2>1. now' \in Nat /\ finishedAt' \in [Jobs -> Nat]
    BY <1>15, StampType DEF WorkerFinally
  <2> QED BY <1>15, <2>1 DEF WorkerFinally
<1>16. CASE WorkerEvict
  BY <1>16 DEF WorkerEvict
<1>17. CASE UNCHANGED vars
  BY <1>17 DEF vars
<1> QED
  BY <1>1, <1>2, <1>3, <1>4, <1>5, <1>6, <1>7, <1>8, <1>9, <1>10, <1>10a, <1>10b,
     <1>11, <1>12, <1>13, <1>13a, <1>14, <1>15, <1>16, <1>17
  DEF Next, Submit, InterruptStep, WorkerStep

\* The queue after put and after get.
LEMMA PutQueue ==
  ASSUME queue \in Seq(Jobs), NEW j \in Jobs, queue' = Append(queue, j)
  PROVE  /\ Len(queue) \in Nat /\ Len(queue') = Len(queue) + 1
         /\ \A i \in 1 .. Len(queue) : queue'[i] = queue[i]
         /\ queue'[Len(queue) + 1] = j
BY AppendProperties, LenProperties

LEMMA GetQueue ==
  ASSUME queue \in Seq(Jobs), queue # <<>>, queue' = Tail(queue)
  PROVE  /\ Len(queue) \in Nat /\ Len(queue') = Len(queue) - 1 /\ 1 <= Len(queue)
         /\ Head(queue) = queue[1]
         /\ \A i \in 1 .. Len(queue') : queue'[i] = queue[i + 1]
<1>1. Len(queue) \in Nat \ {0}
  BY EmptySeq, LenProperties
<1> QED BY <1>1, HeadTailProperties

\* Actions that touch nothing Places speaks of.
LEMMA PlacesFrame ==
  ASSUME Places, UNCHANGED <<subPc, queue, cur, table, todo, aim, status>>
  PROVE  Places'
BY DEF Places

LEMMA PlacesStep == TypeOK /\ Phases /\ Places /\ [Next]_vars => Places'
<1> SUFFICES ASSUME TypeOK, Phases, Places, [Next]_vars PROVE Places'
  OBVIOUS
<1> USE DEF jobVars, workerVars, clientVars
<1>q. \A i \in 1 .. Len(queue) : queue[i] \in Jobs
  BY ElementOfSeq DEF TypeOK
<1>t. /\ subPc \in [Jobs -> {"new", "tabled", "queued", "sent"}]
      /\ table \subseteq Jobs /\ cur \in Jobs \cup {NoJob}
      /\ status \in [Jobs -> {"none"} \cup Live \cup Terminal]
      /\ ipc \in [Clients -> {"idle", "loop", "mark", "error", "finish"}]
      /\ todo \in [Clients -> SUBSET Jobs]
      /\ aim \in [Clients -> Jobs \cup {NoJob}]
  BY DEF TypeOK
<1>1. ASSUME NEW j \in Jobs, SubmitInsert(j) PROVE Places'
  BY <1>q, <1>t, NoJobAssumption, <1>1 DEF Places, SubmitInsert
<1>2. ASSUME NEW j \in Jobs, SubmitPut(j) PROVE Places'
  <2>1. /\ Len(queue) \in Nat /\ Len(queue') = Len(queue) + 1
        /\ \A i \in 1 .. Len(queue) : queue'[i] = queue[i]
        /\ queue'[Len(queue) + 1] = j
    BY <1>q, <1>t, NoJobAssumption, <1>2, PutQueue DEF Places, SubmitPut
  <2>2. \A i \in 1 .. Len(queue) : queue[i] # j
    BY <1>q, <1>t, NoJobAssumption, <1>2 DEF Places, SubmitPut
  <2>3. j # cur
    BY <1>q, <1>t, NoJobAssumption, <1>2 DEF Places, SubmitPut
  <2>4. \A i \in 1 .. Len(queue') : i \in 1 .. Len(queue) \/ i = Len(queue) + 1
    BY <2>1
  <2>5. \A i \in 1 .. Len(queue') : subPc'[queue'[i]] \in {"queued", "sent"} /\ queue'[i] # cur'
    BY <1>q, <1>t, NoJobAssumption, <1>2, <2>1, <2>2, <2>3, <2>4 DEF Places, SubmitPut
  <2>6. \A i, k \in 1 .. Len(queue') : queue'[i] = queue'[k] => i = k
    BY <2>1, <2>2, <2>4 DEF Places
  <2> QED BY <1>q, <1>t, NoJobAssumption, <1>2, <2>5, <2>6 DEF Places, SubmitPut
<1>3. ASSUME NEW j \in Jobs, SubmitPublish(j) PROVE Places'
  BY <1>q, <1>t, NoJobAssumption, <1>3 DEF Places, SubmitPublish
<1>4. ASSUME NEW c \in Clients, InterruptTargets(c) PROVE Places'
  <2>1. PICK targets \in SUBSET table : todo' = [todo EXCEPT ![c] = targets]
    <3>1. \A S \in {{j} : j \in table} \cup {{j \in table : status[j] \in Live}} :
             S \subseteq table
      OBVIOUS
    <3> QED BY <1>q, <1>t, NoJobAssumption, <1>4, <3>1 DEF Places, InterruptTargets
  <2> QED BY <1>q, <1>t, NoJobAssumption, <1>4, <2>1 DEF Places, InterruptTargets
<1>5. ASSUME NEW c \in Clients, InterruptSignal(c) PROVE Places'
  <2>1. PICK j \in todo[c] :
               /\ todo' = [todo EXCEPT ![c] = @ \ {j}]
               /\ aim' = [aim EXCEPT ![c] = j] \/ UNCHANGED aim
    BY <1>q, <1>t, NoJobAssumption, <1>5 DEF Places, InterruptSignal
  <2> QED BY <1>q, <1>t, NoJobAssumption, <1>5, <2>1 DEF Places, InterruptSignal
<1>6. ASSUME NEW c \in Clients, InterruptMark(c) PROVE Places'
  <2>1. aim[c] \in Jobs /\ subPc[aim[c]] # "new"
    BY <1>t, <1>6 DEF Phases, Places, InterruptMark
  <2> QED BY <1>q, <1>t, NoJobAssumption, <1>6, <2>1 DEF Places, InterruptMark
<1>7. ASSUME NEW c \in Clients, InterruptError(c) PROVE Places'
  BY <1>q, <1>t, NoJobAssumption, <1>7 DEF Places, InterruptError
<1>8. ASSUME NEW c \in Clients, InterruptFinish(c) PROVE Places'
  BY <1>q, <1>t, NoJobAssumption, <1>8 DEF Places, InterruptFinish
<1>9. CASE WorkerGet
  <2>1. /\ Len(queue) \in Nat /\ Len(queue') = Len(queue) - 1 /\ 1 <= Len(queue)
        /\ cur' = queue[1]
        /\ \A i \in 1 .. Len(queue') : queue'[i] = queue[i + 1]
    BY <1>q, <1>t, NoJobAssumption, <1>9, GetQueue DEF Places, WorkerGet
  <2>2. \A i \in 1 .. Len(queue') : i + 1 \in 1 .. Len(queue) /\ i + 1 # 1
    BY <2>1
  <2>3. 1 \in 1 .. Len(queue)
    BY <2>1
  <2>4. \A i \in 1 .. Len(queue') : subPc[queue'[i]] \in {"queued", "sent"} /\ queue'[i] # cur'
    BY <2>1, <2>2, <2>3 DEF Places
  <2>5. \A i, k \in 1 .. Len(queue') : queue'[i] = queue'[k] => i = k
    <3> SUFFICES ASSUME NEW i \in 1 .. Len(queue'), NEW k \in 1 .. Len(queue'),
                        queue'[i] = queue'[k]
                 PROVE  i = k
      OBVIOUS
    <3>1. i + 1 = k + 1
      BY <2>1, <2>2 DEF Places
    <3> QED BY <2>1, <3>1
  <2>6. subPc[cur'] \in {"queued", "sent"}
    BY <2>1, <2>3 DEF Places
  <2> QED BY <1>q, <1>t, NoJobAssumption, <1>9, <2>4, <2>5, <2>6 DEF Places, WorkerGet
<1>10. CASE WorkerSkip \/ WorkerAccept \/ WorkerAnnounce \/ RunEnds
  <2>1. CASE WorkerSkip
    BY <1>q, <1>t, NoJobAssumption, <2>1 DEF WorkerSkip, Places
  <2>2. CASE WorkerAccept \/ WorkerAnnounce \/ RunEnds
    <3>1. UNCHANGED <<subPc, queue, cur, table, todo, aim, status>>
      BY <2>2 DEF WorkerAccept, WorkerAnnounce, RunEnds, RunReturns,
                  RunCancelled, RunFails
    <3> QED BY <3>1, PlacesFrame
  <2> QED BY <1>10, <2>1, <2>2
<1>11. CASE WorkerStart
  BY <1>q, <1>t, NoJobAssumption, <1>11 DEF Places, WorkerStart
<1>12. CASE WorkerStatus
  BY <1>q, <1>t, NoJobAssumption, <1>12 DEF Phases, Places, WorkerStatus, Terminal
<1>13. CASE WorkerError \/ WorkerTell \/ WorkerFinally
  <2>1. UNCHANGED <<subPc, queue, cur, table, todo, aim, status>>
    BY <1>13 DEF WorkerError, WorkerTell, WorkerFinally
  <2> QED BY <2>1, PlacesFrame
<1>14. CASE WorkerEvict
  <2>1. table' \subseteq table
    BY <1>14 DEF WorkerEvict
  <2> QED BY <1>q, <1>t, NoJobAssumption, <1>14, <2>1 DEF Places, WorkerEvict
<1>15. CASE UNCHANGED vars
  BY <1>q, <1>t, NoJobAssumption, <1>15 DEF Places, vars
<1> QED
  BY <1>1, <1>2, <1>3, <1>4, <1>5, <1>6, <1>7, <1>8, <1>9, <1>10, <1>11, <1>12,
     <1>13, <1>14, <1>15
  DEF Next, Submit, InterruptStep, WorkerStep

\* How the set of queued jobs changes.
LEMMA QueuedPut ==
  ASSUME queue \in Seq(Jobs), NEW j \in Jobs, queue' = Append(queue, j)
  PROVE  \A k : Queued(k)' <=> Queued(k) \/ k = j
<1>1. /\ Len(queue) \in Nat /\ Len(queue') = Len(queue) + 1
      /\ \A i \in 1 .. Len(queue) : queue'[i] = queue[i]
      /\ queue'[Len(queue) + 1] = j
  BY PutQueue
<1>2. \A i : i \in 1 .. Len(queue') <=> i \in 1 .. Len(queue) \/ i = Len(queue) + 1
  BY <1>1
<1> QED BY <1>1, <1>2 DEF Queued

LEMMA QueuedGet ==
  ASSUME queue \in Seq(Jobs), queue # <<>>, queue' = Tail(queue)
  PROVE  /\ Queued(Head(queue))
         /\ \A k : Queued(k)' => Queued(k)
         /\ \A k : Queued(k) => Queued(k)' \/ k = Head(queue)
<1>1. /\ Len(queue) \in Nat /\ Len(queue') = Len(queue) - 1 /\ 1 <= Len(queue)
      /\ Head(queue) = queue[1]
      /\ \A i \in 1 .. Len(queue') : queue'[i] = queue[i + 1]
  BY GetQueue
<1>2. 1 \in 1 .. Len(queue)
  BY <1>1
<1>3. \A i \in 1 .. Len(queue') : i + 1 \in 1 .. Len(queue)
  BY <1>1
<1>4. \A i \in 1 .. Len(queue) : i = 1 \/ (i - 1 \in 1 .. Len(queue') /\ (i - 1) + 1 = i)
  BY <1>1
<1>5. \A k : Queued(k) => Queued(k)' \/ k = Head(queue)
  <2> SUFFICES ASSUME NEW i \in 1 .. Len(queue), i # 1
               PROVE  \E m \in 1 .. Len(queue') : queue'[m] = queue[i]
    BY <1>1 DEF Queued
  <2>1. i - 1 \in 1 .. Len(queue') /\ queue'[i - 1] = queue[i]
    BY <1>1, <1>4
  <2> QED BY <2>1
<1> QED BY <1>1, <1>2, <1>3, <1>5 DEF Queued

LEMMA QueuedFacts ==
  ASSUME TypeOK, Places, NEW j, Queued(j)
  PROVE  j \in Jobs /\ subPc[j] \in {"queued", "sent"} /\ j # cur
<1>1. \A i \in 1 .. Len(queue) : queue[i] \in Jobs
  BY ElementOfSeq DEF TypeOK
<1> QED BY <1>1 DEF Queued, Places

\* Actions that touch nothing Statuses speaks of but other events.
LEMMA StatusesFrame ==
  ASSUME TypeOK, Phases, Statuses, UNCHANGED <<subPc, queue, cur, wpc, table, status>>,
         \A j \in Jobs : "running" \in told'[j] <=> "running" \in told[j]
  PROVE  Statuses'
<1>1. Executing => cur \in Jobs
  BY DEF Executing, TypeOK, Phases
<1>2. \A j : Queued(j)' <=> Queued(j)
  BY DEF Queued
<1>3. Executing' <=> Executing
  BY DEF Executing
<1> QED
  BY <1>1, <1>2, <1>3 DEF Statuses, RunningIsHeld, PendingIsInHand, LiveJobIsKept

LEMMA StatusesStep ==
  TypeOK /\ Phases /\ Places /\ Statuses /\ [Next]_vars => Statuses'
<1> SUFFICES ASSUME TypeOK, Phases, Places, Statuses, [Next]_vars PROVE Statuses'
  OBVIOUS
<1> USE DEF jobVars, workerVars, clientVars
<1>t. /\ subPc \in [Jobs -> {"new", "tabled", "queued", "sent"}]
      /\ status \in [Jobs -> {"none"} \cup Live \cup Terminal]
      /\ table \subseteq Jobs
      /\ cur \in Jobs \cup {NoJob} /\ (cur = NoJob <=> wpc = "get")
      /\ \A c \in Clients : ipc[c] = "mark" => aim[c] \in Jobs
  BY DEF TypeOK, Phases
<1>d. told \in [Jobs -> SUBSET EventTypes]
  BY DEF TypeOK, EventTypes
<1>q. \A j : Queued(j) => j \in Jobs /\ subPc[j] \in {"queued", "sent"} /\ j # cur
  BY QueuedFacts
<1>1. ASSUME NEW j \in Jobs, SubmitInsert(j) PROVE Statuses'
  <2>1. \A k : Queued(k)' <=> Queued(k)
    BY <1>1 DEF SubmitInsert, Queued
  <2>2. status[j] = "none" /\ j # cur /\ ~Queued(j)
    BY <1>1, <1>t, <1>q DEF SubmitInsert, Places
  <2> QED
    BY <1>1, <1>t, <1>q, <2>1, <2>2, NoJobAssumption
    DEF SubmitInsert, Statuses, RunningIsHeld, PendingIsInHand, LiveJobIsKept, Executing, Live, Terminal
<1>2. ASSUME NEW j \in Jobs, SubmitPut(j) PROVE Statuses'
  <2>1. \A k : Queued(k)' <=> Queued(k) \/ k = j
    BY <1>2, QueuedPut DEF SubmitPut, TypeOK
  <2> QED
    BY <1>2, <1>t, <1>q, <2>1, NoJobAssumption
    DEF SubmitPut, Statuses, RunningIsHeld, PendingIsInHand, LiveJobIsKept, Executing
<1>3. ASSUME NEW j \in Jobs, SubmitPublish(j) PROVE Statuses'
  <2>1. \A k : Queued(k)' <=> Queued(k)
    BY <1>3 DEF SubmitPublish, Queued
  <2>2. \A k \in Jobs : "running" \in told'[k] <=> "running" \in told[k]
    BY <1>3, <1>d DEF SubmitPublish, Publish
  <2>3. Executing => cur \in Jobs
    BY <1>t DEF Executing
  <2> QED
    BY <1>3, <1>t, <1>q, <2>1, <2>2, <2>3
    DEF SubmitPublish, Statuses, RunningIsHeld, PendingIsInHand, LiveJobIsKept, Executing
<1>4. ASSUME NEW c \in Clients, InterruptTargets(c) \/ InterruptSignal(c) \/ InterruptError(c)
      PROVE  Statuses'
  <2>1. UNCHANGED <<subPc, queue, cur, wpc, table, status, told>>
    BY <1>4 DEF InterruptTargets, InterruptSignal, InterruptError
  <2> QED BY <2>1, StatusesFrame
<1>5. ASSUME NEW c \in Clients, InterruptMark(c) PROVE Statuses'
  <2>1. \A k : Queued(k)' <=> Queued(k)
    BY <1>5 DEF InterruptMark, Queued
  <2>2. /\ aim[c] \in Jobs /\ UNCHANGED <<subPc, queue, cur, wpc, table, told>>
        /\ status' = [status EXCEPT ![aim[c]] = "cancelled"]
    BY <1>5, <1>t DEF InterruptMark
  <2> QED
    BY <1>t, <1>q, <2>1, <2>2
    DEF Statuses, RunningIsHeld, PendingIsInHand, LiveJobIsKept, Executing, Live, Terminal
<1>6. ASSUME NEW c \in Clients, InterruptFinish(c) PROVE Statuses'
  <2>1. UNCHANGED <<subPc, queue, cur, wpc, table, status>>
    BY <1>6 DEF InterruptFinish
  <2>2. \A k \in Jobs : "running" \in told'[k] <=> "running" \in told[k]
    BY <1>6, <1>d DEF InterruptFinish, Publish
  <2> QED BY <2>1, <2>2, StatusesFrame
<1>7. CASE WorkerGet
  <2>1. /\ Queued(Head(queue))
        /\ \A k : Queued(k)' => Queued(k)
        /\ \A k : Queued(k) => Queued(k)' \/ k = Head(queue)
    BY <1>7, QueuedGet DEF WorkerGet, TypeOK
  <2>2. cur = NoJob
    BY <1>7, <1>t DEF WorkerGet
  <2> QED
    BY <1>7, <1>t, <1>q, <2>1, <2>2, NoJobAssumption
    DEF WorkerGet, Statuses, RunningIsHeld, PendingIsInHand, LiveJobIsKept, Executing
<1>8. CASE WorkerSkip \/ WorkerAccept \/ WorkerStart
  <2>1. \A k : Queued(k)' <=> Queued(k)
    BY <1>8 DEF WorkerSkip, WorkerAccept, WorkerStart, Queued
  <2>2. cur \in Jobs
    BY <1>8, <1>t DEF WorkerSkip, WorkerAccept, WorkerStart
  <2>3. CASE WorkerSkip
    BY <1>t, <1>q, <2>1, <2>2, <2>3, NoJobAssumption
    DEF WorkerSkip, Statuses, RunningIsHeld, PendingIsInHand, LiveJobIsKept, Executing, Live, Terminal
  <2>4. CASE WorkerAccept
    BY <1>t, <1>q, <2>1, <2>2, <2>4
    DEF WorkerAccept, Statuses, RunningIsHeld, PendingIsInHand, LiveJobIsKept, Executing, Live, Terminal
  <2>5. CASE WorkerStart
    BY <1>t, <1>q, <2>1, <2>2, <2>5
    DEF WorkerStart, Places, Statuses, RunningIsHeld, PendingIsInHand, LiveJobIsKept, Executing, Live, Terminal
  <2> QED BY <1>8, <2>3, <2>4, <2>5
<1>9. CASE WorkerAnnounce
  <2>1. \A k : Queued(k)' <=> Queued(k)
    BY <1>9 DEF WorkerAnnounce, Queued
  <2>2. cur \in Jobs /\ subPc[cur] \in {"queued", "sent"} /\ ~Queued(cur)
    BY <1>9, <1>t, <1>q DEF WorkerAnnounce, Places
  <2>3. \A k \in Jobs : "running" \in told'[k] <=> "running" \in told[k] \/ k = cur
    BY <1>9, <1>d, <2>2 DEF WorkerAnnounce, Publish
  <2> QED
    BY <1>9, <1>t, <2>1, <2>2, <2>3
    DEF WorkerAnnounce, Statuses, RunningIsHeld, PendingIsInHand, LiveJobIsKept, Executing
<1>10. CASE RunEnds
  <2>1. \A k : Queued(k)' <=> Queued(k)
    BY <1>10 DEF RunEnds, RunReturns, RunCancelled, RunFails, Queued
  <2>2. wpc = "run" /\ wpc' = "status" /\ UNCHANGED <<subPc, queue, cur, table, status, told>>
    BY <1>10 DEF RunEnds, RunReturns, RunCancelled, RunFails
  <2> QED
    BY <1>t, <2>1, <2>2 DEF Statuses, RunningIsHeld, PendingIsInHand, LiveJobIsKept, Executing
<1>11. CASE WorkerStatus
  <2>1. \A k : Queued(k)' <=> Queued(k)
    BY <1>11 DEF WorkerStatus, Queued
  <2>2. cur \in Jobs /\ subPc[cur] \in {"queued", "sent"} /\ ~Queued(cur) /\ outcome \in Terminal
    BY <1>11, <1>t, <1>q DEF WorkerStatus, Places, Phases
  <2> QED
    BY <1>11, <1>t, <2>1, <2>2 DEF WorkerStatus, Statuses, RunningIsHeld, PendingIsInHand, LiveJobIsKept, Executing, Live, Terminal
<1>12. CASE WorkerError \/ WorkerFinally
  <2>1. \A k : Queued(k)' <=> Queued(k)
    BY <1>12 DEF WorkerError, WorkerFinally, Queued
  <2>2. /\ \/ wpc = "error" /\ wpc' = "tell"
           \/ wpc = "finally" /\ wpc' = "evict"
        /\ UNCHANGED <<subPc, queue, cur, table, status, told>>
    BY <1>12 DEF WorkerError, WorkerFinally
  <2> QED
    BY <1>t, <2>1, <2>2 DEF Statuses, RunningIsHeld, PendingIsInHand, LiveJobIsKept, Executing
<1>13. CASE WorkerTell
  <2>1. \A k : Queued(k)' <=> Queued(k)
    BY <1>13 DEF WorkerTell, Queued
  <2>2. cur \in Jobs /\ outcome \in Terminal
    BY <1>13, <1>t DEF WorkerTell, Phases
  <2>3. \A k \in Jobs : "running" \in told'[k] <=> "running" \in told[k]
    BY <1>13, <1>d, <2>2 DEF WorkerTell, Publish, Terminal
  <2> QED
    BY <1>13, <1>t, <2>1, <2>2, <2>3 DEF WorkerTell, Statuses, RunningIsHeld, PendingIsInHand, LiveJobIsKept, Executing
<1>14. CASE WorkerEvict
  <2>1. \A k : Queued(k)' <=> Queued(k)
    BY <1>14 DEF WorkerEvict, Queued
  <2>2. \A k \in table : status[k] \in Live => k \in table'
    BY <1>14 DEF WorkerEvict, Finished, Oldest, Live, Terminal
  <2>3. cur \in Jobs /\ status[cur] \in Terminal
    BY <1>14, <1>t DEF WorkerEvict, Statuses
  <2> QED
    BY <1>14, <1>t, <1>q, <2>1, <2>2, <2>3, NoJobAssumption
    DEF WorkerEvict, Statuses, RunningIsHeld, PendingIsInHand, LiveJobIsKept, Executing, Live, Terminal
<1>15. CASE UNCHANGED vars
  <2>1. UNCHANGED <<subPc, queue, cur, wpc, table, status, told>>
    BY <1>15 DEF vars
  <2> QED BY <2>1, StatusesFrame
<1> QED
  BY <1>1, <1>2, <1>3, <1>4, <1>5, <1>6, <1>7, <1>8, <1>9, <1>10, <1>11, <1>12,
     <1>13, <1>14, <1>15
  DEF Next, Submit, InterruptStep, WorkerStep

\* Actions that touch nothing Backing speaks of.
LEMMA BackingFrame ==
  ASSUME Backing,
         UNCHANGED <<subPc, queue, cur, wpc, outcome, status, cancel, error, result,
                     told, ipc, aim>>
  PROVE  Backing'
BY DEF Backing, EventIsBacked, DroppedWasCancelled, Queued

LEMMA BackingStep ==
  TypeOK /\ Phases /\ Places /\ Statuses /\ Backing /\ [Next]_vars => Backing'
<1> SUFFICES ASSUME TypeOK, Phases, Places, Statuses, Backing, [Next]_vars
             PROVE  Backing'
  OBVIOUS
<1> USE DEF jobVars, workerVars, clientVars
<1>t. /\ subPc \in [Jobs -> {"new", "tabled", "queued", "sent"}]
      /\ status \in [Jobs -> {"none"} \cup Live \cup Terminal]
      /\ error \in [Jobs -> {"none", "before start", "cancelled", "failed"}]
      /\ ipc \in [Clients -> {"idle", "loop", "mark", "error", "finish"}]
      /\ aim \in [Clients -> Jobs \cup {NoJob}]
      /\ cur \in Jobs \cup {NoJob} /\ (cur = NoJob <=> wpc = "get")
      /\ \A c \in Clients : ipc[c] \in {"mark", "error", "finish"} => aim[c] \in Jobs
  BY DEF TypeOK, Phases
<1>d. told \in [Jobs -> SUBSET EventTypes]
  BY DEF TypeOK, EventTypes
<1>1. ASSUME NEW j \in Jobs, SubmitInsert(j) PROVE Backing'
  <2>1. \A k : Queued(k)' <=> Queued(k)
    BY <1>1 DEF SubmitInsert, Queued
  <2>2. j # cur
    BY <1>1, <1>t DEF SubmitInsert, Places
  <2> QED
    BY <1>1, <1>t, <2>1, <2>2 DEF SubmitInsert, Backing, EventIsBacked, DroppedWasCancelled
<1>2. ASSUME NEW j \in Jobs, SubmitPut(j) PROVE Backing'
  <2>1. \A k : Queued(k)' <=> Queued(k) \/ k = j
    BY <1>2, QueuedPut DEF SubmitPut, TypeOK
  <2> QED
    BY <1>2, <1>t, <2>1 DEF SubmitPut, Backing, EventIsBacked, DroppedWasCancelled
<1>3. ASSUME NEW j \in Jobs, SubmitPublish(j) PROVE Backing'
  <2>1. \A k : Queued(k)' <=> Queued(k)
    BY <1>3 DEF SubmitPublish, Queued
  <2>2. \A k \in Jobs, e \in {"running", "done", "failed", "cancelled"} :
           e \in told'[k] <=> e \in told[k]
    BY <1>3, <1>d DEF SubmitPublish, Publish
  <2> QED
    BY <1>3, <1>t, <2>1, <2>2 DEF SubmitPublish, Backing, EventIsBacked, DroppedWasCancelled
<1>4. ASSUME NEW c \in Clients, InterruptTargets(c) PROVE Backing'
  <2>1. \A k : Queued(k)' <=> Queued(k)
    BY <1>4 DEF InterruptTargets, Queued
  <2> QED
    BY <1>4, <1>t, <2>1 DEF InterruptTargets, Backing, EventIsBacked, DroppedWasCancelled
<1>5. ASSUME NEW c \in Clients, InterruptSignal(c) PROVE Backing'
  <2>1. \A k : Queued(k)' <=> Queued(k)
    BY <1>5 DEF InterruptSignal, Queued
  <2>2. PICK j \in todo[c] :
               /\ cancel' = cancel \cup {j}
               /\ \/ /\ aim' = [aim EXCEPT ![c] = j]
                     /\ ipc' = [ipc EXCEPT ![c] = "mark"]
                  \/ /\ \E p \in {"idle", "loop"} : ipc' = [ipc EXCEPT ![c] = p]
                     /\ UNCHANGED aim
    BY <1>5 DEF InterruptSignal
  <2>3. \A d \in Clients : ipc'[d] = "mark" => aim'[d] \in cancel'
    BY <1>t, <2>2 DEF Backing
  <2>4. \A d \in Clients : ipc'[d] = "finish" => ipc[d] = "finish" /\ aim'[d] = aim[d]
    BY <1>t, <2>2
  <2>5. cancel \subseteq cancel'
    BY <2>2
  <2>6. UNCHANGED <<subPc, queue, cur, wpc, outcome, status, error, result, told>>
    BY <1>5 DEF InterruptSignal
  <2> QED
    BY <2>1, <2>3, <2>4, <2>5, <2>6 DEF Backing, EventIsBacked, DroppedWasCancelled
<1>6. ASSUME NEW c \in Clients, InterruptMark(c) PROVE Backing'
  <2>1. \A k : Queued(k)' <=> Queued(k)
    BY <1>6 DEF InterruptMark, Queued
  <2>2. aim[c] \in Jobs /\ aim[c] \in cancel
    BY <1>6, <1>t DEF InterruptMark, Backing
  <2>3. \A d \in Clients : ipc'[d] \in {"mark", "finish"} => ipc[d] = ipc'[d]
    BY <1>6, <1>t DEF InterruptMark
  <2> QED
    BY <1>6, <1>t, <2>1, <2>2, <2>3 DEF InterruptMark, Backing, EventIsBacked, DroppedWasCancelled
<1>7. ASSUME NEW c \in Clients, InterruptError(c) PROVE Backing'
  <2>1. \A k : Queued(k)' <=> Queued(k)
    BY <1>7 DEF InterruptError, Queued
  <2>2. aim[c] \in Jobs /\ error'[aim[c]] = "before start"
    BY <1>7, <1>t DEF InterruptError
  <2>3. \A k \in Jobs : error[k] # "none" => error'[k] # "none"
    BY <1>7, <1>t DEF InterruptError
  <2>4. \A d \in Clients : ipc'[d] = "finish" => ipc[d] = "finish" \/ d = c
    BY <1>7, <1>t DEF InterruptError
  <2>5. \A d \in Clients : ipc'[d] = "mark" => ipc[d] = "mark"
    BY <1>7, <1>t DEF InterruptError
  <2>6. UNCHANGED <<subPc, queue, cur, wpc, outcome, status, cancel, result, told, aim>>
    BY <1>7 DEF InterruptError
  <2>7. wpc = "tell" => cur \in Jobs
    BY <1>t
  <2>8. \A d \in Clients : ipc[d] = "finish" => aim[d] \in Jobs
    BY <1>t
  <2> QED
    BY <2>1, <2>2, <2>3, <2>4, <2>5, <2>6, <2>7, <2>8 DEF Backing, EventIsBacked, DroppedWasCancelled
<1>8. ASSUME NEW c \in Clients, InterruptFinish(c) PROVE Backing'
  <2>1. \A k : Queued(k)' <=> Queued(k)
    BY <1>8 DEF InterruptFinish, Queued
  <2>2. aim[c] \in Jobs /\ error[aim[c]] # "none"
    BY <1>8, <1>t DEF InterruptFinish, Backing
  <2>3. /\ \A k \in Jobs, e \in {"running", "done", "failed"} :
              e \in told'[k] <=> e \in told[k]
        /\ \A k \in Jobs : "cancelled" \in told'[k] <=> "cancelled" \in told[k] \/ k = aim[c]
    BY <1>8, <1>d, <2>2 DEF InterruptFinish, Publish
  <2>4. \A d \in Clients : ipc'[d] \in {"mark", "finish"} => ipc[d] = ipc'[d] /\ aim'[d] = aim[d]
    BY <1>8, <1>t DEF InterruptFinish
  <2>5. UNCHANGED <<subPc, queue, cur, wpc, outcome, status, cancel, error, result>>
    BY <1>8 DEF InterruptFinish
  <2>6. EventIsBacked'
    BY <2>2, <2>3, <2>5 DEF Backing, EventIsBacked
  <2>7. DroppedWasCancelled'
    BY <2>1, <2>3, <2>5 DEF Backing, DroppedWasCancelled
  <2> QED
    BY <2>4, <2>5, <2>6, <2>7 DEF Backing
<1>9. CASE WorkerGet
  <2>1. /\ \A k : Queued(k)' => Queued(k)
        /\ \A k : Queued(k) => Queued(k)' \/ k = cur'
    BY <1>9, QueuedGet DEF WorkerGet, TypeOK
  <2> QED
    BY <1>9, <1>t, <2>1, NoJobAssumption DEF WorkerGet, Backing, EventIsBacked, DroppedWasCancelled
<1>10. CASE WorkerSkip \/ WorkerAccept \/ WorkerStart
  <2>1. \A k : Queued(k)' <=> Queued(k)
    BY <1>10 DEF WorkerSkip, WorkerAccept, WorkerStart, Queued
  <2>2. cur \in Jobs
    BY <1>10, <1>t DEF WorkerSkip, WorkerAccept, WorkerStart
  <2>3. CASE WorkerSkip
    BY <1>t, <2>1, <2>2, <2>3 DEF WorkerSkip, Backing, EventIsBacked, DroppedWasCancelled
  <2>4. CASE WorkerAccept
    BY <1>t, <2>1, <2>2, <2>4 DEF WorkerAccept, Backing, EventIsBacked, DroppedWasCancelled
  <2>5. CASE WorkerStart
    BY <1>t, <2>1, <2>2, <2>5 DEF WorkerStart, Backing, EventIsBacked, DroppedWasCancelled
  <2> QED BY <1>10, <2>3, <2>4, <2>5
<1>11. CASE WorkerAnnounce \/ WorkerTell
  <2>1. \A k : Queued(k)' <=> Queued(k)
    BY <1>11 DEF WorkerAnnounce, WorkerTell, Queued
  <2>2. cur \in Jobs
    BY <1>11, <1>t DEF WorkerAnnounce, WorkerTell
  <2>3. CASE WorkerAnnounce
    <3>1. \A k \in Jobs, e \in {"done", "failed", "cancelled"} :
              e \in told'[k] <=> e \in told[k]
      BY <1>d, <2>2, <2>3 DEF WorkerAnnounce, Publish
    <3>2. \A k \in Jobs : k # cur => told'[k] = told[k]
      BY <1>d, <2>2, <2>3 DEF WorkerAnnounce, Publish
    <3> QED BY <1>t, <2>1, <2>2, <2>3, <3>1, <3>2 DEF WorkerAnnounce, Backing, EventIsBacked, DroppedWasCancelled
  <2>4. CASE WorkerTell
    <3>1. /\ told'[cur] = told[cur] \cup {outcome}
          /\ \A k \in Jobs : k # cur => told'[k] = told[k]
      BY <1>d, <2>2, <2>4 DEF WorkerTell, Publish
    <3>2. EventIsBacked'
      BY <2>2, <2>4, <3>1 DEF WorkerTell, Backing, EventIsBacked
    <3>3. DroppedWasCancelled'
      BY <2>1, <2>4, <3>1 DEF WorkerTell, Backing, DroppedWasCancelled
    <3> QED BY <2>4, <3>2, <3>3 DEF WorkerTell, Backing
  <2> QED BY <1>11, <2>3, <2>4
<1>12. CASE RunEnds
  <2>1. \A k : Queued(k)' <=> Queued(k)
    BY <1>12 DEF RunEnds, RunReturns, RunCancelled, RunFails, Queued
  <2>2. cur \in Jobs
    BY <1>12, <1>t DEF RunEnds, RunReturns, RunCancelled, RunFails
  <2> QED
    BY <1>12, <1>t, <2>1, <2>2
    DEF RunEnds, RunReturns, RunCancelled, RunFails, Backing, EventIsBacked, DroppedWasCancelled
<1>13. CASE WorkerStatus
  <2>1. \A k : Queued(k)' <=> Queued(k)
    BY <1>13 DEF WorkerStatus, Queued
  <2>2. cur \in Jobs /\ outcome \in Terminal
    BY <1>13, <1>t DEF WorkerStatus, Phases
  <2>3. wpc' = "tell" => outcome = "done"
    BY <1>13 DEF WorkerStatus
  <2> QED
    BY <1>13, <1>t, <2>1, <2>2, <2>3 DEF WorkerStatus, Terminal, Backing, EventIsBacked, DroppedWasCancelled
<1>14. CASE WorkerError
  <2>1. \A k : Queued(k)' <=> Queued(k)
    BY <1>14 DEF WorkerError, Queued
  <2>2. cur \in Jobs /\ outcome \in {"cancelled", "failed"}
    BY <1>14, <1>t DEF WorkerError, Phases
  <2>3. \A k \in Jobs : error[k] # "none" => error'[k] # "none"
    BY <1>14, <1>t, <2>2 DEF WorkerError
  <2> QED
    BY <1>14, <1>t, <2>1, <2>2, <2>3 DEF WorkerError, Backing, EventIsBacked, DroppedWasCancelled
<1>15. CASE WorkerFinally
  <2>1. \A k : Queued(k)' <=> Queued(k)
    BY <1>15 DEF WorkerFinally, Queued
  <2> QED
    BY <1>15, <2>1 DEF WorkerFinally, Backing, EventIsBacked, DroppedWasCancelled
<1>16. CASE WorkerEvict
  <2>1. \A k : Queued(k)' <=> Queued(k)
    BY <1>16 DEF WorkerEvict, Queued
  <2>2. cur \in Jobs /\ "running" \in told[cur]
    BY <1>16, <1>t DEF WorkerEvict, Statuses, Executing
  <2> QED
    BY <1>16, <2>1, <2>2 DEF WorkerEvict, Backing, EventIsBacked, DroppedWasCancelled
<1>17. CASE UNCHANGED vars
  BY <1>17, BackingFrame DEF vars
<1> QED
  BY <1>1, <1>2, <1>3, <1>4, <1>5, <1>6, <1>7, <1>8, <1>9, <1>10, <1>11, <1>12,
     <1>13, <1>14, <1>15, <1>16, <1>17
  DEF Next, Submit, InterruptStep, WorkerStep

-----------------------------------------------------------------------------

\* IInv is an invariant: the four groups preserve each other.
THEOREM InvariantHolds == Spec => []IInv
<1>1. IInv /\ [Next]_vars => IInv'
  BY TypeStep, PlacesStep, StatusesStep, BackingStep DEF IInv
<1> QED BY InitIInv, <1>1, PTL DEF Spec

\* Type correctness: whatever is submitted and interrupted, every variable
\* of the job system holds a value of its kind.
THEOREM TypeCorrect == Spec => []TypeOK
<1>1. IInv => TypeOK
  BY DEF IInv
<1> QED BY InvariantHolds, <1>1, PTL

\* The GPU is serial: a job whose status is running is the worker's job,
\* although interrupts write statuses without a lock.
THEOREM RunningJobIsHeld == Spec => []RunningIsHeld
<1>1. IInv => RunningIsHeld
  BY DEF IInv, Statuses
<1> QED BY InvariantHolds, <1>1, PTL

\* No submitted job is lost between the table, the queue and the worker.
THEOREM PendingJobIsInHand == Spec => []PendingIsInHand
<1>1. IInv => PendingIsInHand
  BY DEF IInv, Statuses
<1> QED BY InvariantHolds, <1>1, PTL

\* _evict never drops a pending or running job.
THEOREM EvictionSparesLiveJobs == Spec => []LiveJobIsKept
<1>1. IInv => LiveJobIsKept
  BY DEF IInv, Statuses
<1> QED BY InvariantHolds, <1>1, PTL

\* A done job has its result; a job told failed or cancelled has an error.
THEOREM TerminalEventIsBacked == Spec => []EventIsBacked
<1>1. IInv => EventIsBacked
  BY DEF IInv, Backing
<1> QED BY InvariantHolds, <1>1, PTL

\* The worker's `continue' drops only jobs that were cancelled.
THEOREM DroppedJobWasCancelled == Spec => []DroppedWasCancelled
<1>1. IInv => DroppedWasCancelled
  BY DEF IInv, Backing
<1> QED BY InvariantHolds, <1>1, PTL

\* The job that the worker runs is running, or an interrupt that had read
\* pending before has cancelled it; no job is told done or failed before the
\* worker is through with it.
Running ==
    /\ wpc \in {"announce", "run", "status"} => status[cur] \in {"running", "cancelled"}
    /\ \A j \in Jobs :
           \/ subPc[j] \in {"new", "tabled"} \/ Queued(j)
           \/ cur = j /\ wpc \notin {"finally", "evict"}
           => told[j] \cap {"done", "failed"} = {}

RInv == IInv /\ Running

LEMMA RunningStep == RInv /\ [Next]_vars => Running'
<1> SUFFICES ASSUME RInv, [Next]_vars PROVE Running'
  OBVIOUS
<1> USE DEF jobVars, workerVars, clientVars
<1>t. /\ status \in [Jobs -> {"none"} \cup Live \cup Terminal]
      /\ told \in [Jobs -> SUBSET EventTypes]
      /\ subPc \in [Jobs -> {"new", "tabled", "queued", "sent"}]
      /\ queue \in Seq(Jobs) /\ cur \in Jobs \cup {NoJob}
      /\ ipc \in [Clients -> {"idle", "loop", "mark", "error", "finish"}]
      /\ cur \in Jobs => subPc[cur] \in {"queued", "sent"}
      /\ cur = NoJob <=> wpc = "get"
      /\ \A m \in 1 .. Len(queue) : queue[m] # cur
  BY DEF RInv, IInv, TypeOK, EventTypes, Places, Phases
<1>r. Running
  BY DEF RInv
<1>1. ASSUME NEW k \in Jobs, SubmitInsert(k) PROVE Running'
  <2>1. \A j : Queued(j)' <=> Queued(j)
    BY <1>1 DEF SubmitInsert, Queued
  <2>2. k # cur
    BY <1>1, <1>t DEF SubmitInsert
  <2> QED BY <1>1, <1>t, <1>r, <2>1, <2>2 DEF SubmitInsert, Running
<1>2. ASSUME NEW k \in Jobs, SubmitPut(k) PROVE Running'
  <2>1. \A j \in Jobs : Queued(j)' => Queued(j) \/ j = k
    BY <1>2, <1>t, AppendProperties DEF SubmitPut, Queued
  <2> QED BY <1>2, <1>t, <1>r, <2>1 DEF SubmitPut, Running
<1>3. ASSUME NEW k \in Jobs, SubmitPublish(k) PROVE Running'
  <2>1. \A j : Queued(j)' <=> Queued(j)
    BY <1>3 DEF SubmitPublish, Queued
  <2>2. \A j \in Jobs : told'[j] \cap {"done", "failed"} = told[j] \cap {"done", "failed"}
    BY <1>3, <1>t DEF SubmitPublish, Publish
  <2> QED BY <1>3, <1>t, <1>r, <2>1, <2>2 DEF SubmitPublish, Running
<1>4. ASSUME NEW c \in Clients,
             InterruptTargets(c) \/ InterruptSignal(c) \/ InterruptError(c)
      PROVE  Running'
  <2>1. \A j : Queued(j)' <=> Queued(j)
    BY <1>4 DEF InterruptTargets, InterruptSignal, InterruptError, Queued
  <2> QED BY <1>4, <1>r, <2>1 DEF InterruptTargets, InterruptSignal, InterruptError, Running
<1>5. ASSUME NEW c \in Clients, InterruptMark(c) PROVE Running'
  <2>1. \A j : Queued(j)' <=> Queued(j)
    BY <1>5 DEF InterruptMark, Queued
  <2>2. cur \in Jobs => status'[cur] \in {status[cur], "cancelled"}
    BY <1>5, <1>t DEF InterruptMark
  <2> QED BY <1>5, <1>t, <1>r, <2>1, <2>2 DEF InterruptMark, Running
<1>6. ASSUME NEW c \in Clients, InterruptFinish(c) PROVE Running'
  <2>1. \A j : Queued(j)' <=> Queued(j)
    BY <1>6 DEF InterruptFinish, Queued
  <2>2. \A j \in Jobs : told'[j] \cap {"done", "failed"} = told[j] \cap {"done", "failed"}
    BY <1>6, <1>t DEF InterruptFinish, Publish
  <2> QED BY <1>6, <1>t, <1>r, <2>1, <2>2 DEF InterruptFinish, Running
<1>7. CASE WorkerGet
  <2>1. cur' \in Jobs /\ Queued(cur') /\ \A j \in Jobs : Queued(j)' => Queued(j)
    BY <1>7, <1>t, HeadTailProperties DEF WorkerGet, Queued
  <2> QED BY <1>7, <1>t, <1>r, <2>1 DEF WorkerGet, Running
<1>8. CASE WorkerSkip \/ WorkerAccept \/ WorkerError \/ WorkerFinally \/ WorkerEvict \/ RunEnds
  <2>1. \A j : Queued(j)' <=> Queued(j)
    BY <1>8 DEF WorkerSkip, WorkerAccept, WorkerError, WorkerFinally, WorkerEvict,
       RunEnds, RunReturns, RunCancelled, RunFails, Queued
  <2> QED
    BY <1>8, <1>t, <1>r, <2>1 DEF WorkerSkip, WorkerAccept, WorkerError, WorkerFinally,
       WorkerEvict, RunEnds, RunReturns, RunCancelled, RunFails, Running
<1>9. CASE WorkerStart \/ WorkerStatus
  <2>1. \A j : Queued(j)' <=> Queued(j)
    BY <1>9 DEF WorkerStart, WorkerStatus, Queued
  <2>2. cur \in Jobs
    BY <1>9, <1>t DEF WorkerStart, WorkerStatus
  <2> QED BY <1>9, <1>t, <1>r, <2>1, <2>2 DEF WorkerStart, WorkerStatus, Running
<1>10. CASE WorkerAnnounce
  <2>1. \A j : Queued(j)' <=> Queued(j)
    BY <1>10 DEF WorkerAnnounce, Queued
  <2>2. \A j \in Jobs : told'[j] \cap {"done", "failed"} = told[j] \cap {"done", "failed"}
    BY <1>10, <1>t DEF WorkerAnnounce, Publish
  <2> QED BY <1>10, <1>t, <1>r, <2>1, <2>2 DEF WorkerAnnounce, Running
<1>11. CASE WorkerTell
  <2>1. \A j : Queued(j)' <=> Queued(j)
    BY <1>11 DEF WorkerTell, Queued
  <2>2. \A j \in Jobs : j # cur => told'[j] = told[j]
    BY <1>11, <1>t DEF WorkerTell, Publish
  <2>3. ~Queued(cur) /\ (cur \in Jobs => subPc[cur] \notin {"new", "tabled"})
    BY <1>t DEF Queued
  <2> QED BY <1>11, <1>t, <1>r, <2>1, <2>2, <2>3 DEF WorkerTell, Running
<1>12. CASE UNCHANGED vars
  <2>1. \A j : Queued(j)' <=> Queued(j)
    BY <1>12 DEF vars, Queued
  <2> QED BY <1>12, <1>r, <2>1 DEF vars, Running
<1> QED
  BY <1>1, <1>2, <1>3, <1>4, <1>5, <1>6, <1>7, <1>8, <1>9, <1>10, <1>11, <1>12
  DEF Next, Submit, InterruptStep, WorkerStep

\* A final status is only ever overwritten by an interrupt that had read
\* `pending' before, or, where it is the `cancelled' of an interrupt, by the
\* worker that still has the job in hand and has told no end of it.
THEOREM FinalStatusIsKept == Spec => FinalStatusStays
<1>1. Init => Running
  BY EmptySeq DEF Init, Running, Queued
<1>2. RInv /\ [Next]_vars
      => [\A j \in Jobs : status[j] \in Terminal /\ status'[j] # status[j] =>
             \/ Doomed(j) /\ status'[j] = "cancelled"
             \/ /\ status[j] = "cancelled" /\ j \in cancel
                /\ cur = j /\ told[j] \cap {"done", "failed"} = {}]_vars
  <2> SUFFICES ASSUME RInv, Next, NEW j \in Jobs,
                      status[j] \in Terminal, status'[j] # status[j]
               PROVE  \/ Doomed(j) /\ status'[j] = "cancelled"
                      \/ /\ status[j] = "cancelled" /\ j \in cancel
                         /\ cur = j /\ told[j] \cap {"done", "failed"} = {}
    BY DEF vars
  <2> USE DEF jobVars, workerVars, clientVars
  <2>t. status \in [Jobs -> {"none"} \cup Live \cup Terminal]
    BY DEF RInv, IInv, TypeOK
  <2>1. ASSUME NEW k \in Jobs, Submit(k) PROVE FALSE
    <3>1. ASSUME SubmitInsert(k) PROVE FALSE
      <4>1. k # j
        BY <3>1 DEF SubmitInsert, RInv, IInv, Places, Terminal
      <4> QED BY <3>1, <2>t, <4>1 DEF SubmitInsert
    <3> QED BY <2>1, <3>1 DEF Submit, SubmitPut, SubmitPublish
  <2>2. ASSUME NEW c \in Clients, InterruptMark(c)
        PROVE  Doomed(j) /\ status'[j] = "cancelled"
    <3>1. aim[c] = j
      BY <2>2, <2>t DEF InterruptMark
    <3> QED BY <2>2, <2>t, <3>1 DEF InterruptMark, Doomed
  <2>3. ASSUME NEW c \in Clients,
               \/ InterruptTargets(c) \/ InterruptSignal(c)
               \/ InterruptError(c) \/ InterruptFinish(c)
        PROVE  FALSE
    BY <2>3 DEF InterruptTargets, InterruptSignal, InterruptError, InterruptFinish
  <2>4. CASE WorkerStart \/ WorkerStatus
    <3>1. cur = j /\ wpc \in {"start", "status"}
      BY <2>4, <2>t DEF WorkerStart, WorkerStatus
    <3>2. status[j] \in {"pending", "cancelled", "running"}
      BY <3>1 DEF RInv, IInv, Statuses, Running
    <3>3. status[j] = "cancelled"
      BY <3>2 DEF Terminal
    <3>4. j \in cancel
      BY <3>3 DEF RInv, IInv, Backing
    <3>5. told[j] \cap {"done", "failed"} = {}
      BY <3>1 DEF RInv, Running
    <3> QED BY <3>1, <3>3, <3>4, <3>5
  <2>5. ASSUME \/ WorkerGet \/ WorkerSkip \/ WorkerAccept \/ WorkerAnnounce
               \/ RunEnds \/ WorkerError \/ WorkerTell \/ WorkerFinally \/ WorkerEvict
        PROVE  FALSE
    BY <2>5 DEF WorkerGet, WorkerSkip, WorkerAccept, WorkerAnnounce, RunEnds,
       RunReturns, RunCancelled, RunFails, WorkerError, WorkerTell,
       WorkerFinally, WorkerEvict
  <2> QED
    BY <2>1, <2>2, <2>3, <2>4, <2>5 DEF Next, InterruptStep, WorkerStep
<1>3. Spec => []RInv
  <2>1. IInv /\ Running <=> RInv
    BY DEF RInv
  <2> QED BY InvariantHolds, <1>1, RunningStep, <2>1, PTL DEF Spec
<1> QED BY <1>2, <1>3, PTL DEF Spec, FinalStatusStays

-----------------------------------------------------------------------------
(* The retention limit. *)

\* The finished jobs of the table that have run and left the worker.
Settled == {j \in Finished : "running" \in told[j]} \ {cur}

Bound == IsFiniteSet(table) /\ Cardinality(Settled) <= Retained

\* Only _evict has to bring the number down: no other step adds to Settled.
LEMMA SettledShrinks ==
  ASSUME IInv, [Next]_vars, ~WorkerEvict
  PROVE  Settled' \subseteq Settled
<1> USE DEF jobVars, workerVars, clientVars
<1>t. /\ table \subseteq Jobs /\ cur \in Jobs \cup {NoJob}
      /\ told \in [Jobs -> SUBSET EventTypes]
      /\ \A k \in Jobs : "running" \in told[k] /\ cur # k => status[k] \in Terminal
      /\ table' \subseteq Jobs
  BY TypeStep DEF IInv, TypeOK, EventTypes, Statuses
<1> SUFFICES ASSUME NEW k \in Jobs, k \in table', "running" \in told'[k], k # cur'
             PROVE  k \in table /\ "running" \in told[k] /\ k # cur
  BY <1>t DEF Settled, Finished
<1>1. ASSUME NEW j \in Jobs, SubmitInsert(j)
      PROVE  k \in table /\ "running" \in told[k] /\ k # cur
  <2>1. "running" \notin told[j]
    BY <1>1 DEF SubmitInsert, IInv, Statuses
  <2> QED BY <1>1, <2>1 DEF SubmitInsert
<1>2. ASSUME NEW j \in Jobs, SubmitPut(j)
      PROVE  k \in table /\ "running" \in told[k] /\ k # cur
  BY <1>2 DEF SubmitPut
<1>3. ASSUME NEW j \in Jobs, SubmitPublish(j)
      PROVE  k \in table /\ "running" \in told[k] /\ k # cur
  BY <1>3, <1>t DEF SubmitPublish, Publish
<1>4. ASSUME NEW c \in Clients,
             \/ InterruptTargets(c) \/ InterruptSignal(c)
             \/ InterruptMark(c) \/ InterruptError(c)
      PROVE  k \in table /\ "running" \in told[k] /\ k # cur
  BY <1>4 DEF InterruptTargets, InterruptSignal, InterruptMark, InterruptError
<1>5. ASSUME NEW c \in Clients, InterruptFinish(c)
      PROVE  k \in table /\ "running" \in told[k] /\ k # cur
  BY <1>5, <1>t DEF InterruptFinish, Publish
<1>6. CASE WorkerGet
  <2>1. cur = NoJob
    BY <1>6 DEF WorkerGet, IInv, Phases
  <2> QED BY <1>6, <2>1, NoJobAssumption DEF WorkerGet
<1>7. CASE WorkerSkip
  <2>1. cur \in Jobs => "running" \notin told[cur]
    BY <1>7 DEF WorkerSkip, IInv, Statuses
  <2> QED BY <1>7, <2>1 DEF WorkerSkip
<1>8. CASE WorkerAnnounce
  BY <1>8, <1>t DEF WorkerAnnounce, Publish
<1>9. CASE WorkerTell
  <2>1. outcome # "running"
    BY <1>9 DEF WorkerTell, IInv, Phases, Terminal
  <2> QED BY <1>9, <1>t, <2>1 DEF WorkerTell, Publish
<1>10. CASE \/ WorkerAccept \/ WorkerStart \/ RunEnds \/ WorkerStatus
            \/ WorkerError \/ WorkerFinally
  BY <1>10 DEF WorkerAccept, WorkerStart, RunEnds, RunReturns, RunCancelled,
     RunFails, WorkerStatus, WorkerError, WorkerFinally
<1>11. CASE UNCHANGED vars
  BY <1>11 DEF vars
<1> QED
  BY <1>1, <1>2, <1>3, <1>4, <1>5, <1>6, <1>7, <1>8, <1>9, <1>10, <1>11
  DEF Next, Submit, InterruptStep, WorkerStep

\* The table only grows by the job a submit inserts.
LEMMA TableStays ==
  ASSUME [Next]_vars, IsFiniteSet(table)
  PROVE  IsFiniteSet(table')
<1> USE DEF jobVars, workerVars, clientVars
<1>1. (\E j \in Jobs : table' = table \cup {j}) \/ table' \subseteq table
  BY DEF Next, Submit, SubmitInsert, SubmitPut, SubmitPublish, InterruptTargets,
     InterruptStep, InterruptSignal, InterruptMark, InterruptError, InterruptFinish,
     WorkerStep, WorkerGet, WorkerSkip, WorkerAccept, WorkerStart, WorkerAnnounce,
     RunEnds, RunReturns, RunCancelled, RunFails, WorkerStatus, WorkerError,
     WorkerTell, WorkerFinally, WorkerEvict, vars
<1> QED BY <1>1, FS_AddElement, FS_Subset

LEMMA BoundStep == IInv /\ Bound /\ [Next]_vars => Bound'
<1> SUFFICES ASSUME IInv, Bound, [Next]_vars PROVE Bound'
  OBVIOUS
<1> USE RetainedAssumption
<1>1. IsFiniteSet(table')
  BY TableStays DEF Bound
<1>2. IsFiniteSet(Finished) /\ Finished \subseteq table /\ Settled \subseteq Finished
  <2>1. Finished \subseteq table /\ Settled \subseteq Finished
    BY DEF Settled, Finished
  <2> QED BY <2>1, FS_Subset DEF Bound
<1>3. CASE ~WorkerEvict
  <2>1. Settled' \subseteq Settled /\ IsFiniteSet(Settled)
    BY <1>2, <1>3, SettledShrinks, FS_Subset
  <2>2. Cardinality(Settled') <= Cardinality(Settled) /\ IsFiniteSet(Settled')
    BY <2>1, FS_Subset
  <2>3. Cardinality(Settled') \in Nat /\ Cardinality(Settled) \in Nat
    BY <2>1, <2>2, FS_CardinalityType
  <2> QED BY <1>1, <2>2, <2>3 DEF Bound
<1>4. CASE WorkerEvict
  <2>1. \A j : j \in Settled' => j \in Finished /\ j \in table'
    BY <1>4 DEF WorkerEvict, jobVars, Settled, Finished
  <2>2. PICK kept \in SUBSET Finished : Settled' \subseteq kept /\ Cardinality(kept) <= Retained
    <3>1. CASE Cardinality(Finished) <= Retained
      BY <2>1, <3>1
    <3>2. CASE ~(Cardinality(Finished) <= Retained)
      <4>1. PICK gone \in SUBSET Finished :
                /\ Cardinality(Finished \ gone) = Retained
                /\ table' = table \ gone
        BY <1>4, <3>2 DEF WorkerEvict, Oldest
      <4>2. Settled' \subseteq Finished \ gone
        BY <2>1, <4>1
      <4> QED BY <4>1, <4>2
    <3> QED BY <3>1, <3>2
  <2>3. IsFiniteSet(kept) /\ IsFiniteSet(Settled') /\ Cardinality(Settled') <= Cardinality(kept)
    BY <1>2, <2>2, FS_Subset
  <2>4. Cardinality(Settled') \in Nat /\ Cardinality(kept) \in Nat
    BY <2>3, FS_CardinalityType
  <2> QED BY <1>1, <2>2, <2>3, <2>4 DEF Bound
<1> QED BY <1>3, <1>4

LEMMA BoundSuffices == IInv /\ Bound => RanWithinRetained
<1> SUFFICES ASSUME IInv, Bound PROVE RanWithinRetained
  OBVIOUS
<1> DEFINE Ran == {j \in Finished : "running" \in told[j]}
<1>1. Ran \subseteq Jobs /\ Ran \subseteq table /\ cur \in Jobs \cup {NoJob}
  BY DEF IInv, TypeOK, Finished
<1>2. IsFiniteSet(Ran) /\ IsFiniteSet(Settled)
  <2>1. Settled \subseteq Ran
    BY DEF Settled
  <2> QED BY <1>1, <2>1, FS_Subset DEF Bound
<1>3. Cardinality(Settled) \in Nat /\ Cardinality(Settled) <= Retained
  BY <1>2, FS_CardinalityType DEF Bound
<1>4. CASE Executing
  <2>1. Ran \subseteq Settled \cup {cur}
    BY DEF Settled
  <2>2. /\ IsFiniteSet(Settled \cup {cur})
        /\ Cardinality(Settled \cup {cur}) \in {Cardinality(Settled), Cardinality(Settled) + 1}
    BY <1>2, FS_AddElement
  <2>3. Cardinality(Ran) <= Cardinality(Settled \cup {cur})
    BY <2>1, <2>2, FS_Subset
  <2>4. Cardinality(Ran) \in Nat
    BY <1>2, FS_CardinalityType
  <2> QED
    BY <1>3, <1>4, <2>2, <2>3, <2>4, RetainedAssumption DEF RanWithinRetained
<1>5. CASE ~Executing
  <2>1. cur \notin Ran
    <3>1. cur \in Jobs => wpc \in {"test", "start"}
      BY <1>5, NoJobAssumption DEF Executing, IInv, TypeOK, Phases
    <3> QED BY <1>1, <3>1, NoJobAssumption DEF IInv, Statuses
  <2>2. Ran = Settled
    BY <2>1 DEF Settled
  <2> QED
    BY <1>3, <1>5, <2>2, RetainedAssumption DEF RanWithinRetained
<1> QED BY <1>4, <1>5

\* Of the jobs that have run the table keeps at most Retained finished ones,
\* and one more until the worker has evicted.
THEOREM RetentionBound == Spec => []RanWithinRetained
<1>1. Init => Bound
  <2> SUFFICES ASSUME Init PROVE Bound
    OBVIOUS
  <2>1. table = {} /\ Settled = {}
    BY DEF Init, Settled, Finished
  <2> QED BY <2>1, FS_EmptySet, RetainedAssumption DEF Bound
<1> QED BY InvariantHolds, <1>1, BoundStep, BoundSuffices, PTL DEF Spec

-----------------------------------------------------------------------------
(***************************************************************************)
(* The safety part of ServesInTurn: every step of the job system is a step *)
(* of SerialQueue, or a stutter, under the mapping Line, Fate.  (Its       *)
(* fairness is left to the model checker.)                                 *)
(***************************************************************************)

\* Where a job is decides its fate; the cases exclude each other.
FateByPlace ==
    \A j \in Jobs :
        /\ subPc[j] \in {"new", "tabled"} => Fate[j] = "none"
        /\ Queued(j) \/ (cur = j /\ ~Executing) => Fate[j] = "waiting"
        /\ cur = j /\ Executing => Fate[j] = "active"
        /\ subPc[j] \notin {"new", "tabled"} /\ ~Queued(j) /\ cur # j
           => Fate[j] = IF "running" \in told[j] THEN "ran" ELSE "skipped"

LEMMA FateOf == IInv => FateByPlace
<1> SUFFICES ASSUME IInv, NEW j \in Jobs
    PROVE  /\ subPc[j] \in {"new", "tabled"} => Fate[j] = "none"
           /\ Queued(j) \/ (cur = j /\ ~Executing) => Fate[j] = "waiting"
           /\ cur = j /\ Executing => Fate[j] = "active"
           /\ subPc[j] \notin {"new", "tabled"} /\ ~Queued(j) /\ cur # j
              => Fate[j] = IF "running" \in told[j] THEN "ran" ELSE "skipped"
  BY DEF FateByPlace
<1>1. Queued(j) => subPc[j] \notin {"new", "tabled"} /\ cur # j
  BY DEF Queued, IInv, Places
<1>2. cur = j => subPc[j] \notin {"new", "tabled"}
  BY DEF IInv, Places
<1> QED BY <1>1, <1>2 DEF Fate

\* The four places are all there are.
LEMMA Somewhere ==
  ASSUME NEW j
  PROVE  \/ subPc[j] \in {"new", "tabled"}
         \/ Queued(j)
         \/ cur = j /\ ~Executing
         \/ cur = j /\ Executing
         \/ subPc[j] \notin {"new", "tabled"} /\ ~Queued(j) /\ cur # j
OBVIOUS

\* Functions on Jobs are equal if they agree on Jobs.
LEMMA FateEquals ==
  ASSUME NEW f, f = [j \in Jobs |-> f[j]], \A j \in Jobs : Fate'[j] = f[j]
  PROVE  Fate' = f
<1>1. Fate' = [j \in Jobs |-> Fate'[j]]
  BY DEF Fate
<1> QED BY <1>1

LEMMA FateFunction == Fate = [j \in Jobs |-> Fate[j]]
BY DEF Fate

LEMMA FateExcept ==
  ASSUME NEW j \in Jobs, NEW v, Fate'[j] = v,
         \A k \in Jobs : k # j => Fate'[k] = Fate[k]
  PROVE  Fate' = [Fate EXCEPT ![j] = v]
<1> DEFINE f == [Fate EXCEPT ![j] = v]
<1>1. DOMAIN Fate = Jobs
  BY DEF Fate
<1>2. f = [k \in Jobs |-> IF k = j THEN v ELSE Fate[k]]
  BY <1>1
<1>3. f = [k \in Jobs |-> f[k]] /\ \A k \in Jobs : Fate'[k] = f[k]
  BY <1>2
<1> HIDE DEF f
<1>4. Fate' = f
  BY <1>3, FateEquals
<1> QED BY <1>4 DEF f

\* Steps that leave every job where it is.
LEMMA Stutters ==
  ASSUME FateByPlace, FateByPlace', UNCHANGED <<queue, cur, cancel>>,
         Executing' <=> Executing,
         wpc' \in {"test", "start"} <=> wpc \in {"test", "start"},
         \A j \in Jobs :
            /\ subPc'[j] \in {"new", "tabled"} <=> subPc[j] \in {"new", "tabled"}
            /\ cur # j => ("running" \in told'[j] <=> "running" \in told[j])
  PROVE  UNCHANGED Serial!vars
<1>1. \A j : Queued(j)' <=> Queued(j)
  BY DEF Queued
<1>2. \A j \in Jobs : Fate'[j] = Fate[j]
  BY <1>1, Somewhere DEF FateByPlace
<1>3. Fate' = Fate
  BY <1>2, FateEquals, FateFunction
<1> QED BY <1>3 DEF Serial!vars, Line

LEMMA RefinesInit == Init => Serial!Init
<1> SUFFICES ASSUME Init PROVE Serial!Init
  OBVIOUS
<1>1. Line = <<>> /\ ~Executing
  BY DEF Init, Line, Executing
<1>2. Fate = [j \in Jobs |-> "none"]
  BY InitIInv, FateOf, FateFunction DEF FateByPlace, Init
<1> QED BY <1>1, <1>2 DEF Init, Serial!Init

LEMMA RefinesStep ==
  IInv /\ IInv' /\ FateByPlace /\ FateByPlace' /\ [Next]_vars
  => [Serial!Next]_(Serial!vars)
<1> SUFFICES ASSUME IInv, IInv', FateByPlace, FateByPlace', [Next]_vars
             PROVE  [Serial!Next]_(Serial!vars)
  OBVIOUS
<1> USE DEF jobVars, workerVars, clientVars
<1>t. /\ subPc \in [Jobs -> {"new", "tabled", "queued", "sent"}]
      /\ queue \in Seq(Jobs) /\ cur \in Jobs \cup {NoJob}
      /\ told \in [Jobs -> SUBSET EventTypes]
      /\ (cur = NoJob <=> wpc = "get")
      /\ \A c \in Clients : ipc[c] \in {"mark", "error", "finish"} => aim[c] \in Jobs
  BY DEF IInv, TypeOK, EventTypes, Phases
<1>l. /\ wpc \in {"test", "start"} => ~Executing /\ Line = <<cur>> \o queue
      /\ wpc \notin {"test", "start"} => Line = queue
  BY DEF Line, Executing
<1>1. ASSUME NEW j \in Jobs, SubmitInsert(j) PROVE UNCHANGED Serial!vars
  BY <1>1, <1>t, Stutters DEF SubmitInsert, Executing
<1>2. ASSUME NEW j \in Jobs, SubmitPut(j) PROVE Serial!Join(j)
  <2>1. \A k : Queued(k)' <=> Queued(k) \/ k = j
    BY <1>2, <1>t, QueuedPut DEF SubmitPut
  <2>2. Fate[j] = "none" /\ Fate'[j] = "waiting"
    BY <1>2, <2>1 DEF SubmitPut, FateByPlace
  <2>3. \A k \in Jobs : k # j => Fate'[k] = Fate[k]
    <3> SUFFICES ASSUME NEW k \in Jobs, k # j PROVE Fate'[k] = Fate[k]
      OBVIOUS
    <3>1. /\ subPc'[k] = subPc[k] /\ told' = told /\ cur' = cur
          /\ (Queued(k)' <=> Queued(k)) /\ (Executing' <=> Executing)
      BY <1>2, <1>t, <2>1 DEF SubmitPut, Executing
    <3> QED BY <3>1, Somewhere DEF FateByPlace
  <2>4. Fate' = [Fate EXCEPT ![j] = "waiting"]
    BY <2>2, <2>3, FateExcept
  <2>5. Line' = Append(Line, j)
    <3>1. CASE wpc \in {"test", "start"}
      <4>1. <<cur>> \in Seq(Jobs) /\ cur \in Jobs
        BY <1>t, <3>1
      <4> QED BY <1>2, <1>t, <3>1, <4>1 DEF SubmitPut, Line
    <3>2. CASE wpc \notin {"test", "start"}
      BY <1>2, <3>2 DEF SubmitPut, Line
    <3> QED BY <3>1, <3>2
  <2> QED BY <1>2, <2>2, <2>4, <2>5 DEF SubmitPut, Serial!Join, Executing
<1>3. ASSUME NEW j \in Jobs, SubmitPublish(j) PROVE UNCHANGED Serial!vars
  <2>1. \A k \in Jobs : "running" \in told'[k] <=> "running" \in told[k]
    BY <1>3, <1>t DEF SubmitPublish, Publish
  <2> QED BY <1>3, <1>t, <2>1, Stutters DEF SubmitPublish, Executing
<1>4. ASSUME NEW c \in Clients,
             InterruptTargets(c) \/ InterruptMark(c) \/ InterruptError(c)
      PROVE  UNCHANGED Serial!vars
  BY <1>4, Stutters DEF InterruptTargets, InterruptMark, InterruptError, Executing
<1>5. ASSUME NEW c \in Clients, InterruptSignal(c)
      PROVE  \E j \in Jobs : Serial!Ask(j)
  <2>1. PICK j \in todo[c] : cancel' = cancel \cup {j}
    BY <1>5 DEF InterruptSignal
  <2>2. j \in Jobs
    BY DEF IInv, TypeOK
  <2>3. UNCHANGED <<subPc, queue, told, wpc, cur>>
    BY <1>5 DEF InterruptSignal
  <2>4. UNCHANGED <<Line, Fate>> /\ (Executing' <=> Executing)
    BY <2>3 DEF Line, Fate, Queued, Executing
  <2> QED BY <2>1, <2>2, <2>3, <2>4 DEF Serial!Ask
<1>6. ASSUME NEW c \in Clients, InterruptFinish(c) PROVE UNCHANGED Serial!vars
  <2>1. \A k \in Jobs : "running" \in told'[k] <=> "running" \in told[k]
    BY <1>6, <1>t DEF InterruptFinish, Publish
  <2> QED BY <1>6, <2>1, Stutters DEF InterruptFinish, Executing
<1>7. CASE WorkerGet
  <2>1. /\ cur = NoJob /\ cur' \in Jobs /\ ~Executing /\ ~Executing'
        /\ UNCHANGED <<subPc, told, cancel>>
    BY <1>7, <1>t, HeadTailProperties DEF WorkerGet, Executing
  <2>2. Line' = Line
    <3>1. Line' = <<Head(queue)>> \o Tail(queue)
      BY <1>7 DEF WorkerGet, Line
    <3>2. <<Head(queue)>> \o Tail(queue) = queue
      BY <1>7, <1>t DEF WorkerGet
    <3> QED BY <1>7, <3>1, <3>2 DEF WorkerGet, Line
  <2>3. \A k \in Jobs : Fate'[k] = Fate[k]
    <3>1. \A k : Queued(k)' => Queued(k)
      BY <1>7, <1>t, QueuedGet DEF WorkerGet
    <3>2. \A k : Queued(k) => Queued(k)' \/ k = cur'
      BY <1>7, <1>t, QueuedGet DEF WorkerGet
    <3>3. Queued(cur')
      BY <1>7, <1>t, GetQueue DEF WorkerGet, Queued
    <3> QED BY <2>1, <3>1, <3>2, <3>3, Somewhere, NoJobAssumption DEF FateByPlace
  <2>4. Fate' = Fate
    BY <2>3, FateEquals, FateFunction
  <2> QED BY <2>1, <2>2, <2>4 DEF Serial!vars
<1>8. CASE WorkerSkip
  <2>1. /\ cur \in Jobs /\ cur \in cancel /\ "running" \notin told[cur]
        /\ subPc[cur] \notin {"new", "tabled"} /\ ~Queued(cur)
    BY <1>8, <1>t DEF WorkerSkip, IInv, Places, Statuses, Backing, Queued
  <2>2. \A k : Queued(k)' <=> Queued(k)
    BY <1>8 DEF WorkerSkip, Queued
  <2>3. ~Executing /\ ~Executing' /\ cur' = NoJob /\ UNCHANGED <<subPc, told, cancel>>
    BY <1>8 DEF WorkerSkip, Executing
  <2>4. Fate'[cur] = "skipped"
    BY <2>1, <2>2, <2>3, NoJobAssumption DEF FateByPlace
  <2>5. \A k \in Jobs : k # cur => Fate'[k] = Fate[k]
    BY <2>2, <2>3, Somewhere, NoJobAssumption DEF FateByPlace
  <2>6. Fate' = [Fate EXCEPT ![cur] = "skipped"]
    BY <2>1, <2>4, <2>5, FateExcept
  <2>7. /\ Line # <<>> /\ Head(Line) = cur /\ Tail(Line) = queue /\ Line' = queue
    <3>1. Line = <<cur>> \o queue /\ Line' = queue
      BY <1>8 DEF WorkerSkip, Line
    <3>2. <<cur>> \in Seq(Jobs)
      BY <2>1
    <3> QED BY <1>t, <3>1, <3>2
  <2> QED BY <2>1, <2>3, <2>6, <2>7 DEF Serial!Skip, Serial!Next, Serial!Serve
<1>9. CASE WorkerAccept
  BY <1>9, Stutters DEF WorkerAccept, Executing
<1>10. CASE WorkerStart
  <2>1. cur \in Jobs /\ ~Queued(cur)
    BY <1>10, <1>t DEF WorkerStart, IInv, Places, Queued
  <2>2. \A k : Queued(k)' <=> Queued(k)
    BY <1>10 DEF WorkerStart, Queued
  <2>3. ~Executing /\ Executing' /\ cur' = cur /\ UNCHANGED <<subPc, told, cancel>>
    BY <1>10 DEF WorkerStart, Executing
  <2>4. Fate'[cur] = "active"
    BY <2>1, <2>3 DEF FateByPlace
  <2>5. \A k \in Jobs : k # cur => Fate'[k] = Fate[k]
    BY <2>2, <2>3, Somewhere DEF FateByPlace
  <2>6. Fate' = [Fate EXCEPT ![cur] = "active"]
    BY <2>1, <2>4, <2>5, FateExcept
  <2>7. /\ Line # <<>> /\ Head(Line) = cur /\ Tail(Line) = queue /\ Line' = queue
    <3>1. Line = <<cur>> \o queue /\ Line' = queue
      BY <1>10 DEF WorkerStart, Line
    <3>2. <<cur>> \in Seq(Jobs)
      BY <2>1
    <3> QED BY <1>t, <3>1, <3>2
  <2> QED BY <2>1, <2>3, <2>6, <2>7 DEF Serial!Begin, Serial!Next, Serial!Serve
<1>11. CASE WorkerAnnounce
  <2>1. \A k \in Jobs : cur # k => ("running" \in told'[k] <=> "running" \in told[k])
    BY <1>11, <1>t DEF WorkerAnnounce, Publish
  <2> QED BY <1>11, <2>1, Stutters DEF WorkerAnnounce, Executing
<1>12. CASE RunEnds \/ WorkerStatus \/ WorkerError \/ WorkerFinally
  <2>1. /\ wpc \notin {"get", "test", "start"} /\ wpc' \notin {"get", "test", "start"}
        /\ UNCHANGED <<queue, cur, cancel, subPc, told>>
    BY <1>12 DEF RunEnds, RunReturns, RunCancelled, RunFails, WorkerStatus,
       WorkerError, WorkerFinally
  <2> QED BY <2>1, Stutters DEF Executing
<1>13. CASE WorkerTell
  <2>1. \A k \in Jobs : cur # k => ("running" \in told'[k] <=> "running" \in told[k])
    BY <1>13, <1>t DEF WorkerTell, Publish
  <2> QED BY <1>13, <2>1, Stutters DEF WorkerTell, Executing
<1>14. CASE WorkerEvict
  <2>1. /\ cur \in Jobs /\ ~Queued(cur) /\ "running" \in told[cur]
        /\ subPc[cur] \notin {"new", "tabled"}
    BY <1>14, <1>t DEF WorkerEvict, IInv, Places, Statuses, Executing, Queued
  <2>2. \A k : Queued(k)' <=> Queued(k)
    BY <1>14 DEF WorkerEvict, Queued
  <2>3. Executing /\ ~Executing' /\ cur' = NoJob /\ UNCHANGED <<subPc, told, cancel>>
    BY <1>14 DEF WorkerEvict, Executing
  <2>4. Fate'[cur] = "ran"
    BY <2>1, <2>2, <2>3, NoJobAssumption DEF FateByPlace
  <2>5. \A k \in Jobs : k # cur => Fate'[k] = Fate[k]
    BY <2>2, <2>3, Somewhere, NoJobAssumption DEF FateByPlace
  <2>6. Fate' = [Fate EXCEPT ![cur] = "ran"]
    BY <2>1, <2>4, <2>5, FateExcept
  <2>7. Line' = Line
    BY <1>14 DEF WorkerEvict, Line
  <2> QED BY <2>1, <2>3, <2>6, <2>7, NoJobAssumption DEF Serial!End, Serial!Next, Serial!Serve
<1>15. CASE UNCHANGED vars
  BY <1>15, Stutters DEF vars, Executing
<1> QED
  BY <1>1, <1>2, <1>3, <1>4, <1>5, <1>6, <1>7, <1>8, <1>9, <1>10, <1>11, <1>12,
     <1>13, <1>14, <1>15
  DEF Next, Submit, InterruptStep, WorkerStep, Serial!Next

\* The job system is a serial queue: one job at a time, each at most once, in
\* the order of the queue, and only jobs asked to stop are passed over.
THEOREM RefinesSerialQueue == Spec => Serial!Spec
<1> QED
  BY InvariantHolds, FateOf, RefinesInit, RefinesStep, PTL DEF Spec, Serial!Spec

-----------------------------------------------------------------------------
(***************************************************************************)
(* Watch.  The bus takes no part in the job system: a step of Watch is a   *)
(* step of JobQueue or leaves it alone, so what is proved above holds here *)
(* too.  NothingMissed is not inductive, as it speaks of empty queues      *)
(* only.  Informed says where the news of a final status is until then:    *)
(* with the client, in one of the two queues, or with the thread that has  *)
(* written the status and is still to publish it.                          *)
(***************************************************************************)

Events == [job : Jobs \cup {NoJob}, type : EventTypes \cup {"progress", "ping"}]

WatchKinds ==
    /\ subs \subseteq Watchers /\ dropped \subseteq Watchers
    /\ inbox \in [Watchers -> Seq(Events)] /\ aq \in [Watchers -> Seq(Events)]
    /\ ws \in [Watchers -> {"off", "subscribed", "open", "closed"}]
    /\ peer \in [Watchers -> {"there", "gone"}]
    /\ heard \in [Watchers -> SUBSET (Terminal \cup {"not found"})]

\* A connection that is not closed yet is known to the bus.
Subscribed == \A w \in Watchers : ws[w] \in {"subscribed", "open"} => w \in subs

Has(s, x) == \E n \in 1 .. Len(s) : s[n] = x

News(j) == [job |-> j, type |-> status[j]]

OnItsWay(w, j) == Has(inbox[w], News(j)) \/ Has(aq[w], News(j))

\* Who has written the status of j is about to publish it.
ToBeTold(j) ==
    \/ /\ status[j] = "cancelled"
       /\ \E c \in Clients : aim[c] = j /\ ipc[c] \in {"error", "finish"}
    \/ cur = j /\ wpc \in {"error", "tell"} /\ status[j] = outcome

Knows(w, j) == status[j] \in heard[w] \/ "not found" \in heard[w]

\* The connection shows its client the job, and has lost nothing.
Follows(w, j) == ws[w] = "open" /\ peer[w] = "there" /\ w \notin dropped /\ Of[w] = j

Informed ==
    \A w \in Watchers, j \in Jobs :
        Follows(w, j) /\ status[j] \in Terminal
        => Knows(w, j) \/ OnItsWay(w, j) \/ ToBeTold(j)

WatchInv == WatchKinds /\ Subscribed /\ Informed

-----------------------------------------------------------------------------
(* The bus and the job system. *)

LEMMA WatchStepIsJobStep == [WatchNext]_allVars => [Next]_vars
<1> SUFFICES ASSUME [WatchNext]_allVars PROVE [Next]_vars
  OBVIOUS
<1>1. CASE Telling
  BY <1>1 DEF Telling, Next, Submit, InterruptStep, WorkerStep
<1>2. CASE Silent
  BY <1>2 DEF Silent, Next, Submit, InterruptStep, WorkerStep
<1>3. CASE Report \/ OtherReport
  BY <1>3 DEF Report, OtherReport
<1>4. ASSUME NEW w \in Watchers,
             \/ Connect(w) \/ Snapshot(w) \/ PumpGet(w) \/ PumpPing(w)
             \/ Send(w) \/ SendFails(w) \/ PeerLeaves(w)
      PROVE  UNCHANGED vars
  BY <1>4 DEF Connect, Snapshot, PumpGet, PumpPing, Send, SendFails, PeerLeaves
<1>5. CASE UNCHANGED allVars
  BY <1>5 DEF allVars
<1> QED BY <1>1, <1>2, <1>3, <1>4, <1>5 DEF WatchNext

\* The job system that is watched is the one of JobQueue: the connections, their
\* pumps and their sends change nothing in it.
THEOREM WatchingIsHarmless == WatchSpec => Spec
<1>1. WatchInit => Init
  BY DEF WatchInit
<1> QED BY <1>1, WatchStepIsJobStep, PTL DEF WatchSpec, Spec

-----------------------------------------------------------------------------
(* The queues. *)

LEMMA AppendHas ==
  ASSUME NEW S, NEW s \in Seq(S), NEW e \in S
  PROVE  /\ Append(s, e) \in Seq(S) /\ Has(Append(s, e), e)
         /\ \A x : Has(s, x) => Has(Append(s, e), x)
<1>1. /\ Append(s, e) \in Seq(S) /\ Len(s) \in Nat
      /\ Len(Append(s, e)) = Len(s) + 1
      /\ \A n \in 1 .. Len(s) : Append(s, e)[n] = s[n]
      /\ Append(s, e)[Len(s) + 1] = e
  BY AppendProperties, LenProperties
<1>2. /\ Len(s) + 1 \in 1 .. Len(Append(s, e))
      /\ \A n \in 1 .. Len(s) : n \in 1 .. Len(Append(s, e))
  BY <1>1
<1> QED BY <1>1, <1>2 DEF Has

LEMMA TailHas ==
  ASSUME NEW S, NEW s \in Seq(S), s # <<>>
  PROVE  /\ Head(s) \in S /\ Tail(s) \in Seq(S)
         /\ \A x : Has(s, x) => x = Head(s) \/ Has(Tail(s), x)
<1>1. Len(s) \in Nat \ {0}
  BY EmptySeq, LenProperties
<1>2. /\ Head(s) \in S /\ Head(s) = s[1] /\ Tail(s) \in Seq(S)
      /\ Len(Tail(s)) = Len(s) - 1
      /\ \A n \in 1 .. Len(Tail(s)) : Tail(s)[n] = s[n + 1]
  BY <1>1, HeadTailProperties
<1>3. ASSUME NEW x, Has(s, x), x # s[1] PROVE Has(Tail(s), x)
  <2>1. PICK n \in 1 .. Len(s) : s[n] = x
    BY <1>3 DEF Has
  <2>2. n - 1 \in 1 .. Len(Tail(s)) /\ (n - 1) + 1 = n
    BY <1>1, <1>2, <1>3, <2>1
  <2> QED BY <1>2, <2>1, <2>2 DEF Has
<1> QED BY <1>2, <1>3

LEMMA NothingInEmpty == \A x : ~Has(<<>>, x)
BY DEF Has

\* An event reaches each connection that does not lose it.
LEMMA BroadcastReaches ==
  ASSUME WatchKinds, NEW j \in Jobs \cup {NoJob},
         NEW type \in EventTypes \cup {"progress"}, Broadcast(j, type)
  PROVE  /\ WatchKinds'
         /\ \A w \in Watchers :
               /\ \A x : Has(inbox[w], x) => Has(inbox'[w], x)
               /\ w \in subs /\ w \notin dropped' /\ peer[w] = "there"
                  => Has(inbox'[w], [job |-> j, type |-> type])
<1> DEFINE ev == [job |-> j, type |-> type]
<1>1. ev \in Events
  BY DEF Events
<1>2. inbox \in [Watchers -> Seq(Events)]
  BY DEF WatchKinds
<1> HIDE DEF ev
<1>3. inbox' = [w \in Watchers |-> IF w \in subs /\ ~Full(w)
                                   THEN Append(inbox[w], ev) ELSE inbox[w]]
  BY DEF Broadcast, ev
<1>4. ASSUME NEW w \in Watchers
      PROVE  /\ inbox'[w] \in Seq(Events)
             /\ \A x : Has(inbox[w], x) => Has(inbox'[w], x)
             /\ w \in subs /\ ~Full(w) => Has(inbox'[w], ev)
  BY <1>1, <1>2, <1>3, AppendHas
<1>5. dropped' = dropped \cup {w \in subs : Full(w) /\ peer[w] = "there"}
  BY DEF Broadcast
<1>6. WatchKinds'
  <2>1. inbox' \in [Watchers -> Seq(Events)]
    BY <1>3, <1>4
  <2> QED BY <1>5, <2>1 DEF WatchKinds, Broadcast
<1> QED BY <1>4, <1>5, <1>6 DEF ev

-----------------------------------------------------------------------------
(* The job system keeps its promise to tell. *)

\* A step that publishes nothing leaves the status and its news alone, or will
\* publish.
LEMMA SilentKeeps ==
  ASSUME IInv, Silent, NEW j \in Jobs, status'[j] \in Terminal
  PROVE  ToBeTold(j)' \/ (status'[j] = status[j] /\ ~ToBeTold(j))
<1>t. /\ status \in [Jobs -> {"none"} \cup Live \cup Terminal]
      /\ ipc \in [Clients -> {"idle", "loop", "mark", "error", "finish"}]
      /\ aim \in [Clients -> Jobs \cup {NoJob}] /\ cur \in Jobs \cup {NoJob}
      /\ (cur = NoJob <=> wpc = "get")
      /\ wpc \in {"status", "tell"} => outcome \in Terminal
      /\ \A c \in Clients : ipc[c] \in {"mark", "error", "finish"} => aim[c] \in Jobs
  BY DEF IInv, TypeOK, Phases
<1> USE DEF ToBeTold, jobVars, workerVars, clientVars
<1>1. ASSUME NEW k \in Jobs, SubmitInsert(k) \/ SubmitPut(k)
      PROVE  ToBeTold(j)' \/ (status'[j] = status[j] /\ ~ToBeTold(j))
  BY <1>t, <1>1 DEF SubmitInsert, SubmitPut, Live, Terminal
<1>2. ASSUME NEW c \in Clients, InterruptTargets(c)
      PROVE  ToBeTold(j)' \/ (status'[j] = status[j] /\ ~ToBeTold(j))
  BY <1>t, <1>2 DEF InterruptTargets
<1>3. ASSUME NEW c \in Clients, InterruptSignal(c)
      PROVE  ToBeTold(j)' \/ (status'[j] = status[j] /\ ~ToBeTold(j))
  <2>1. \A d \in Clients : d # c => ipc'[d] = ipc[d] /\ aim'[d] = aim[d]
    BY <1>t, <1>3 DEF InterruptSignal
  <2>2. ipc[c] = "loop" /\ UNCHANGED <<status, wpc, cur, outcome>>
    BY <1>3 DEF InterruptSignal
  <2> QED BY <2>1, <2>2
<1>4. ASSUME NEW c \in Clients, InterruptMark(c) \/ InterruptError(c)
      PROVE  ToBeTold(j)' \/ (status'[j] = status[j] /\ ~ToBeTold(j))
  <2>1. CASE InterruptMark(c)
    <3>1. /\ ipc[c] = "mark" /\ ipc'[c] = "error" /\ aim[c] \in Jobs
          /\ status'[aim[c]] = "cancelled" /\ UNCHANGED <<aim, wpc, cur, outcome>>
          /\ \A d \in Clients : d # c => ipc'[d] = ipc[d]
          /\ aim[c] # j => status'[j] = status[j]
      BY <1>t, <2>1 DEF InterruptMark
    <3> QED BY <3>1
  <2>2. CASE InterruptError(c)
    <3>1. /\ ipc'[c] = "finish" /\ UNCHANGED <<status, aim, wpc, cur, outcome>>
          /\ \A d \in Clients : d # c => ipc'[d] = ipc[d]
      BY <1>t, <2>2 DEF InterruptError
    <3> QED BY <3>1
  <2> QED BY <1>4, <2>1, <2>2
<1>5. CASE WorkerGet \/ WorkerSkip \/ WorkerAccept \/ RunEnds \/ WorkerFinally \/ WorkerEvict
  BY <1>t, <1>5, NoJobAssumption
  DEF WorkerGet, WorkerSkip, WorkerAccept, RunEnds, RunReturns, RunCancelled, RunFails,
      WorkerFinally, WorkerEvict
<1>6. CASE WorkerStart
  BY <1>t, <1>6 DEF WorkerStart, Terminal
<1>7. CASE WorkerStatus \/ WorkerError
  BY <1>t, <1>7 DEF WorkerStatus, WorkerError
<1> QED BY <1>1, <1>2, <1>3, <1>4, <1>5, <1>6, <1>7 DEF Silent

\* A step that publishes leaves the status alone, and what it no longer holds
\* back it publishes.
LEMMA TellingTells ==
  ASSUME IInv, Telling
  PROVE  \E k \in Jobs, type \in EventTypes :
            /\ Broadcast(k, type) /\ status' = status
            /\ \A j \in Jobs : ToBeTold(j) => ToBeTold(j)' \/ (k = j /\ type = status[j])
<1>t. /\ ipc \in [Clients -> {"idle", "loop", "mark", "error", "finish"}]
      /\ aim \in [Clients -> Jobs \cup {NoJob}] /\ cur \in Jobs \cup {NoJob}
      /\ (cur = NoJob <=> wpc = "get")
      /\ wpc \in {"status", "tell"} => outcome \in Terminal
      /\ \A c \in Clients : ipc[c] \in {"mark", "error", "finish"} => aim[c] \in Jobs
  BY DEF IInv, TypeOK, Phases
<1> USE DEF ToBeTold, EventTypes, Terminal, workerVars, clientVars
<1>1. ASSUME NEW k \in Jobs, SubmitPublish(k) /\ Broadcast(k, "submitted")
      PROVE  \A j \in Jobs : ToBeTold(j) => ToBeTold(j)'
  BY <1>1 DEF SubmitPublish
<1>2. ASSUME NEW c \in Clients, InterruptFinish(c), NEW j \in Jobs, ToBeTold(j)
      PROVE  ToBeTold(j)' \/ (aim[c] = j /\ status[j] = "cancelled")
  BY <1>t, <1>2 DEF InterruptFinish
<1>3. CASE WorkerAnnounce /\ Broadcast(cur, "running")
  <2>1. \A j \in Jobs : ToBeTold(j) => ToBeTold(j)'
    BY <1>3 DEF WorkerAnnounce
  <2>2. cur \in Jobs /\ status' = status
    BY <1>t, <1>3 DEF WorkerAnnounce
  <2> QED BY <1>3, <2>1, <2>2
<1>4. CASE WorkerTell /\ Broadcast(cur, outcome)
  <2>1. \A j \in Jobs : ToBeTold(j) => ToBeTold(j)' \/ (cur = j /\ outcome = status[j])
    BY <1>4 DEF WorkerTell
  <2>2. cur \in Jobs /\ outcome \in EventTypes /\ status' = status
    BY <1>t, <1>4 DEF WorkerTell
  <2> QED BY <1>4, <2>1, <2>2
<1>5. ASSUME NEW c \in Clients, InterruptFinish(c)
      PROVE  aim[c] \in Jobs /\ status' = status
  BY <1>t, <1>5 DEF InterruptFinish
<1>6. ASSUME NEW k \in Jobs, SubmitPublish(k) PROVE status' = status
  BY <1>6 DEF SubmitPublish
<1> QED BY <1>1, <1>2, <1>3, <1>4, <1>5, <1>6 DEF Telling

-----------------------------------------------------------------------------
(* The invariant. *)

LEMMA WatchInitInv == WatchInit => WatchInv
<1> SUFFICES ASSUME WatchInit PROVE WatchInv
  OBVIOUS
<1>1. <<>> \in Seq(Events)
  BY EmptySeq
<1> QED BY <1>1 DEF WatchInit, WatchInv, WatchKinds, Subscribed, Informed, Follows

LEMMA WatchInvStep == IInv /\ IInv' /\ WatchInv /\ [WatchNext]_allVars => WatchInv'
<1> SUFFICES ASSUME IInv, IInv', WatchKinds, Subscribed, Informed, [WatchNext]_allVars
             PROVE  WatchInv'
  BY DEF WatchInv
<1>k. /\ inbox \in [Watchers -> Seq(Events)] /\ aq \in [Watchers -> Seq(Events)]
      /\ ws \in [Watchers -> {"off", "subscribed", "open", "closed"}]
      /\ peer \in [Watchers -> {"there", "gone"}]
      /\ heard \in [Watchers -> SUBSET (Terminal \cup {"not found"})]
      /\ subs \subseteq Watchers /\ dropped \subseteq Watchers
  BY DEF WatchKinds
\* Publishing.
<1>p. ASSUME NEW k \in Jobs \cup {NoJob}, NEW type \in EventTypes \cup {"progress"},
             Broadcast(k, type), status' = status,
             \A j \in Jobs : ToBeTold(j) => ToBeTold(j)' \/ (k = j /\ type = status[j])
      PROVE  WatchInv'
  <2>1. /\ WatchKinds' /\ UNCHANGED <<subs, aq, ws, peer, heard>>
        /\ dropped \subseteq dropped'
    BY <1>p, BroadcastReaches DEF Broadcast
  <2>2. Subscribed'
    BY <2>1 DEF Subscribed
  <2>3. ASSUME NEW w \in Watchers, NEW j \in Jobs, Follows(w, j)', status'[j] \in Terminal
        PROVE  Knows(w, j)' \/ OnItsWay(w, j)' \/ ToBeTold(j)'
    <3>1. Follows(w, j) /\ status[j] \in Terminal /\ w \in subs /\ News(j)' = News(j)
      BY <1>p, <2>1, <2>3 DEF Follows, Subscribed, News
    <3>2. CASE Knows(w, j)
      BY <1>p, <2>1, <3>2 DEF Knows
    <3>3. CASE OnItsWay(w, j)
      BY <1>p, <2>1, <3>1, <3>3, BroadcastReaches DEF OnItsWay
    <3>4. CASE ToBeTold(j) /\ k = j /\ type = status[j]
      <4>1. Has(inbox'[w], News(j))
        BY <1>p, <2>1, <2>3, <3>1, <3>4, BroadcastReaches DEF News, Follows
      <4> QED BY <3>1, <4>1 DEF OnItsWay
    <3> QED BY <1>p, <3>1, <3>2, <3>3, <3>4 DEF Informed
  <2> QED BY <2>1, <2>2, <2>3 DEF WatchInv, Informed
<1>1. CASE Telling
  <2>1. PICK k \in Jobs, type \in EventTypes :
            /\ Broadcast(k, type) /\ status' = status
            /\ \A j \in Jobs : ToBeTold(j) => ToBeTold(j)' \/ (k = j /\ type = status[j])
    BY <1>1, TellingTells
  <2> QED BY <1>p, <2>1
<1>2. CASE Silent
  <2>1. UNCHANGED watchVars
    BY <1>2 DEF Silent
  <2>2. WatchKinds' /\ Subscribed'
    BY <2>1 DEF watchVars, WatchKinds, Subscribed
  <2>3. ASSUME NEW w \in Watchers, NEW j \in Jobs, Follows(w, j)', status'[j] \in Terminal
        PROVE  Knows(w, j)' \/ OnItsWay(w, j)' \/ ToBeTold(j)'
    <3>1. CASE status'[j] = status[j] /\ ~ToBeTold(j)
      <4>1. Follows(w, j) /\ status[j] \in Terminal
        BY <2>1, <2>3, <3>1 DEF watchVars, Follows
      <4> QED BY <2>1, <3>1, <4>1 DEF watchVars, Informed, Knows, OnItsWay, News
    <3> QED BY <1>2, <2>3, <3>1, SilentKeeps
  <2> QED BY <2>2, <2>3 DEF WatchInv, Informed
<1>3. CASE Report \/ OtherReport
  <2>1. UNCHANGED vars
    BY <1>3 DEF Report, OtherReport
  <2>2. \A j \in Jobs : ToBeTold(j)' <=> ToBeTold(j)
    BY <2>1 DEF vars, jobVars, workerVars, clientVars, ToBeTold
  <2>3. \E k \in Jobs \cup {NoJob} : Broadcast(k, "progress")
    BY <1>3 DEF Report, OtherReport, IInv, TypeOK
  <2> QED BY <1>p, <2>1, <2>2, <2>3 DEF vars, jobVars
\* The connections.
<1>c. ASSUME UNCHANGED vars
      PROVE  status' = status /\ \A j \in Jobs : (ToBeTold(j)' <=> ToBeTold(j)) /\ News(j)' = News(j)
  BY <1>c DEF vars, jobVars, workerVars, clientVars, ToBeTold, News
<1>4. ASSUME NEW w \in Watchers, Connect(w) PROVE WatchInv'
  <2>1. WatchKinds' /\ Subscribed'
    BY <1>k, <1>4 DEF Connect, WatchKinds, Subscribed
  <2>2. \A v \in Watchers, j \in Jobs : Follows(v, j)' => Follows(v, j)
    BY <1>k, <1>4 DEF Connect, Follows
  <2>3. UNCHANGED <<vars, inbox, aq, heard>>
    BY <1>4 DEF Connect
  <2> QED BY <1>c, <2>1, <2>2, <2>3 DEF WatchInv, Informed, Knows, OnItsWay
<1>5. ASSUME NEW w \in Watchers, Snapshot(w) PROVE WatchInv'
  <2>1. UNCHANGED <<vars, subs, inbox, aq, peer, dropped>> /\ ws[w] = "subscribed"
    BY <1>5 DEF Snapshot
  <2>2. ws' = [ws EXCEPT ![w] = "open"]
    BY <1>5 DEF Snapshot
  <2>3. Subscribed'
    BY <1>k, <2>1, <2>2 DEF Subscribed
  <2> DEFINE snap == CASE Of[w] = NoJob -> heard[w]
                       [] Of[w] \in table -> {status[Of[w]]} \cap Terminal
                       [] OTHER -> {"not found"}
  <2>a. heard' = [heard EXCEPT ![w] = snap]
    BY <1>5 DEF Snapshot
  <2>b. Of[w] = NoJob => snap = heard[w]
    BY NoJobAssumption DEF IInv, TypeOK
  <2>c. Of[w] \in Jobs => snap = IF Of[w] \in table THEN {status[Of[w]]} \cap Terminal
                                                   ELSE {"not found"}
    BY NoJobAssumption
  <2> HIDE DEF snap
  <2>4. \A v \in Watchers : v # w => heard'[v] = heard[v]
    BY <1>k, <2>a
  <2>5. Of[w] \in Jobs => heard'[w] = IF Of[w] \in table THEN {status[Of[w]]} \cap Terminal
                                                        ELSE {"not found"}
    BY <1>k, <2>a, <2>c
  <2>6. Of[w] = NoJob => heard'[w] = heard[w]
    BY <1>k, <2>a, <2>b
  <2>7. WatchKinds'
    <3>1. Of[w] \in Jobs \cup {NoJob}
      BY WatchAssumption
    <3>2. heard'[w] \in SUBSET (Terminal \cup {"not found"})
      BY <1>k, <2>5, <2>6, <3>1
    <3>3. heard' \in [Watchers -> SUBSET (Terminal \cup {"not found"})]
      BY <1>k, <2>a, <3>2
    <3> QED BY <1>k, <2>1, <2>2, <3>3 DEF WatchKinds
  <2>8. ASSUME NEW v \in Watchers, NEW j \in Jobs, Follows(v, j)', status'[j] \in Terminal
        PROVE  Knows(v, j)' \/ OnItsWay(v, j)' \/ ToBeTold(j)'
    <3>1. CASE v = w
      BY <1>c, <2>1, <2>5, <2>8, <3>1 DEF Follows, Knows
    <3>2. CASE v # w
      <4>1. Follows(v, j)
        BY <1>k, <2>1, <2>2, <2>8, <3>2 DEF Follows
      <4> QED BY <1>c, <2>1, <2>4, <2>8, <3>2, <4>1 DEF Informed, Knows, OnItsWay
    <3> QED BY <3>1, <3>2
  <2> QED BY <2>3, <2>7, <2>8 DEF WatchInv, Informed
<1>6. ASSUME NEW w \in Watchers, PumpGet(w) PROVE WatchInv'
  <2>1. UNCHANGED <<vars, subs, ws, peer, heard, dropped>> /\ inbox[w] # <<>>
    BY <1>6 DEF PumpGet
  <2>2. /\ inbox' = [inbox EXCEPT ![w] = Tail(inbox[w])]
        /\ aq' = [aq EXCEPT ![w] = Append(aq[w], Head(inbox[w]))]
    BY <1>6 DEF PumpGet
  <2>3. /\ Head(inbox[w]) \in Events /\ Tail(inbox[w]) \in Seq(Events)
        /\ \A x : Has(inbox[w], x) => x = Head(inbox[w]) \/ Has(Tail(inbox[w]), x)
    BY <1>k, <2>1, TailHas
  <2>4. /\ Append(aq[w], Head(inbox[w])) \in Seq(Events)
        /\ Has(Append(aq[w], Head(inbox[w])), Head(inbox[w]))
        /\ \A x : Has(aq[w], x) => Has(Append(aq[w], Head(inbox[w])), x)
    BY <1>k, <2>3, AppendHas
  <2>5. /\ inbox'[w] = Tail(inbox[w]) /\ aq'[w] = Append(aq[w], Head(inbox[w]))
        /\ \A v \in Watchers : v # w => inbox'[v] = inbox[v] /\ aq'[v] = aq[v]
    BY <1>k, <2>2
  <2>6. \A v \in Watchers, j \in Jobs : OnItsWay(v, j) => OnItsWay(v, j)'
    BY <1>c, <2>1, <2>3, <2>4, <2>5 DEF OnItsWay
  <2>7. WatchKinds' /\ Subscribed'
    BY <1>k, <2>1, <2>2, <2>3, <2>4 DEF WatchKinds, Subscribed
  <2> QED BY <1>c, <2>1, <2>6, <2>7 DEF WatchInv, Informed, Follows, Knows
<1>7. ASSUME NEW w \in Watchers, PumpPing(w) PROVE WatchInv'
  <2>1. UNCHANGED <<vars, subs, inbox, ws, peer, heard, dropped>>
    BY <1>7 DEF PumpPing
  <2>2. Ping \in Events
    BY DEF Ping, Events
  <2>3. aq' = [aq EXCEPT ![w] = Append(aq[w], Ping)]
    BY <1>7 DEF PumpPing
  <2>4. /\ Append(aq[w], Ping) \in Seq(Events)
        /\ \A x : Has(aq[w], x) => Has(Append(aq[w], Ping), x)
    BY <1>k, <2>2, AppendHas
  <2>5. \A v \in Watchers, j \in Jobs : OnItsWay(v, j) => OnItsWay(v, j)'
    BY <1>c, <1>k, <2>1, <2>3, <2>4 DEF OnItsWay
  <2>6. WatchKinds' /\ Subscribed'
    BY <1>k, <2>1, <2>3, <2>4 DEF WatchKinds, Subscribed
  <2> QED BY <1>c, <2>1, <2>5, <2>6 DEF WatchInv, Informed, Follows, Knows
<1>8. ASSUME NEW w \in Watchers, Send(w) PROVE WatchInv'
  <2>1. UNCHANGED <<vars, subs, inbox, ws, peer, dropped>> /\ aq[w] # <<>>
    BY <1>8 DEF Send
  <2>2. aq' = [aq EXCEPT ![w] = Tail(aq[w])]
    BY <1>8 DEF Send
  <2>3. /\ Head(aq[w]) \in Events /\ Tail(aq[w]) \in Seq(Events)
        /\ \A x : Has(aq[w], x) => x = Head(aq[w]) \/ Has(Tail(aq[w]), x)
    BY <1>k, <2>1, TailHas
  <2> DEFINE ev == Head(aq[w])
  <2>4. heard' = IF Concerns(w, ev) /\ peer[w] = "there"
                 THEN [heard EXCEPT ![w] = heard[w] \cup ({ev.type} \cap Terminal)]
                 ELSE heard
    BY <1>8 DEF Send
  <2> HIDE DEF ev
  <2>5. /\ heard' \in [Watchers -> SUBSET (Terminal \cup {"not found"})]
        /\ \A v \in Watchers : heard[v] \subseteq heard'[v]
        /\ Concerns(w, ev) /\ peer[w] = "there" => heard'[w] = heard[w] \cup ({ev.type} \cap Terminal)
    BY <1>k, <2>4
  <2>6. WatchKinds' /\ Subscribed'
    BY <1>k, <2>1, <2>2, <2>3, <2>5 DEF WatchKinds, Subscribed
  <2>7. ASSUME NEW v \in Watchers, NEW j \in Jobs, Follows(v, j)', status'[j] \in Terminal
        PROVE  Knows(v, j)' \/ OnItsWay(v, j)' \/ ToBeTold(j)'
    <3>1. Follows(v, j) /\ status'[j] = status[j]
      BY <1>c, <2>1, <2>7 DEF Follows
    <3>2. CASE Knows(v, j) \/ ToBeTold(j)
      BY <1>c, <2>1, <2>5, <3>1, <3>2 DEF Knows
    <3>3. CASE v = w /\ ev = News(j)
      <4>1. ev.type = status[j] /\ Concerns(w, ev) /\ peer[w] = "there"
        BY <3>1, <3>3 DEF News, Concerns, Follows
      <4> QED BY <2>5, <2>7, <3>1, <3>3, <4>1 DEF Knows
    <3>4. CASE OnItsWay(v, j) /\ ~(v = w /\ ev = News(j))
      <4>1. Has(inbox[v], News(j)) => Has(inbox'[v], News(j))
        BY <2>1
      <4>2. Has(aq[v], News(j)) => Has(aq'[v], News(j))
        BY <1>k, <2>2, <2>3, <3>4 DEF ev
      <4> QED BY <1>c, <2>1, <3>4, <4>1, <4>2 DEF OnItsWay
    <3> QED BY <2>7, <3>1, <3>2, <3>3, <3>4 DEF Informed
  <2> QED BY <2>6, <2>7 DEF WatchInv, Informed
<1>9. ASSUME NEW w \in Watchers, SendFails(w) \/ PeerLeaves(w) PROVE WatchInv'
  <2>1. UNCHANGED vars
    BY <1>9 DEF SendFails, PeerLeaves
  <2>2. <<>> \in Seq(Events)
    BY EmptySeq
  <2>3. WatchKinds' /\ Subscribed'
    <3>1. CASE SendFails(w)
      <4>1. /\ ws' = [ws EXCEPT ![w] = "closed"] /\ subs' = subs \ {w}
            /\ aq' = [aq EXCEPT ![w] = <<>>] /\ inbox' = [inbox EXCEPT ![w] = <<>>]
            /\ UNCHANGED <<peer, heard, dropped>>
        BY <3>1 DEF SendFails
      <4> QED BY <1>k, <2>2, <4>1 DEF WatchKinds, Subscribed
    <3>2. CASE PeerLeaves(w)
      <4>1. /\ peer' = [peer EXCEPT ![w] = "gone"]
            /\ heard' = [heard EXCEPT ![w] = {}] /\ dropped' = dropped \ {w}
            /\ UNCHANGED <<subs, inbox, aq, ws>>
        BY <3>2 DEF PeerLeaves
      <4> QED BY <1>k, <4>1 DEF WatchKinds, Subscribed
    <3> QED BY <1>9, <3>1, <3>2
  <2>4. \A v \in Watchers, j \in Jobs : Follows(v, j)' => Follows(v, j) /\ v # w
    BY <1>k, <1>9 DEF SendFails, PeerLeaves, Follows
  <2>5. \A v \in Watchers : v # w => UNCHANGED <<inbox[v], aq[v], heard[v]>>
    BY <1>k, <1>9 DEF SendFails, PeerLeaves
  <2> QED BY <1>c, <2>1, <2>3, <2>4, <2>5 DEF WatchInv, Informed, Knows, OnItsWay
<1>10. CASE UNCHANGED allVars
  <2>1. UNCHANGED <<vars, subs, inbox, aq, ws, peer, heard, dropped>>
    BY <1>10 DEF allVars, watchVars
  <2> QED BY <1>c, <2>1 DEF WatchInv, WatchKinds, Subscribed, Informed, Follows, Knows, OnItsWay
<1> QED
  BY <1>1, <1>2, <1>3, <1>4, <1>5, <1>6, <1>7, <1>8, <1>9, <1>10 DEF WatchNext

LEMMA InformedSuffices == WatchInv => NothingMissed
<1> SUFFICES ASSUME WatchInv, NEW w \in Watchers,
                    Drained(w), peer[w] = "there", w \notin dropped,
                    Of[w] \in Jobs, Quiet(Of[w])
             PROVE  heard[w] \cap {status[Of[w]], "not found"} # {}
  BY DEF NothingMissed
<1> DEFINE j == Of[w]
<1>1. Follows(w, j) /\ status[j] \in Terminal
  BY DEF Follows, Drained, Quiet
<1>2. ~OnItsWay(w, j)
  BY NothingInEmpty DEF Drained, OnItsWay
<1>3. ~ToBeTold(j)
  BY DEF Quiet, ToBeTold
<1> QED BY <1>1, <1>2, <1>3 DEF WatchInv, Informed, Knows

\* A client that is connected has been told the final status of its job once the
\* queues are empty and nobody is about to publish anything about it, whenever it
\* came and however many threads have written the status, unless an event did
\* not fit into its queue (events.py, ws_jobs of main.py).
THEOREM NoNewsIsMissed == WatchSpec => []NothingMissed
<1>1. WatchSpec => []IInv
  BY WatchingIsHarmless, InvariantHolds, PTL
<1> QED BY <1>1, WatchInitInv, WatchInvStep, InformedSuffices, PTL DEF WatchSpec
=============================================================================
