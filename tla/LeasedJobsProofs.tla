--------------------------- MODULE LeasedJobsProofs ---------------------------
(***************************************************************************)
(* Proofs about LeasedJobs, for any executions, jobs and limits.           *)
(*                                                                         *)
(* LiveJobIsLeased is not inductive: that no sweep takes the lease of a    *)
(* job holds because a request on its way to the queue is young (Young),   *)
(* and because a job that is in the queue is in every snapshot of the      *)
(* leases in use, from the line until its run ends (Served).               *)
(***************************************************************************)
EXTENDS LeasedJobs, SequenceTheorems, TLAPS

\* The part of TypeOK that is not about the register.
Kinds ==
    /\ line \in Seq(Jobs) /\ active \in Jobs \cup {NoJob} /\ asked \subseteq Jobs
    /\ fate \in [Jobs -> {"none", "waiting", "active", "ran", "skipped"}]
    /\ sub \in [Jobs -> {"new", "touched", "sent"}]
    /\ epc \in {"idle", "check", "beat", "pin", "op"}
    /\ client \in [Leases -> {"here", "gone"}]
    /\ released \subseteq Leases
    /\ ws \in [Jobs -> {"off", "on", "due"}]

\* The line holds the jobs that wait, each of them once; the engine works on
\* the active job.
Served ==
    /\ \A a \in DOMAIN line : fate[line[a]] = "waiting"
    /\ \A a, b \in DOMAIN line : line[a] = line[b] => a = b
    /\ \A j \in Jobs : sub[j] = "sent" <=> fate[j] # "none"
    /\ epc = "idle" <=> active = NoJob
    /\ active # NoJob => fate[active] = "active"

\* What InTime asks of the next unit of time has been so until now.
Young ==
    \A j \in Jobs :
        /\ sub[j] = "touched" /\ IdleRelease > 0 => age[LeaseOf[j]] <= IdleRelease
        /\ sub[j] = "touched" \/ (LiveJob(j) /\ client[LeaseOf[j]] = "here")
           => age[LeaseOf[j]] <= TTL

\* LiveJobIsLeased, from the touch before the job on.
Leased ==
    \A j \in Jobs :
        (sub[j] = "touched" \/ SureJob(j)) /\ client[LeaseOf[j]] = "here"
            /\ LeaseOf[j] \notin released
        => LeaseOf[j] \in open

-----------------------------------------------------------------------------
(* The register by itself. *)

LEMMA OldAgeNat == OldAge \in Nat
  BY LimitAssumption DEF OldAge

\* Whatever a caller does to the register, the register keeps its type.
LEMMA BookStep ==
    ASSUME BookTypeOK,
           \/ UNCHANGED bookVars \/ Elapse
           \/ \E l \in Leases : Touch(l, {}) \/ TouchExisting(l) \/ Release(l)
           \/ \E busy \in SUBSET Leases : Sweep(busy)
    PROVE  BookTypeOK'
<1> USE OldAgeNat DEF BookTypeOK
<1>1. CASE UNCHANGED bookVars \/ Elapse
  BY <1>1 DEF bookVars, Elapse
<1>2. CASE \E l \in Leases : Touch(l, {})
  BY <1>2 DEF Touch
<1>3. CASE \E l \in Leases : TouchExisting(l)
  BY <1>3 DEF TouchExisting
<1>4. CASE \E gone, keys : Strip(gone, keys)
  BY <1>4 DEF Strip
<1> QED BY <1>1, <1>2, <1>3, <1>4 DEF Release, Sweep, Drop

-----------------------------------------------------------------------------
(* The steps of the job queue. *)

LEMMA JoinServed ==
    ASSUME Kinds, Served, NEW j \in Jobs, SubmitJob(j)
    PROVE  Kinds' /\ Served'
<1>1. /\ fate[j] = "none" /\ fate' = [fate EXCEPT ![j] = "waiting"]
      /\ line' = Append(line, j) /\ sub' = [sub EXCEPT ![j] = "sent"]
      /\ UNCHANGED <<active, asked, epc, client, released, ws>>
  BY DEF SubmitJob, Queue!Join
<1>2. Kinds'
  BY <1>1, AppendProperties DEF Kinds
<1>3. /\ DOMAIN line' = DOMAIN line \cup {Len(line) + 1}
      /\ \A a \in DOMAIN line : line'[a] = line[a] /\ line[a] \in Jobs /\ a # Len(line) + 1
      /\ line'[Len(line) + 1] = j
  BY <1>1 DEF Kinds
<1>4. \A a \in DOMAIN line : line[a] # j
  BY <1>1 DEF Served
<1>5. \A a \in DOMAIN line' : fate'[line'[a]] = "waiting"
  BY <1>1, <1>3, <1>4 DEF Kinds, Served
<1>6. \A a, b \in DOMAIN line' : line'[a] = line'[b] => a = b
  BY <1>3, <1>4 DEF Served
<1>7. /\ \A k \in Jobs : sub'[k] = "sent" <=> fate'[k] # "none"
      /\ epc' = "idle" <=> active' = NoJob
      /\ active' # NoJob => fate'[active'] = "active"
  BY <1>1 DEF Kinds, Served
<1> QED BY <1>2, <1>5, <1>6, <1>7 DEF Served

\* The head leaves the line.
LEMMA HeadLeaves ==
    ASSUME Kinds, Served, line # <<>>
    PROVE  /\ Head(line) \in Jobs /\ fate[Head(line)] = "waiting"
           /\ Tail(line) \in Seq(Jobs)
           /\ \A a \in DOMAIN Tail(line) : /\ Tail(line)[a] # Head(line)
                                           /\ Tail(line)[a] \in Jobs
                                           /\ fate[Tail(line)[a]] = "waiting"
           /\ \A a, b \in DOMAIN Tail(line) : Tail(line)[a] = Tail(line)[b] => a = b
<1>1. line \in Seq(Jobs) /\ Len(line) \in Nat /\ Len(line) > 0 /\ DOMAIN line = 1 .. Len(line)
  BY EmptySeq DEF Kinds
<1>2. Head(line) = line[1] /\ 1 \in DOMAIN line /\ line[1] \in Jobs
  BY <1>1
<1>3. /\ Tail(line) \in Seq(Jobs) /\ DOMAIN Tail(line) = 1 .. Len(line) - 1
      /\ \A a \in 1 .. Len(line) - 1 : Tail(line)[a] = line[a + 1] /\ a + 1 \in DOMAIN line
  BY <1>1
<1>4. \A a \in DOMAIN line : line[a] \in Jobs
  BY <1>1
<1> QED BY <1>1, <1>2, <1>3, <1>4 DEF Served

LEMMA ServeServed ==
    ASSUME Kinds, Served, WorkerBegin \/ WorkerSkip
    PROVE  Kinds' /\ Served'
<1>1. /\ line # <<>> /\ active = NoJob /\ line' = Tail(line)
      /\ UNCHANGED <<asked, sub, client, released, ws>>
  BY DEF WorkerBegin, WorkerSkip, Queue!Begin, Queue!Skip
<1>2. \/ /\ active' = Head(line) /\ fate' = [fate EXCEPT ![Head(line)] = "active"]
         /\ epc' \in {"check", "beat"}
      \/ UNCHANGED <<active, epc>> /\ fate' = [fate EXCEPT ![Head(line)] = "skipped"]
  BY DEF WorkerBegin, WorkerSkip, Queue!Begin, Queue!Skip
<1> DEFINE h == Head(line)
           rest == Tail(line)
<1>3. /\ h \in Jobs /\ fate[h] = "waiting" /\ rest \in Seq(Jobs)
      /\ \A a \in DOMAIN rest : rest[a] # h /\ rest[a] \in Jobs /\ fate[rest[a]] = "waiting"
      /\ \A a, b \in DOMAIN rest : rest[a] = rest[b] => a = b
  BY <1>1, HeadLeaves
<1>4. line' = rest /\ ((active' = h /\ epc' \in {"check", "beat"}) \/ UNCHANGED <<active, epc>>)
  BY <1>1, <1>2
<1>5. \E f \in {"active", "skipped"} :
         fate' = [fate EXCEPT ![h] = f] /\ (active' # NoJob => f = "active" /\ active' = h)
  BY <1>1, <1>2
<1> HIDE DEF h, rest
<1>6. Kinds'
  BY <1>1, <1>3, <1>4, <1>5 DEF Kinds
<1>7. \A a \in DOMAIN line' : fate'[line'[a]] = "waiting"
  BY <1>3, <1>4, <1>5 DEF Kinds
<1>8. \A a, b \in DOMAIN line' : line'[a] = line'[b] => a = b
  BY <1>3, <1>4
<1>9. \A k \in Jobs : sub'[k] = "sent" <=> fate'[k] # "none"
  BY <1>1, <1>3, <1>5 DEF Kinds, Served
<1>10. epc' = "idle" <=> active' = NoJob
  BY <1>1, <1>3, <1>4, NoJobAssumption DEF Served
<1>11. active' # NoJob => fate'[active'] = "active"
  BY <1>3, <1>5 DEF Kinds
<1> QED BY <1>6, <1>7, <1>8, <1>9, <1>10, <1>11 DEF Served

LEMMA EndServed ==
    ASSUME Kinds, Served, RunEnds
    PROVE  Kinds' /\ Served'
<1>1. /\ active # NoJob /\ active' = NoJob /\ fate' = [fate EXCEPT ![active] = "ran"]
      /\ epc' = "idle"
      /\ UNCHANGED <<line, asked, sub, client, released, ws>>
  BY DEF RunEnds, Queue!End
<1>2. Kinds' /\ active \in Jobs
  BY <1>1 DEF Kinds
<1>3. \A a \in DOMAIN line : line[a] # active /\ line[a] \in Jobs
  BY <1>1 DEF Kinds, Served
<1>4. \A a \in DOMAIN line' : fate'[line'[a]] = "waiting"
  BY <1>1, <1>3 DEF Kinds, Served
<1> QED BY <1>1, <1>2, <1>4 DEF Kinds, Served

\* Every other step leaves the queue alone, apart from who is asked to stop.
LEMMA OtherServed ==
    ASSUME Kinds, Served,
           \/ \E j \in Jobs : \/ SubmitTouch(j) \/ Interrupt(j)
                              \/ WsOpen(j) \/ WsRead(j) \/ WsTouch(j) \/ WsClose(j)
           \/ \E l \in Leases : Poll(l) \/ ReleaseLease(l) \/ Vanish(l)
           \/ EngineCheck \/ EngineStage \/ EngineProgress \/ EnginePin \/ EngineAttribute
           \/ EngineNextNode \/ Sweeper \/ Tick \/ UNCHANGED vars
    PROVE  Kinds' /\ Served'
<1> USE LeaseOfAssumption DEF Kinds, Served, queueVars
<1>1. ASSUME NEW j \in Jobs, SubmitTouch(j) PROVE Kinds' /\ Served'
  BY <1>1 DEF SubmitTouch
<1>2. ASSUME NEW j \in Jobs, Interrupt(j) PROVE Kinds' /\ Served'
  BY <1>2 DEF Interrupt, Queue!Ask
<1>3. ASSUME NEW j \in Jobs, WsOpen(j) \/ WsRead(j) \/ WsTouch(j) \/ WsClose(j)
      PROVE  Kinds' /\ Served'
  BY <1>3 DEF WsOpen, WsRead, WsTouch, WsClose
<1>4. ASSUME NEW l \in Leases, Poll(l) \/ ReleaseLease(l) PROVE Kinds' /\ Served'
  BY <1>4 DEF Poll, ReleaseLease
<1>5. ASSUME NEW l \in Leases, Vanish(l) PROVE Kinds' /\ Served'
  BY <1>5 DEF Vanish
<1>6. CASE EngineCheck \/ EnginePin \/ EngineAttribute \/ EngineNextNode
  BY <1>6 DEF EngineCheck, EnginePin, EngineAttribute, EngineNextNode
<1>7. CASE EngineStage \/ EngineProgress
  <2>1. active \in Jobs
    BY <1>7 DEF EngineStage, EngineProgress
  <2>2. asked' \subseteq Jobs /\ UNCHANGED <<line, active, fate, sub, client, released, ws>>
    BY <1>7, <2>1 DEF EngineStage, EngineProgress, Heartbeat
  <2>3. epc # "idle" /\ epc' \in {"pin", "op"}
    BY <1>7 DEF EngineStage, EngineProgress
  <2> QED BY <2>2, <2>3
<1>8. CASE Sweeper \/ Tick \/ UNCHANGED vars
  BY <1>8 DEF Sweeper, Tick, vars
<1> QED BY <1>1, <1>2, <1>3, <1>4, <1>5, <1>6, <1>7, <1>8

LEMMA ServedStep ==
    ASSUME Kinds, Served, [Next]_vars
    PROVE  Kinds' /\ Served'
<1>1. EngineCancelled \/ EngineEnds => RunEnds
  BY DEF EngineCancelled, EngineEnds
<1> QED BY <1>1, JoinServed, ServeServed, EndServed, OtherServed DEF Next, Engine

-----------------------------------------------------------------------------
(* The register. *)

LEMMA SnapshotLeases ==
    ASSUME Kinds, NEW busy \in Snapshots
    PROVE  busy \subseteq Leases /\ Snapshot \subseteq busy
  BY LeaseOfAssumption DEF Kinds, Snapshots, Snapshot

\* What a step may do to the register, and what it then does to released.
LEMMA BookMoves ==
    ASSUME Kinds, Served, [Next]_vars
    PROVE  \/ UNCHANGED <<bookVars, released>>
           \/ \E l \in Leases : Touch(l, {}) /\ released' \in {released, released \ {l}}
           \/ \E l \in Leases : TouchExisting(l) /\ UNCHANGED released
           \/ \E l \in Leases : Release(l) /\ released' = released \cup {l}
           \/ Sweeper \/ Tick
<1>1. active # NoJob => LeaseOf[active] \in Leases
  BY LeaseOfAssumption DEF Kinds
<1>2. epc # "idle" => active # NoJob
  BY DEF Served
<1>3. \A j \in Jobs : LeaseOf[j] \in Leases
  BY LeaseOfAssumption
<1>4. ASSUME Engine
      PROVE  /\ UNCHANGED released
             /\ UNCHANGED bookVars \/ \E l \in Leases : Touch(l, {}) \/ TouchExisting(l)
  BY <1>1, <1>2, <1>4 DEF Engine, EngineCheck, EngineCancelled, EngineStage, EngineProgress,
     EnginePin, EngineAttribute, EngineNextNode, EngineEnds, RunEnds, Heartbeat
<1>5. ASSUME NEW j \in Jobs, SubmitTouch(j) \/ WsTouch(j)
      PROVE  \E l \in Leases : Touch(l, {}) /\ released' \in {released, released \ {l}}
  BY <1>3, <1>5 DEF SubmitTouch, WsTouch
<1>6. ASSUME NEW j \in Jobs, \/ SubmitJob(j) \/ Interrupt(j)
                             \/ WsOpen(j) \/ WsRead(j) \/ WsClose(j)
      PROVE  UNCHANGED <<bookVars, released>>
  BY <1>6 DEF SubmitJob, Interrupt, WsOpen, WsRead, WsClose
<1>7. ASSUME NEW l \in Leases, Poll(l) \/ ReleaseLease(l) \/ Vanish(l)
      PROVE  \/ UNCHANGED <<bookVars, released>>
             \/ Touch(l, {}) /\ released' = released \ {l}
             \/ Release(l) /\ released' = released \cup {l}
  BY <1>7 DEF Poll, ReleaseLease, Vanish
<1>8. ASSUME WorkerBegin \/ WorkerSkip \/ UNCHANGED vars
      PROVE  UNCHANGED <<bookVars, released>>
  BY <1>8 DEF WorkerBegin, WorkerSkip, vars
<1> QED BY <1>4, <1>5, <1>6, <1>7, <1>8 DEF Next

LEMMA BookKept ==
    ASSUME BookTypeOK, Kinds, Served, [Next]_vars
    PROVE  BookTypeOK'
<1>1. ASSUME Sweeper PROVE \E busy \in SUBSET Leases : Sweep(busy)
  BY <1>1, SnapshotLeases DEF Sweeper
<1>2. ASSUME Tick PROVE Elapse
  BY <1>2 DEF Tick
<1> QED BY BookStep, BookMoves, <1>1, <1>2

\* Only time makes a lease older.
LEMMA AgesKept ==
    ASSUME BookTypeOK, Kinds, Served, [Next]_vars, ~Tick
    PROVE  \A l \in Leases : age'[l] = 0 \/ age'[l] = age[l]
<1> USE DEF BookTypeOK
<1>1. CASE UNCHANGED bookVars
  BY <1>1 DEF bookVars
<1>2. ASSUME NEW l \in Leases, Touch(l, {}) \/ TouchExisting(l)
      PROVE  \A m \in Leases : age'[m] = 0 \/ age'[m] = age[m]
  BY <1>2 DEF Touch, TouchExisting
<1>3. ASSUME NEW l \in Leases, Release(l)
      PROVE  \A m \in Leases : age'[m] = 0 \/ age'[m] = age[m]
  BY <1>3 DEF Release, Drop, Strip
<1>4. CASE Sweeper
  BY <1>4 DEF Sweeper, Sweep, Drop, Strip
<1> QED BY <1>1, <1>2, <1>3, <1>4, BookMoves

\* A lease that a client has taken up again is registered, and only a release
\* or a sweep ends one.
LEMMA OpenKept ==
    ASSUME Kinds, Served, [Next]_vars, ~Sweeper
    PROVE  \A l \in Leases : l \notin released' /\ (l \in released \/ l \in open) => l \in open'
<1>1. CASE UNCHANGED <<bookVars, released>>
  BY <1>1 DEF bookVars
<1>2. ASSUME NEW l \in Leases, Touch(l, {}), released' \in {released, released \ {l}}
      PROVE  \A m \in Leases : m \notin released' /\ (m \in released \/ m \in open) => m \in open'
  BY <1>2 DEF Touch
<1>3. ASSUME NEW l \in Leases, TouchExisting(l), UNCHANGED released
      PROVE  \A m \in Leases : m \notin released' /\ (m \in released \/ m \in open) => m \in open'
  BY <1>3 DEF TouchExisting
<1>4. ASSUME NEW l \in Leases, Release(l), released' = released \cup {l}
      PROVE  \A m \in Leases : m \notin released' /\ (m \in released \/ m \in open) => m \in open'
  BY <1>4 DEF Release, Drop, Strip
<1>5. CASE Tick
  BY <1>5 DEF Tick, Elapse
<1> QED BY <1>1, <1>2, <1>3, <1>4, <1>5, BookMoves

-----------------------------------------------------------------------------
(* The jobs. *)

\* A job comes to the queue from its touch, a touch from SubmitTouch, and
\* neither an interrupt nor the end of a client is taken back.
LEMMA JobsKept ==
    ASSUME Kinds, Served, [Next]_vars, \A j \in Jobs : ~SubmitTouch(j)
    PROVE  /\ \A j \in Jobs : /\ sub'[j] = "touched" => sub[j] = "touched"
                              /\ LiveJob(j)' => LiveJob(j) \/ sub[j] = "touched"
           /\ asked \subseteq asked'
           /\ \A l \in Leases : client'[l] = "here" => client[l] = "here"
<1> DEFINE Goal == /\ \A j \in Jobs : /\ sub'[j] = "touched" => sub[j] = "touched"
                                      /\ LiveJob(j)' => LiveJob(j) \/ sub[j] = "touched"
                   /\ asked \subseteq asked'
                   /\ \A l \in Leases : client'[l] = "here" => client[l] = "here"
<1> USE DEF LiveJob
<1>1. ASSUME NEW j \in Jobs, SubmitJob(j) PROVE Goal
  BY <1>1 DEF SubmitJob, Queue!Join, Kinds
<1>2. ASSUME NEW j \in Jobs, Interrupt(j) PROVE Goal
  BY <1>2 DEF Interrupt, Queue!Ask
<1>3. ASSUME NEW j \in Jobs, WsOpen(j) \/ WsRead(j) \/ WsTouch(j) \/ WsClose(j) PROVE Goal
  BY <1>3 DEF WsOpen, WsRead, WsTouch, WsClose, queueVars
<1>4. ASSUME NEW l \in Leases, Poll(l) \/ ReleaseLease(l) PROVE Goal
  BY <1>4 DEF Poll, ReleaseLease, queueVars
<1>5. ASSUME NEW l \in Leases, Vanish(l) PROVE Goal
  BY <1>5 DEF Vanish, queueVars, Kinds
<1>6. CASE WorkerBegin \/ WorkerSkip
  <2>1. Head(line) \in Jobs /\ fate[Head(line)] = "waiting"
    BY <1>6, HeadLeaves DEF WorkerBegin, WorkerSkip, Queue!Begin, Queue!Skip
  <2>2. /\ \E f \in {"active", "skipped"} : fate' = [fate EXCEPT ![Head(line)] = f]
        /\ UNCHANGED <<asked, sub, client>>
    BY <1>6 DEF WorkerBegin, WorkerSkip, Queue!Begin, Queue!Skip
  <2> QED BY <2>1, <2>2 DEF Kinds
<1>7. CASE RunEnds
  BY <1>7 DEF RunEnds, Queue!End, Kinds
<1>8. CASE EngineStage \/ EngineProgress
  BY <1>8 DEF EngineStage, EngineProgress, Heartbeat
<1>9. CASE EngineCheck \/ EnginePin \/ EngineAttribute \/ EngineNextNode
  BY <1>9 DEF EngineCheck, EnginePin, EngineAttribute, EngineNextNode, queueVars
<1>10. CASE Sweeper \/ Tick \/ UNCHANGED vars
  BY <1>10 DEF Sweeper, Tick, vars, queueVars
<1>11. EngineCancelled \/ EngineEnds => RunEnds
  BY DEF EngineCancelled, EngineEnds
<1> QED BY <1>1, <1>2, <1>3, <1>4, <1>5, <1>6, <1>7, <1>8, <1>9, <1>10, <1>11 DEF Next, Engine

LEMMA YoungStep ==
    ASSUME BookTypeOK, Kinds, Served, Young, [Next]_vars
    PROVE  Young'
<1>1. \A l \in Leases : age[l] \in Nat
  BY OldAgeNat DEF BookTypeOK
<1>2. \A j \in Jobs : LeaseOf[j] \in Leases
  BY LeaseOfAssumption
<1>3. CASE Tick
  <2>1. InTime /\ \A l \in Leases : age'[l] \in {age[l], age[l] + 1}
    BY <1>3 DEF Tick, Elapse
  <2>2. UNCHANGED <<sub, fate, client>>
    BY <1>3 DEF Tick, queueVars
  <2> QED BY <1>1, <1>2, <2>1, <2>2, LimitAssumption DEF InTime, Young, LiveJob
<1>4. ASSUME NEW j \in Jobs, SubmitTouch(j) PROVE Young'
  <2>1. /\ \A k \in Jobs : k # j => sub'[k] = sub[k]
        /\ UNCHANGED <<fate, client>>
    BY <1>4 DEF SubmitTouch, queueVars, Kinds
  <2>2. age'[LeaseOf[j]] = 0 /\ \A l \in Leases : age'[l] = 0 \/ age'[l] = age[l]
    BY <1>2, <1>4 DEF SubmitTouch, Touch, BookTypeOK
  <2> QED BY <1>1, <1>2, <2>1, <2>2, LimitAssumption DEF Young, LiveJob
<1>5. CASE ~Tick /\ \A j \in Jobs : ~SubmitTouch(j)
  <2>1. \A j \in Jobs : age'[LeaseOf[j]] = 0 \/ age'[LeaseOf[j]] = age[LeaseOf[j]]
    BY <1>2, <1>5, AgesKept
  <2>2. \A j \in Jobs :
           /\ sub'[j] = "touched" => sub[j] = "touched"
           /\ LiveJob(j)' => LiveJob(j) \/ sub[j] = "touched"
           /\ client'[LeaseOf[j]] = "here" => client[LeaseOf[j]] = "here"
    BY <1>2, <1>5, JobsKept
  <2> QED BY <1>1, <1>2, <2>1, <2>2, LimitAssumption DEF Young
<1> QED BY <1>3, <1>4, <1>5

\* The point: no sweep takes the lease of a request or of a job.
LEMMA SweeperSpares ==
    ASSUME BookTypeOK, Kinds, Young, Sweeper, NEW j \in Jobs,
           sub[j] = "touched" \/ SureJob(j),
           client[LeaseOf[j]] = "here", LeaseOf[j] \in open
    PROVE  LeaseOf[j] \in open'
<1> DEFINE l == LeaseOf[j]
<1>1. PICK busy \in Snapshots : Sweep(busy)
  BY DEF Sweeper
<1>2. open' = open \ Stale(busy)
  BY <1>1 DEF Sweep, Drop, Strip
<1>3. age[l] \in Nat /\ age[l] <= TTL
  BY OldAgeNat, LeaseOfAssumption DEF BookTypeOK, Young, SureJob
<1>4. l \notin Expired
  BY <1>3, LimitAssumption DEF Expired
<1>5. CASE SureJob(j)
  <2>1. l \in busy
    BY <1>5, SnapshotLeases DEF Snapshot
  <2> QED BY <1>2, <1>4, <2>1 DEF Stale
<1>6. CASE sub[j] = "touched"
  <2>1. IdleRelease > 0 => ~(age[l] > IdleRelease)
    BY <1>3, <1>6, LimitAssumption DEF Young
  <2> QED BY <1>2, <1>4, <2>1 DEF Stale
<1> QED BY <1>5, <1>6

LEMMA LeasedStep ==
    ASSUME BookTypeOK, Kinds, Served, Young, Leased, [Next]_vars
    PROVE  Leased'
<1>1. \A j \in Jobs : LeaseOf[j] \in Leases
  BY LeaseOfAssumption
<1>2. CASE Sweeper
  <2>1. UNCHANGED <<sub, asked, fate, client, released>>
    BY <1>2 DEF Sweeper, queueVars
  <2> QED BY <1>2, <2>1, SweeperSpares DEF Leased, SureJob, LiveJob
<1>3. ASSUME NEW j \in Jobs, SubmitTouch(j) PROVE Leased'
  <2>1. /\ \A k \in Jobs : k # j => sub'[k] = sub[k]
        /\ UNCHANGED <<asked, fate, client>>
        /\ open' = open \cup {LeaseOf[j]} /\ released' = released \ {LeaseOf[j]}
    BY <1>3 DEF SubmitTouch, Touch, queueVars, Kinds
  <2> QED BY <2>1 DEF Leased, SureJob, LiveJob
<1>4. CASE ~Sweeper /\ \A j \in Jobs : ~SubmitTouch(j)
  <2>1. \A j \in Jobs :
           /\ LeaseOf[j] \notin released' /\ (LeaseOf[j] \in released \/ LeaseOf[j] \in open)
              => LeaseOf[j] \in open'
           /\ client'[LeaseOf[j]] = "here" => client[LeaseOf[j]] = "here"
    BY <1>1, <1>4, OpenKept, JobsKept
  <2>2. \A j \in Jobs : sub'[j] = "touched" \/ SureJob(j)' => sub[j] = "touched" \/ SureJob(j)
    BY <1>4, JobsKept DEF SureJob
  <2> QED BY <2>1, <2>2 DEF Leased
<1> QED BY <1>2, <1>3, <1>4

-----------------------------------------------------------------------------
(* The theorems. *)

Inv == BookTypeOK /\ Kinds /\ Served /\ Young /\ Leased

LEMMA InvHolds == Spec => []Inv
<1>1. Init => Inv
  <2> SUFFICES ASSUME Init PROVE Inv
    OBVIOUS
  <2>1. BookTypeOK
    BY OldAgeNat DEF Init, BookInit, BookTypeOK
  <2>2. Kinds
    BY DEF Init, Queue!Init, Kinds
  <2>3. Served /\ Young /\ Leased
    BY DEF Init, Queue!Init, Served, Young, Leased, SureJob, LiveJob
  <2> QED BY <2>1, <2>2, <2>3 DEF Inv
<1>2. Inv /\ [Next]_vars => Inv'
  BY ServedStep, BookKept, YoungStep, LeasedStep DEF Inv
<1> QED BY <1>1, <1>2, PTL DEF Spec

\* The variables of leases and jobs keep their kinds.
THEOREM LeasedTypes == Spec => []TypeOK
<1>1. Inv => TypeOK
  BY DEF Inv, Kinds, TypeOK
<1> QED BY <1>1, InvHolds, PTL

\* No sweep takes the lease of a job that nobody has interrupted while its
\* client is here, for any jobs, executions and limits.
THEOREM LiveJobsAreLeased == Spec => []LiveJobIsLeased
<1>1. Inv => LiveJobIsLeased
  BY DEF Inv, Leased, LiveJobIsLeased
<1> QED BY <1>1, InvHolds, PTL

\* Leases take nothing from the promises of the job queue: every step is one
\* of SerialQueue, or leaves the queue alone.
THEOREM QueueIsSerial == Spec => Queue!Spec
<1>1. Init => Queue!Init
  BY DEF Init
<1>2. Inv /\ [Next]_vars => [Queue!Next]_(Queue!vars)
  <2> SUFFICES ASSUME Inv, [Next]_vars PROVE Queue!Next \/ UNCHANGED Queue!vars
    BY DEF Queue!vars
  <2> USE DEF Queue!vars, Queue!Next, Queue!Serve, queueVars
  <2>1. ASSUME NEW j \in Jobs, SubmitJob(j) \/ Interrupt(j) PROVE Queue!Next
    BY <2>1 DEF SubmitJob, Interrupt
  <2>2. ASSUME NEW j \in Jobs,
               SubmitTouch(j) \/ WsOpen(j) \/ WsRead(j) \/ WsTouch(j) \/ WsClose(j)
        PROVE  UNCHANGED Queue!vars
    BY <2>2 DEF SubmitTouch, WsOpen, WsRead, WsTouch, WsClose
  <2>3. ASSUME NEW l \in Leases, Poll(l) \/ ReleaseLease(l) \/ Vanish(l)
        PROVE  UNCHANGED Queue!vars
    BY <2>3 DEF Poll, ReleaseLease, Vanish
  <2>4. CASE WorkerBegin \/ WorkerSkip
    BY <2>4 DEF WorkerBegin, WorkerSkip
  <2>5. CASE EngineCancelled \/ EngineEnds
    BY <2>5 DEF EngineCancelled, EngineEnds, RunEnds
  <2>6. CASE EngineStage \/ EngineProgress
    <3>1. active \in Jobs
      BY <2>6 DEF EngineStage, EngineProgress, Inv, Kinds, Served
    <3>2. Heartbeat
      BY <2>6 DEF EngineStage, EngineProgress
    <3>3. CASE LeaseOf[active] \in open
      BY <3>2, <3>3 DEF Heartbeat
    <3>4. CASE LeaseOf[active] \notin open
      <4>1. Queue!Ask(active)
        BY <3>2, <3>4 DEF Heartbeat, Queue!Ask
      <4> QED BY <3>1, <4>1
    <3> QED BY <3>3, <3>4
  <2>7. CASE EngineCheck \/ EnginePin \/ EngineAttribute \/ EngineNextNode
    BY <2>7 DEF EngineCheck, EnginePin, EngineAttribute, EngineNextNode
  <2>8. CASE Sweeper \/ Tick \/ UNCHANGED vars
    BY <2>8 DEF Sweeper, Tick, vars
  <2> QED BY <2>1, <2>2, <2>3, <2>4, <2>5, <2>6, <2>7, <2>8 DEF Next, Engine
<1> QED BY <1>1, <1>2, InvHolds, PTL DEF Spec, Queue!Spec
==============================================================================
