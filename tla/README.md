# Verification of the flowx-pixelforge inference server

The repository holds one program: an inference server (`src/inference-server/app/`, Python,
FastAPI, torch and diffusers) that executes the graphs of image and video pipelines on one GPU.
Its clients are the nodes of a pipeline system (not in this repository): each pipeline execution
talks to the server over HTTP with its execution id in the header `X-FlowX-Lease`.

What is hard about it is not the arithmetic of the operators but everything around them: several
pipelines share one card and one engine, clients are killed without a word, answers get lost,
models of many gigabytes come and go, and the server decides with leases, pins, queues and
timeouts who may use and who may evict what. This project models those parts in TLA+, checks them
with TLC and proves with TLAPS, for any number of jobs, executions, connections, models, nets and
files, the safety properties of the job system, the leases, the gate, the event bus, the residency
of models, the loads and what they evict, the order of a graph's nodes, the object store, the pipe
that operators share and the plugins.

Line numbers below refer to files of `src/inference-server/app/` unless a path is given.

## 1. Inventory

### Threads and locks

| thread | runs | may hold |
|---|---|---|
| request threads | every HTTP handler (`main.py`), several at once | any lock below for a short time; `EXEC_LOCK` for a whole `/op` or `/graph` call |
| job worker (one) | `JobManager._worker`: takes a job, runs `run_graph` or `run_op` | `EXEC_LOCK` for a whole job |
| `/ws` pump (one per connection) | forwards events, renews the lease of its job | `LeaseBook._lock` for one call |
| auto-reclaim (one) | every 60 s: sweeps leases and the store | lease, store, job locks, briefly |
| samplers of metrics, previews | observation only | their own |

Locks: `EXEC_LOCK` (the GPU), `ModelManager._lock`, `ObjectStore._lock`, `JobManager._lock`,
`LeaseBook._lock`, `GateQueue._lock` (reentrant). The order in which they nest is gate before jobs
and leases; engine before models, models before store and leases; store before leases. The
callback `job_active`, with which the lease book asks for live jobs under its own lock, reads the
job table without the job lock, so there is no cycle (`jobs.py:163-182`).

### Components

| component | source | state | operations | module |
|---|---|---|---|---|
| job system | `jobs.py`, `execution.py` | job table, FIFO queue, per job status, error, result, cancel event, finish time | submit, interrupt (one or all), worker loop, evict, list, view | `JobQueue`, `SerialQueue` |
| lease register | `lease.py:70-233` | per lease: last activity, model keys | touch, touch_existing, forget_keys, sweep, release, is_active, keys_of_others, view | `LeaseBook`, `LeasedJobs` |
| gate | `lease.py:235-310`, `main.py:905-960` | queue of waiting executions | acquire, the busy check, behind, view | `Gate` |
| model manager | `model_manager.py`, `vram.py` | resident models with their last use and size, pins | load (five kinds), get, key_of, pin, unpin, unload, evict_idle, plan_eviction | `ModelResidency` |
| graph engine | `engine.py` | result cache, `EXEC_LOCK`, out-of-memory counters | run_graph, run_op, out-of-memory repeat, clear_cache | `EngineStore`, `TopoSort`; parts in `LeasedJobs`, `ModelResidency` |
| object store | `object_store.py` | objects with type, lease and time | put, get, contains, sweep, clear, discard_where, referenced_data | `EngineStore`; views in `ModelResidency` |
| event bus, `/ws` | `events.py`, `main.py:803-890` | subscribers' bounded queues, per connection a queue in the event loop | publish, subscribe, unsubscribe, pump, snapshot, send | `Watch`; the renewals of the pump in `LeasedJobs` |
| plugins | `plugins.py`, `registry.py`, `main.py:141-299` | operator registry, owners, routes, files on disk | scan at start, upload with rollback, takeover, delete | `Plugins` |
| policy | `policy.py`, `main.py:538-612` | limits that can be changed at run time | update | `Loading` |
| model sniffing | `sniff.py`, `model_manager.py:151-171` | none | what a file is, which file a name means, the list | `ModelFiles` |
| operators, samplers, offload | `ops.py`, `samplers.py`, `offload.py` | the pipe they share: enabled adapters, processors, what is on the card | sample, video_sample, clip_encode, lora_apply, controlnet_apply and others | `Sampling`, `SampleInputs`; the tensor code is not modelled |
| previews, video files, metrics, probes | `preview.py`, `video.py`, `metrics_history.py`, `*_probe.py` | ring buffers | observation | not modelled |
| vendored TripoSR, scripts, monitor page | `vendor/`, `scripts/`, `app/static/` | | | not modelled |

### How they interact

* `POST /jobs` renews the caller's lease, then creates a job that carries the lease; the worker
  binds it to its thread while the job runs. `GET /jobs/{id}` renews the lease of the job.
* While a job runs, `set_stage` and `set_progress` renew its lease as a *heartbeat*
  (`touch_existing`, which revives nothing); pinning a model or attributing one to the lease
  renews it with `touch`, which registers the lease if it is not there.
* A lease is dropped when it is silent for longer than the TTL, when it is silent for longer than
  the idle limit and has no live job, and on `DELETE /leases/{id}`.
* `load` evicts models for room, but neither pinned ones, nor those of which its own execution
  still has objects in the store (`extra_pinned`), nor those other leases hold. If that does not
  suffice it waits for the other leases, giving `ModelManager._lock` up while it sleeps so that
  `/model/unload` gets through.
* An eviction drops the store's views of the model (`on_evict`), its pin and its attribution.
* A pipe stays resident between executions and is shared: an operator finds it as the one before
  has left it, adapters and processors included.
* A plugin that is uploaded writes into the registry that requests read, while they read it.
* The gate admits one pipeline at a time: the head of its queue enters when no other execution has
  a live job or a lease, except those that wait in the queue behind it.

### What makes each component correct

* Job system: one job at a time, in order of arrival; no job lost, none evicted while alive; final
  status final; what an event announces is stored; memory bounded; every job settles.
* Leases: a live job of a present client never loses its lease to a sweep; the lease of a client
  that is gone ends; a released execution does not come back.
* Gate: at most one admitted execution with a lease; first come, first served among those who keep
  asking; nobody waits for ever.
* Models: nobody takes away what a live execution has loaded or is computing with; those who could
  free memory are not shut out by those who wait for it; a wait ends.
* Engine and store: nodes run after those they need; what an execution has made stays as long as
  its lease; what nobody can consume any more is returned, puts or no puts.
* Loads: a key says how its model was loaded; strict mode keeps to the card; a load takes no more
  than it needs and goes on short only when nothing is left to take.
* Event bus: a client that listens learns how its job ended; a connection that is gone leaves.
* Plugins: after a refused upload everything is as before; what is served, what the books say and
  what lies on the disk agree; a restart changes nothing.
* Operators: a step runs with the adapters of its own call; models stay on the card only if they
  fit together; a call leaves the pipe as it found it, but for a part of a net whose move has
  failed; the parts of a batch belong together.
* Sniffing: what the list offers, its loader takes; the exceptions are known.

The hazards of the code, each with its line and the properties aimed at it, are listed in
`PROJECT.json` under `hazards`.

## 2. Modules

| module | what it is |
|---|---|
| `Basics` | a list comprehension and a sum over a set, as functions for proofs; extended by `TopoSort`, `Loading` and `Sampling` |
| `SerialQueue` | abstract: what the job system promises, without threads |
| `JobQueue` | `jobs.py`, one shared access per action; implements `SerialQueue` |
| `JobQueueProofs` | theorems about `JobQueue`, the refinement among them, and about `Watch` |
| `LeaseBook` | `LeaseBook` of `lease.py`: one operator per method; extended by `LeasedJobs`, `Gate`, `ModelResidency` and `EngineStore` |
| `LeasedJobs` | leases with jobs (through `SerialQueue`), polls, `/ws`, engine, sweeps |
| `LeasedJobsProofs` | theorems about `LeasedJobs` |
| `Gate` | `GateQueue` and the busy check, over `LeaseBook` |
| `GateProofs` | theorems about `Gate` |
| `ModelResidency` | `ModelManager` under loads, unloads, pins, out-of-memory, over `LeaseBook` |
| `ModelResidencyProofs` | theorems about `ModelResidency` |
| `Loading` | what a load decides: knobs, key, claim, eviction, refusal; policy |
| `ModelFiles` | `sniff_arch`, `sniff_component`, the list of files and `resolve`, as functions; extended by `Loading` |
| `LoadingProofs` | theorems about `Loading` and `ModelFiles` |
| `TopoSort` | `topo_sort` as a function, with what it promises |
| `EngineStore` | `run_graph` with its result cache over `ObjectStore`, over `LeaseBook` |
| `EngineStoreProofs` | theorems about `TopoSort` and `EngineStore` |
| `Watch` | the event bus and `/ws`, over `JobQueue` |
| `Plugins` | uploads, deletions and the scan at start, over registry, owners, routes and disk |
| `PluginsProofs` | theorems about `Plugins` |
| `Sampling` | what operators do to the pipe they share |
| `SamplingProofs` | theorems about `Sampling` and `SampleInputs` |
| `SampleInputs` | what `sample` makes of its inputs, as functions; extended by `Sampling` |
| `MC*` | instances for TLC |

Composition: `LeasedJobs` uses the job system through its specification `SerialQueue` (`Queue ==
INSTANCE SerialQueue`), which `JobQueue` is shown to implement, by TLC with liveness and by proof
for safety. `Watch` extends `JobQueue`: the threads of the job system publish into the queues of
the connections. `Gate`, `ModelResidency` and `EngineStore` keep of the jobs only which execution
has one, and use the register of leases as it is. `Loading`, `Plugins` and `Sampling` stand alone:
what they model runs under `EXEC_LOCK` or shares no state with the others.

Definitions with the comment `Fault:` are not part of the specifications. Each is a plausible bug
of the definition that follows it; with the bug in place the property named in `PROJECT.json`
under `mutants` fails.

### JobQueue

Granularity. `JobManager._lock` guards the table only. `status`, `error`, `result` and
`finished_at` are written by the worker and by interrupting request threads without any lock, so
every action is one shared access wide, and each thread has a program counter: `subPc` (submit),
`wpc` (worker), `ipc` (interrupt). A critical section of the lock is one action.

| code | actions |
|---|---|
| `submit`, 137-144 | `SubmitInsert`, `SubmitPut`, `SubmitPublish` |
| `interrupt`, 224-245 | `InterruptTargets` (snapshot of the live jobs, or one id), `InterruptSignal`, `InterruptMark`, `InterruptError`, `InterruptFinish` |
| `_worker`, 247-274 | `WorkerGet`, `WorkerSkip`/`WorkerAccept` (the test), `WorkerStart`, `WorkerAnnounce`, `RunReturns`/`RunCancelled`/`RunFails`, `WorkerStatus`, `WorkerError`, `WorkerTell`, `WorkerFinally` |
| `_evict`, 277-284 | `WorkerEvict` |

Abstractions: error texts are three kinds; `finished_at` counts stamps (`now`) and is 0 for
`None`, which sorts first as in the code; an event is its type, in the set of those published
about the job. A run may end in each of the three ways at any time, `cancelled` only if the flag
is set.

### LeaseBook and LeasedJobs

Every method of the register holds its lock, so each is one action. Time counts in units in which
the limits are given; an age stops one unit past the larger limit. `Stale(busy)` is what a sweep
removes, `busy` the answer of the callback.

`LeasedJobs` adds who calls it. `SubmitTouch`/`SubmitJob` are the two halves of `POST /jobs`;
`Poll`, `ReleaseLease`, `Interrupt` the other requests; `WsOpen`, `WsRead`, `WsTouch`, `WsClose`
the pump, which reads the job's status and touches in a second step; `EngineCheck`, `EngineStage`
(heartbeat), `EnginePin`, `EngineProgress`, `EngineAttribute`, `EngineNextNode`, `EngineEnds` the
run, with the checkpoints of `run_graph` and without them for `/op` jobs. The status an
interrupted job shows is nondeterministic (`Snapshots`), as `JobQueue` shows it may read pending,
running or cancelled. A job ends where its final status is written. `Vanish` is a client that ends
or is killed.

### Gate

`Ask` and its repetition are the client; `AskTouch` renews the lease before the lock of the gate
is taken; `GateQueued` is a poll that is not at the head; `GateCheck` is the first read of the
busy check (jobs), `GateBusy`, `GateGrant` and `GrantLost` the second (the register, read twice
within one sweep's effect and merged here) with its outcome. `Call`, `Submit`, `Heartbeat`,
`JobEnds`, `Leave` and `Vanish` are admitted executions; `CleanUp` is the monitor page, which here
releases only leases of executions that have ended; `GateView` is `GET /leases`, which drops
expired entries. Callers without a lease never queue and are left out.

The list `_queue` is modelled as a set, `line`, with the set of those before each entry, `ahead`:
every operation of the code (drop what has expired, find the own entry or append one, take the
head away) is a restriction or an extension of that order, and `TypeOK` says that it stays total.

### ModelResidency

| code | actions |
|---|---|
| `load`, `_evict_if_needed`, 263-319, 869-895 | `LoadHit`, `LoadEvict`, `Build`, `BuildFails` |
| `_wait_for_leases`, 828-867 | `WaitLook` (head of the loop), the sleep without the lock, `Wake` (sweep, test, second eviction) |
| `get`, `outputs_to_store` | `GetHit`, `GetMiss` (a model that has gone is loaded again), `Put` |
| `VramGuard`, `key_of`, `pin` | `KeyOf`, `Pin`, `OpEnds`: none of them takes the lock |
| `_call_op`, `evict_idle` | `BuildOom`, `OpOom`: one repeat |
| `unload_detail` | `UnloadAsk`, `UnloadCheck` (under the lock, with the tests), `UnloadEvict` |
| store sweep, leases, time | `Orphan`, `ReleaseLease`, `Sweeper`, `Tick` |

`LockFree` is `ModelManager._lock`. `resident` are the models on the card, and `older[k]` those
that were used longer ago than `k`: the order of `last_used`, which is all that is read of the
times. The memory of the card is `Capacity`; a model takes `Size`, a load asks for `Need`. `Plan`
is `plan_eviction`, stated as what it returns: the shortest prefix, in order of last use, after
which number and memory are in order. `views[l]` are the models of which execution `l` has objects
in the store. `kept` is a history variable: what an execution has loaded and not given up since.

Choices: `UnloadEvict` evicts all targets in one step although the code evicts one by one (the
window between test and eviction is the same); the operator `model-unload` inside an engine call
does the same as a request; a pin of a model that is not resident cannot happen in `Pin` except in
the window between the test of an unload and its eviction; objects of an evicted model that are
stored late are not tracked, since nothing here reads them; a synchronous call has no job, so its
lease may lapse under it (`Sync`), as in the code.

### Loading and ModelFiles

`Loading` is the other half of the model manager: not who waits for whom, but what each load
decides, for all five loaders. Loads run one at a time under `EXEC_LOCK`, so a load is one action;
a wait for leases is here one that times out.

| code | definitions |
|---|---|
| knobs of a request, downgrade of strict mode, key, 263-291, 321-460 | `Dtype`, `Offload`, `Explicit`, `NeedsDowngrade`, `Downgrade`, `Mode`, `KeyKnobs`, `KeyOf` |
| estimate, factor, budget, 568-577, 644-658, 746-761 | `estimate`, `WithFactor`, `BudgetOf`, `Need`, `VramSize` |
| free memory and over-subscription, `vram.py:144-177` | `FreeBytes`, `Reserved`, `oversubscribed` |
| `_evict_pass`, `plan_eviction` | `Kept`, `EvictPass`, `plan_eviction` (`Plans` turn by turn, `Enough` its two conditions) |
| `_evict_if_needed`, `_wait_for_leases`, `_check_total_budget` | `Short`, `WaitsInVain`, `Claimed`, `Refused` |
| the loaders | `LoadHit`, `LoadFails`, `LoadBuilds`, `LoadRunsOut` (out of memory, with `evict_idle`) |
| operators, `find_keys`, `unload_detail`, policy | `OpBegins`, `OpEnds`, `Unload`, `Release`, `SetPolicy` |

Memory is in units of 1 GB. What an operator leaves behind, in the pool of the allocator and of an
offloaded model on the card, is nondeterministic (`OpEnds`). Sums over models count their units
(`Total`). `SetPolicy` writes a patch knob by knob up to the first bad one, as `policy.update`
does, whose caller answers with an error then.

`ModelFiles` keeps of a file what the rules ask for: the class in its config, the set of prefixes
of its keys, its ending, in small letters or not (`lower`), whether its name is that of an
upscaler. `CatalogueLoads` is its promise: what the list offers is loaded and found, except
unknown layouts and endings that are not in small letters (section 5), and these are not. The
entries that it speaks of are those in the directory of the models; LoRAs have one of their own.

### TopoSort and EngineStore

`Sorted` follows `topo_sort`: `Deps` leaves out references of a node to itself, `ready` is a
stack, `Turn` is one turn of the loop, `Turns` the loop, `Only` (`Basics`) a list comprehension.
It returns the empty sequence for a graph that the code refuses. `TopoSortIsRight` compares it
with a definition that knows no algorithm. The loops are recursive functions, so that proofs can
follow them. `Names` are the names that requests may give to nodes, `Nodes` those of the graph
that the executions of `EngineStore` run.

| code | actions |
|---|---|
| `run_graph`, 152-190 | `Begin`, `LookHit`/`LookMiss` (heartbeat and look into the cache), `Fetch`/`FetchFails` (a hit's objects), `Run`, `Put`, `Keep` (the entry in the cache), `RunFails` |
| `put`, `sweep`, `_sweep`, `discard_where`, `clear` | `Put`, `OtherPut`, `ReclaimSweep`, `ModelGoes`, `GcStore` |
| `/gc` | `GcCache`, then `GcStore` |
| `_auto_reclaim` | `ReclaimCheck`, `ReclaimSweep`, `ReclaimClear` |
| jobs, leases, time | `Submit`, `Poll`, `ReleaseLease`, `Sweeper`, `Tick` |

One engine serves one execution at a time (`EXEC_LOCK`); the order of waiting jobs is any. Each
method of the store is one action, since it holds the lock; a put's sweep is one step with its
insertion, and the questions `_sweep` asks about each object's lease are one question. A node has
one output. Ids are unique in the code; here an id is taken again when neither store, cache, run
nor client knows it, and which one makes no difference (`NewId`). The cache is indexed by node,
since both executions run the same graph with the same inputs, and so with the same keys.
`RunFails` also covers a cancelled job. `handed` and `borrowed` are history variables: the ids
that a registered execution was answered and that no explicit decision (the plain TTL, `/gc`, an
eviction) has taken from it, and those of them that another execution made.

### Watch

| code | actions |
|---|---|
| `publish`, `events.py:23-37` | `Broadcast`, joined to each step of `JobQueue` that publishes (`Telling`), to `set_stage` and `set_progress` of the running job (`Report`) and to those of other jobs (`OtherReport`) |
| `ws_jobs`, `main.py:823-840, 871-890` | `Connect`, `Snapshot`, `Send`, `SendFails` |
| `_pump`, 860-867 | `PumpGet`, `PumpPing` (30 s without any event) |

`publish` copies the list of subscribers under the lock and puts into their queues outside of it;
one step for both is enough, since a subscriber that is added in between misses an event of which
its snapshot already knows the status, and one that is removed does not read its queue any more.
`heard` is a history variable, the final news of its job that the client has got; `dropped` those
connections that have lost an event to a full queue. A send to a peer that has gone may be
swallowed or fail; that it fails in the end if it is tried again and again is assumed. The renewal
of the lease by the pump is in `LeasedJobs`.

### Plugins

| code | actions |
|---|---|
| `upload_plugin`, `main.py:161-260` | `Write`, `Snapshot`, `Register` (one per operator), `LoadFails`/`LoadEnds`, `Judge`, `Undo` and `Undone` (the two steps of a rollback), `Accept` |
| `detect_conflicts`, `stale_owners`, `reconcile` | `Conflicts`, `Present`, `Dropped` |
| `delete_plugin`, 275-299 | `Delete` |
| the start, `main.py:141-151`, `scan_plugins` | `Restart`, at any moment, in the middle of an upload too |
| the operator of the host | `RemoveByHand` (`plugins.py:186` expects it) |

A plugin is what it declares: operators, whether it has a route, and whether it raises on the way.
`heard` are the recordings that `load_plugin` puts in the place of `registry.register`. `drift` is
a history variable: a forced takeover, a file removed by hand or a crash has set directory and
registry at odds, after which a restart may well change what is served. The state has a thread per
upload (`Admins`) and the handler is cut into its steps, so that the model can also run uploads
side by side; the properties are checked for one at a time.

### Sampling and SampleInputs

`Sampling` is the life of one resident pipe: `LoadLora`, `LoadNet` and `Encode` are operators that
touch it; a call of `sample` goes through `SampleBegins` (adapters, parking of idle parts), `Plan`
(`ControlNetPlacement.plan`, once per element of the chain), `Install` (the processors of an
IPAdapter), `Enter`, then per step `NetSkipped` or `NetGoes`, `NetReturns`/`NetRaises`, and
`UnetStep`; `LoopEnds` and `Finally`. `video_sample` has `VideoBegins` and `VideoStep`. Errors and
interrupts may come at any of these (`PrepareRaises` before the `try`, `LoopEnds` and `NetRaises`
in it).

A move of a net to the card may run out of memory: in the plan (`PlanRaises`), or in the loop
before the `try` that would move the net home (`NetMoveRaises`). Then nothing of the net is on the
card or a part of it (`BreaksOff`); such a net is `split`. The code asks where the first parameter
is, so a split net counts as one on the card (`Stays`); its forward raises, until a plan sends it
home or a later move completes. How much of it takes memory is not kept, so that the free memory
is one of several amounts (`Available`). `torn` is a history variable: the nets that were split
when the call began. Moves to the memory of the host do not fail, and a `load_controlnet` that
fails forgets the net.

`card` is the card's memory; sizes are in MB, and what a set takes (`Total` of `Basics`, `MB`) is
counted unit by unit, which is the sum of the sizes and needs no recursion. A ControlNet may occur
in a chain more than once, and the code places each occurrence by itself; `Together` says that no
other net stands between two occurrences. What the hooks of accelerate and diffusers'
`set_attn_processor` do is external and modelled from how `ops.py` uses them.

`SampleInputs` holds the pure parts, each with its promise: `resolve_sampler` (`ResolvesOnce`),
`resolve_span` (`SpansHandOver`), the conds of both sides and the rows of the unet's batch
(`RowsBelongTogether`), `image_upscale` (`UpscaleFits`). A tensor is the name of what it is, and
fractions are in hundredths.

## 3. Runs

| run | expects | states | shows |
|---|---|---|---|
| `JobQueue` | pass | 76,657 | two jobs, an interrupting thread, one job retained: the safety properties below; every job settles; the threads implement `SerialQueue` with its liveness |
| `JobQueueRestart` | violation | | a cancelled job starts |
| `LeasedJobs` | pass | 96,529 | no sweep takes the lease of a live job; an abandoned lease ends |
| `LeaseRevived` | violation | | a released job revives its lease instead of cancelling itself |
| `Gate` | pass | 4,959 | two executions: exclusion, order of arrival, nobody waits for ever |
| `ModelResidency` | pass | 128,935 | what an execution has loaded stays; unloads are served during a wait; a wait ends; no deadlock |
| `Loading` | pass | 193,508 | keys tell knobs, strict loads fit, short loads have taken all; the algorithms |
| `EngineStore` | pass | 102,898 | an execution's own objects stay; auto-reclaim returns all memory; `topo_sort` on every graph of up to three nodes |
| `Watch` | pass | 483,190 | a listening client misses no end; a dead connection leaves the bus |
| `Plugins` | pass | 51,002 | books, registry and directory agree; refusals leave no trace; restarts change nothing |
| `Sampling` | pass | 1,748,871 | every step has its own patches, placements fit, the loop leaves no trace; the inputs |
| `SamplingAgain` | violation | | a ControlNet runs while it is not on the card |

(`Loading` counts states up to symmetry.)

### Properties

* `JobQueue`: `RunningIsHeld` (a running job is the worker's), `PendingIsInHand` (no job lost),
  `LiveJobIsKept` (eviction spares the live), `EventIsBacked` (a terminal event has its result or
  error), `DroppedWasCancelled` (the worker passes over only cancelled jobs), `RanWithinRetained`
  (memory), `FinalStatusStays` (action property: a final status is written over only by an
  interrupt that had read `pending`, or by the worker over `cancelled` of the job it holds, before
  its end is told), `EveryJobSettles`, `ServesInTurn` (refinement).
* `LeasedJobs`: `LiveJobIsLeased`, `AbandonedLeaseEnds`.
* `Gate`: `GateIsExclusive`, `PlaceIsKept` (action property), `EveryWaiterEnters`.
* `ModelResidency`: `ModelIsKept`, `UnloadIsServed`, `WaitEnds`.
* `Loading`: `KeyTellsKnobs` (in `TypeOK`), `StrictLoadFits` and `ShortHasTakenAll` (action
  properties), `AlgorithmsAreRight` (`PlanIsShortest` of `plan_eviction`, `CatalogueLoads` of
  `ModelFiles`). The premises of the two action properties are exact: each of them excepts a case
  in which the code does otherwise (section 5).
* `EngineStore`: `OwnObjectsStay`, `ReclaimReturnsAll`, and `RequestsAreSorted`, the promise of
  `TopoSort`.
* `Watch`: `NothingMissed`, `WatchEnds`.
* `Plugins`: `ServedIsBooked`, `RefusalLeavesNoTrace` and `RestartServesTheSame` (action
  properties).
* `Sampling`: `StepUsesOwnPatches`, `PlacementFits` (of calls that find no split net),
  `LoopLeavesNoTrace` (action property: of the nets placed per step none stays whole, and a part
  of one at most), and `InputsAreRight`, the four promises of `SampleInputs`.

### Bounds and why they are enough

* `JobQueue`: a job is submitted once, so the number of jobs bounds queue and clock. With two, one
  is served while the other is submitted, waiting or interrupted, and with `Retained = 1` the
  second to finish evicts the first; interrupts are unbounded, and more interrupting threads only
  repeat the writes of one (each target is handled independently). Of the safety properties the
  proofs cover any number of jobs and threads and any limit.
* `LeasedJobs`: two executions with a job each, one of them watched over `/ws`; `TTL = 2`,
  `IdleRelease = 1`. An idle release, an expiry and the interval between them can all happen,
  while one job waits behind the other.
* `Gate`: two executions, with the same limits and `EntryTTL = 2`; each passes the gate once. One
  may wait while the other works, falls silent or is killed, and each may expire under the other.
  Exclusion and order are proved for any number of them. `Asks` is the number of requests of one
  client that may be under way, here one.
* `ModelResidency`: two executions with one model each on a card that holds one, no limit on the
  entries, and unloads by the execution whose model the other one waits for: loads have to evict,
  to wait, to time out (`LoadWait = 1`) or to go on without enough room, which is what the two
  liveness properties are about. That is small for the safety properties, which are proved for any
  models, sizes and cards.
* `EngineStore`: two executions that submit the same graph once each (`Most = 1`): a loader, and
  an operator on its model that stands before it in the request. The second one's hits and misses,
  sweeps between its nodes, and its work with results of a lease that ends are all there. Four ids
  are enough: `Put` never has to wait for a free one. `ObjectTTL = 2`, the limits of a lease are 1
  and that of an orphan 0, which the code allows (`object_store.py:157`). `RequestsAreSorted`
  takes every request of up to three nodes, in every order, with cycles, references to itself and
  to an unknown node.
* `Loading`: a checkpoint of 7 GB and one of 3 GB whose name is part of the other's, a ControlNet,
  a card of 6 GB: one fits only offloaded, two do not fit together, a third resident (`Most = 3`)
  meets the limit on the entries. Five kinds of requests, two patches of the policy, one of them
  with a bad value. The algorithms are compared over lists of up to three candidates (`Longest`),
  with sizes and amounts of memory up to 3 (`Amounts`), without a limit on the entries and with
  two (`Caps`), and over all sets of up to three prefixes of keys (`KeySets`), for pairs of files
  up to one (`FewKeys`).
* `Watch`: one connection to one job (`Retained = 0`, so that it may find the job gone), a queue
  of two events (`Backlog`; 1000 in the code) and one frame in the event loop (`Unsent`), whose
  queue is unbounded in the code: the pump then waits, which only fills the bounded queue sooner.
* `Plugins`: two file names, two operators, a source with a route, one that declares both
  operators and one that raises; five requests, enough for a takeover, a refusal, a deletion and a
  new upload after each other; restarts and removals do not count.
* `Sampling`: two adapters, two nets, chains of up to three elements with windows, among them the
  same net twice next to each other; two steps; cards on which a pipe fits alone, with either net,
  and with both. The inputs are compared over all names, over spans of up to 12 steps (`Most`),
  six values of denoise, all pairs of conds with up to two segments (`Conds`), and small and odd
  sizes (`Extents`) with five factors. `SamplingAgain` has the same net before and after another
  one.

The proofs (section 4) cover any bounds for the safety properties of `JobQueue`, `LeasedJobs`,
`Gate`, `Watch`, `ModelResidency`, `Loading`, `EngineStore`, `Sampling` and `Plugins`.

Deadlock is checked except in `LeasedJobs` and `Gate`, where the system really may stop: all
clients are gone.

### Fairness and why the code justifies it

* Threads that can run are scheduled: weak fairness of the worker's steps, of requests that have
  begun, of the pump and of the auto-reclaim thread, which sweeps every minute. Clients owe the
  server nothing, except in `Gate`: a waiting client polls on until it is granted or killed, and
  its answers are not lost for ever (strong fairness of `GateGrant`).
* Auto-reclaim looks every minute, and a request to `/gc` that has begun ends (weak fairness in
  `EngineStore`). `ReclaimReturnsAll` has as a premise that executions end; it needs no put.
* The pump and the event loop of a connection run (weak fairness in `Watch`), and a peer that has
  gone is noticed if it is sent to again and again (strong fairness of `SendFails`): the loop that
  sends is the only place where the code notices it. `WatchEnds` has as a premise that other jobs
  do not report for ever, since their events keep the ping away and are not sent (section 5).
* Operators and runs end (`SF` of `EngineEnds` in `LeasedJobs`, `WF` of the steps of a run
  elsewhere): a graph is finite and an operator returns or raises.
* Locks are given to those who want them at some time (strong fairness, in `ModelResidency` and of
  the gate's requests): Python's locks are not fair, but a waiter that is passed over for ever is
  a defect of the interpreter, not of this code.
* Time: `LeasedJobs` assumes that time passes (weak fairness of `Tick`). `EveryWaiterEnters` and
  `WaitEnds` have it as a premise: a client cannot poll, nor a load look at the clock, infinitely
  often in one unit. `UnloadIsServed` needs no time at all: an unload does not have to wait for
  the deadline of the load it would help.

`WaitEnds` speaks of the wait. That a load ends is not claimed: a model that is unloaded between
`load` and `get` again and again is loaded again each time.

## 4. Proofs

`JobQueueProofs` proves, for any set of jobs, any set of interrupting threads and any retention
limit, under the two assumptions of `JobQueue`: `RetainedAssumption` (`Retained \in Nat`) and
`NoJobAssumption` (`NoJob \notin Jobs`):

* `InvariantHolds`: `Spec => []IInv`.
* `TypeCorrect`, `RunningJobIsHeld`, `PendingJobIsInHand`, `EvictionSparesLiveJobs`,
  `TerminalEventIsBacked`, `DroppedJobWasCancelled`: the invariants the run `JobQueue` checks.
* `FinalStatusIsKept`: `FinalStatusStays`. It needs one more invariant, `Running`: while the
  worker runs a job, its status is running or an interrupt's `cancelled`, and of a job that the
  worker is not done with neither `done` nor `failed` has been told.
* `RetentionBound`: the bound on the table.
* `RefinesSerialQueue`: the threads implement the safety part of `SerialQueue`.

The properties are not inductive on their own. That a running job is the worker's, for example,
needs to know that a job the worker has just taken is in no other place and was not started
before; that an event is backed needs what the flag, the outcome and the error field hold before
the event. `IInv` adds this in four groups, each preserved with the help of those before it:

1. `Phases`: what the program counters say about local variables;
2. `Places`: a job is in one place - a submit, the queue (once), the worker - and only submitted
   jobs are in the table or in an interrupt's hands;
3. `Statuses`: which status a job can have in which place;
4. `Backing`: what is written before a status or an event says so.

Each group has one lemma (`TypeStep`, `PlacesStep`, `StatusesStep`, `BackingStep`) with one step
per action, and a frame lemma for the actions that touch none of its variables.

`RetentionBound` needs a second invariant, `Bound`, on the set `Settled` of jobs that have run and
left the worker: it shrinks or stays in every step but `WorkerEvict` (`SettledShrinks`), and
`WorkerEvict` cuts it to the limit. The refinement maps the queue to the line, with the job that
is taken but not yet started still at its head (`Line`), and derives a job's fate from its place
(`Fate`); each action is then a step of `SerialQueue` or a stutter (`RefinesStep`).

Of `Watch` it proves, for any jobs, connections, filters, queues and bounds:

* `WatchingIsHarmless`: `WatchSpec => Spec`. Who listens changes nothing, so that every theorem
  about `JobQueue` holds of `Watch` too, and the proof may use `IInv`.
* `NoNewsIsMissed`: `NothingMissed`. The invariant `Informed` says of an open connection to a job
  which has ended, and which has lost no event, that the client knows the end, or the news of it
  is in one of its two queues, or the thread that wrote the status has not published it yet
  (`ToBeTold`). The last case needs the program counters of `JobQueue` and its `IInv`. That no
  news falls between the snapshot and the subscription needs their order (`Subscribed`).

`GateProofs` proves, for any set of executions, any limits (`TTL`, `IdleRelease`, `EntryTTL` above
zero: the assumptions of `LeaseBook` and `Gate`) and any number of requests of one client under
way:

* `GateTypeCorrect`: `TypeOK`, which says that the queue is a total order and that the busy check
  is done by one request at a time, of the head. Its parts (`Order`, `HeadChecks`, `Kinds`, the
  register) each have their lemmas.
* `PlacesAreKept`: `PlaceIsKept`. The invariant `Polls` says that the entry of a client that keeps
  asking is fresh, so that no operation on the queue drops it.
* `GateExcludes`: `OneRequest => (Spec => []GateIsExclusive)`, where `OneRequest` says that a
  client sends the next request when the last one is answered (`Asks` has one element at most).
  The invariant `Alone` says that whoever is at work is neither in the queue nor about to be, and
  that whoever may be admitted has a young lease: so its lease or its job is among the others for
  whoever checks next. With two requests under way the property fails (section 5), so the premise
  cannot be dropped.

The proofs about `Gate`, `LeasedJobs`, `ModelResidency` and `EngineStore` each begin with what
they need of the register: whatever is done to it, it keeps its type (`BookStep`).

`LeasedJobsProofs` proves, for any jobs, leases and limits, under the assumptions that every job
has a lease (`LeaseOfAssumption`), that the watched jobs are jobs and that `NoJob` is none:

* `LeasedTypes`: `TypeOK`.
* `LiveJobsAreLeased`: `LiveJobIsLeased`. That no sweep takes the lease needs to know that the
  lease of a submit on its way to the queue is young (`Young`), and that a job in the line or at
  the engine is in the snapshot the sweep reads (`Served`).
* `QueueIsSerial`: `Spec => Queue!Spec`. Leases, polls, sweeps and the pump leave the job system
  what it was. With `RefinesSerialQueue` this joins the two modules: what the threads of
  `JobQueue` implement is what `LeasedJobs` builds upon.

`ModelResidencyProofs` proves, for any models, sizes, cards, executions and limits:

* `ResidencyTypes`: `TypeOK`, which says that `older` orders the residents totally. `Order` makes
  this inductive.
* `ModelsAreKept`: `ModelIsKept`. The invariant `Held` says why a model is not taken: it is
  resident, it is written down under its lease, which is registered and hence among the others for
  everybody else, and it is among the views of its own execution or about to be. `Cuts` says that
  an unload that has chosen its models may still take them when it comes to it: nobody loads in
  between, because it holds the lock, and nothing it has chosen is kept by another. The size of
  models and the choice of victims play no part: the property rests on who is protected.

`EngineStoreProofs` proves of `TopoSort`:

* `EveryRequestIsSorted`: for every request of at least one node and every map of references,
  `topo_sort` returns an order in which every node comes after the others it refers to, if there
  is one, and refuses the request if there is none. `RequestsHold` states it of the run's property
  `RequestsAreSorted`, for any finite set of names.

The loop is a recursive function. What such a function returns (`Runs`) and what its steps
preserve (`Preserved`) is derived from `SetInduction`: a set of numbers that has 0 and with each
number the next is all of them, which a set can express where an operator parameter cannot be
instantiated. The invariant of the loop is `Sound`: what is ordered is ordered right, no node is
both ordered and ready or there twice, a node is ready or ordered if and only if it waits for
nobody, and it waits for exactly those of its references that are not ordered yet. If the loop
stops short, every node left waits for another one that is left; the first of them in a valid
order would have to stand after it (`UnsortedHasNoOrder`), so there is no valid order.

and of `EngineStore`, for any graphs, executions, ids and limits, with a request that can be
ordered (`Order # <<>>`: another one is refused before the engine does anything) and whose nodes
have different names, as the keys of the code's dictionary have:

* `EngineTypes`: `TypeOK`. That the node in hand exists rests on the order having no more and no
  other nodes than the graph, which is what `topo_sort` promises.
* `OwnObjectsAreKept`: `OwnObjectsStay`. The invariant `Owned` says that what an execution was
  told of and did not borrow is an object of its own, and that its list is empty once its lease
  has ended, so that the orphan sweep, which asks the register, does not take it.

`SamplingProofs` proves, for any adapters, nets, sizes, chains, steps and cards, with a reserve
above zero (`RESERVE_MB` is 512):

* `TypesHold`: `TypeOK`, and `OwnPatches`: `StepUsesOwnPatches`.
* `PlacementHolds`: `PlacementFits`. `Room` says that as soon as one net was placed to stay, there
  is room for everything that has yet to come: the unet, the rest of the chain and the reserve.
  The estimate of a net counts a net of the chain as often as it occurs, so it covers what later
  elements ask for (`WaitingCovers`), and it shrinks as they are placed (`WaitingShrinks`). For a
  net that occurs twice the second plan has to come out like the first: `Again` says that the plan
  of the last element would be the same now (`MayAgain`, `MayNotAgain`), which is why other nets
  in between make a difference, and `Alike` that occurrences that stand together agree. All of
  this is stated of calls that have found no split net: the first one in a call ends it, so that
  the plans go by what is on the card.
* `NoTrace`: `LoopLeavesNoTrace`. `Kept` says that within a call no net is split that was not so
  before, but the one whose move has raised and so ended the call; `Moved` that a net placed per
  step is off the card unless it runs or its move has broken off, for chains in which all
  occurrences of a net are placed alike (`Orderly`): none occurs twice, or `Together` as above.
* `InputsHold`: `InputsAreRight`, that is the four promises of `SampleInputs`, for any names,
  spans, denoises from 0 to 1, conditionings, sizes and positive factors. `round` is off by a half
  at most (`RoundedIs`); the forwards of both sides are two sequences after each other (`Joined`),
  so that each segment has the one row that its place gives it (`RowsAre`).

The memory a set takes is the number of its units, so that `FiniteSetTheorems` give what is needed
of sums (`TotalUnion`, `TotalSubset`, `TotalImage`).

`LoadingProofs` proves, for any files, weights, requests, executions, cards, policy bodies and
limits, under the assumptions of `Loading`, which say of each constant what it is:

* `EveryPlanIsShortest`: `plan_eviction` takes the least recently used first, stops as soon as
  number and memory are in order, and gives up only when no candidate is left, for lists of any
  length. The loop is a recursive function, followed like that of `topo_sort`: once it has stopped
  its plan stays, and what it has freed is the sum over the plan (`PlanIs`).
* `EveryListIsRight`: `CatalogueLoads` for any sets of prefixes, by cases on what lies in the
  directory: a kind that is offered is taken by its loader (`KindIsLoaded`), or refused for the
  ending or the layout (`KindIsRefused`). `AlgorithmsHold` states both of the run's property
  `AlgorithmsAreRight`.
* `TypesHold`: `TypeOK`, with `KeyTellsKnobs`. The invariant `Inv` consists of `Books` (residents
  are listed once, each with an entry that its key tells), `Holds` (leases, views and pins name
  residents) and `Limits` (no patch takes a knob out of its range).
* `StrictLoadsFit`: `StrictLoadFits`. A load that is not short has the room. One that is short,
  and still goes on, leaves nothing that another execution holds, and its own views are empty: so
  either it has evicted everything, and then the refusal of what exceeds the card bounds it, or
  its plan has stopped because the books say that there is room. They exaggerate by the floors of
  offloaded models and by nothing else (`ClaimedIs`), which needs that a model on the card takes
  what is claimed for it (`Tells`), and the reserve makes up for that.
* `ShortHasTaken`: `ShortHasTakenAll`, by the same two cases of the plan.

The proof found the last premise of `StrictLoadFits` (section 5): the load of a ControlNet onto an
empty server is bounded by nothing, which the run does not meet, as its ControlNet is small.

`PluginsProofs` proves, for any files, operators and contents, under `FileAssumption` (of some
files, one sorts last), `ContentAssumption` and `NoneAssumption`:

* `PluginTypes`: `TypeOK`, with any number of uploads side by side.
* `BooksAgree` and `RefusalsLeaveNoTrace`: `ServedIsBooked` and `RefusalLeavesNoTrace` under the
  premise `OneAdmin` (one upload at a time); with two they are false (section 5). The invariant
  `Booked` says of an upload under way that it still knows the directory, the registry and the
  routes it began with and that these agreed (`Began`), and that what is registered now is that
  registry with the names it has claimed since (`Done`).
* `RestartsServeTheSame`: `RestartServesTheSame`, under the same premise. `InOrder` says that
  every file is whole and every name belongs to the one file that declares it; of such a directory
  a scan finds what is served (`ScanFindsTheSame`), and as long as nothing has set `drift` every
  request leads from order to order (`Ordered`).

Only model-checked: liveness under fairness (`EveryJobSettles`, the liveness half of
`ServesInTurn`, `AbandonedLeaseEnds`, `EveryWaiterEnters`, `UnloadIsServed`, `WaitEnds`,
`ReclaimReturnsAll`, `WatchEnds`), which the installed provers do not handle. Every invariant and
every action property of the passing runs is proved, some of them under a premise that section 5
explains.

## 5. Findings

Three are counterexamples of runs against a sentence of the code, its documents or its tests;
`PROJECT.json` quotes the lines.

* `JobQueueRestart` (`jobs.py:252`): an interrupt that reads `pending` just before the worker
  starts the job writes `cancelled`, and the worker then writes `running` over it. For a graph the
  flag ends the run at the first checkpoint; a `/op` job has none before its operator, and `done`
  may follow. That is one of the two exceptions of `FinalStatusStays`; the other one is such an
  interrupt that writes `cancelled` late, over `running` or over the end of the run.
* `LeaseRevived` (`model_manager.py:775`): a pin or a cache hit of a loader between `DELETE
  /leases/{id}` and the next heartbeat registers the lease again, and the abandoned job runs on.
* `SamplingAgain` (`ops.py:457`): each element of a chain is placed by itself, from the memory
  that is free then. If the same ControlNet stands before and after another one, the first plan
  may leave it on the card and the last one send it away, or the other way round: then an element
  that is taken to be on the card runs while its net is not. `PlacementFits` and
  `LoopLeavesNoTrace` except such chains.

What follows was met while modelling. The models contain it, and the properties are stated so that
they except exactly these cases.

Jobs and events:

* `RanWithinRetained` is stated of the jobs that have run: jobs cancelled while they wait leave
  the worker through `continue` (`jobs.py:251`), which does not evict, so that an idle server may
  keep more finished jobs than the limit that `jobs.py:7` promises.
* A ping is sent only if no event of any job has arrived for 30 s: on a connection with a job
  filter, the reports of other jobs replace the pings and are not sent, so that nothing keeps the
  connection alive and a dead peer is not noticed (`main.py:814` promises a ping after 30 s
  without an event).
* After the snapshot an older event may still arrive, and the last frame need not be the last
  status: `submitted` may follow `running`, and `cancelled` may follow `done`.
* The queue of the event loop is unbounded, so a slow client never fills the bounded queue of the
  bus; events are dropped only if the pump itself is slow (`events.py:17,35` speak of slow
  subscribers).

Gate and leases:

* A poll that the client gave up on and repeated, served only after the repetition was granted,
  puts a working execution into the queue (`lease.py:265`). The head of the queue counts it as
  parked (`main.py:914`), although `lease.py:289` says that those in the queue cannot be running
  anything, and is admitted next to it. This is `GateIsExclusive` with `Asks` of two elements.
* A synchronous `/op` or `/graph` call has no job and no heartbeat: if it lasts longer than the
  idle limit, the gate passes on while it holds the GPU.

Models:

* An unload tests pins and leases of all its targets first and evicts afterwards, while pins are
  set without the lock (`model_manager.py:962-977`, `409-414`, `767-775`). A model that an
  operator pins in between is evicted under it, if its execution's lease was released;
  `lease.py:171` says that the pin protects it then.
* Strict mode may still spill, where `docker-compose.yml:14` and `DEPLOY.md:122` promise a
  refusal: a load whose own views protect the residents has nobody to wait for and goes on with a
  warning, and `_check_total_budget` adds up only what other leases hold, of which nothing is left
  when it is reached (the wait before it ends only when nobody else holds anything). On an empty
  server nothing is asked at all (`model_manager.py:875`): a pipe is then downgraded, but a
  ControlNet, a VAE or a motion pipe that is larger than the card is loaded.
* What an eviction frees is taken to be the budget of the entry, for offloaded models the floor,
  although their weights are not on the card (`StrictLoadFits`, `ShortHasTakenAll`: `Floors`,
  `BooksAreTrue`). Free memory is cut off at 0 on a card that is over-subscribed.
* A downgraded load gets a key of its own, so that the same request before and after a downgrade
  makes two copies, where `model_manager.py:264` calls `load` idempotent. `load_motion` writes no
  `_vram_sizes`. `get` with a key that has knobs fails after an eviction.
* `_evict_if_needed` runs before `sniff_arch`: a file that is no checkpoint costs the residents
  their place before it is refused. A key is the base name only; `find_keys` spares the other
  copies of a name if one key is the name itself; `evict_idle` does not look at views.
* `sniff.py:8` calls its two rule sets exclusive; a VAE in the layout of ComfyUI is taken by both.
  A directory hides a file of the same name, whatever it holds.
* The list of models looks at names in small letters (`sniff.py:162`), the sniffers and `resolve`
  at names as they are (`sniff.py:49,69,109`, `model_manager.py:157`). So `X.CKPT` is listed as
  `X`, its rules do not apply, and neither is `X` found nor the file read if it is asked for by
  its whole name. `CatalogueLoads` excepts these entries and says that there are no others but
  unknown layouts. A LoRA is found by names as they are too (`model_manager.py:539`). A file
  `a.ckpt.ckpt` is listed as `a.ckpt`, which `resolve` takes for a whole name: names that end in a
  suffix twice are left out of the model.
* A patch of the policy that is answered with an error has been applied up to the bad knob
  (`policy.py:74`).

Engine and store:

* A cache hit serves objects that carry the lease of another execution and does not claim them
  (`engine.py:174-179`). When that lease ends, the orphan sweep of the next put drops them under
  the execution that was answered their ids, although `object_store.py:146` says that nobody will
  consume them then. `OwnObjectsStay` speaks of what an execution has made itself.
* Between the look into the cache and the reading of the objects an eviction, `/gc` or a sweep may
  take them (`FetchFails`): the run then fails, where `tests/test_engine.py:85` wants lost objects
  computed again.

Plugins:

* Uploads take no lock. With two side by side (`Admins` of two elements), the rollback of one
  restores a registry from before the other (`main.py:187-225`), where `main.py:201` says that the
  failure path must have no side effects, and `load_plugin` takes its recording out of
  `registry.register` for both: `ServedIsBooked` and `RefusalLeavesNoTrace` fail.
* A rollback empties the registry before it fills it (`_ops.clear()`): a request that is served in
  between finds no operator.
* The scan at start does not fill `plugin_routes`, so the routes of a plugin survive its deletion
  after a restart; and it keeps the operators of a plugin that raised half-way, which happens if
  the server ended while such a plugin was being uploaded.

Operators:

* Whatever is raised between the enabling of the patches (`ops.py:694`) and the `try` at 986
  leaves adapters and processors in the pipe. The next call sets its own adapters
  (`StepUsesOwnPatches`), but a call without an IPAdapter then fails in its first step.
* The move of a net that is placed per step stands before the `try` (`ops.py:497`): if it runs out
  of memory, a part of the net stays on the card, and nothing moves it home. `plan` looks at the
  first parameter only (`ops.py:444`), so that the next call may take the net for one that stays
  and leave it as it is: each of its forwards raises, until a plan finds too little room and sends
  it home, or the net is unloaded. `LoopLeavesNoTrace` excepts that part, and `PlacementFits`
  calls that find one.
* A start at or past the last step repeats the last step; different numbers of pooled embeddings
  count as none; names of adapters collide if two paths have the same base name.

## 6. Not modelled

Left out of the modelled parts: lease ids are taken as sanitized; the idle limit does not change
while the server runs; in `ModelResidency` callers without a lease do not load models (they
unload). A snapshot of the job table that fails twice (`jobs.py:180`) cannot happen in the
interpreters the image uses. Warm-up, the reading of weights, the counters of `status()` and the
text of errors are left out of the model manager, the files of VIDEO objects out of the store.

Not modelled at all: the arithmetic of operators on tensors, previews, video files, metrics and
probes, up- and downloads of files, the token, and the vendored model keep no state that a
decision of the server reads. The scripts drive a deployed server and test it.

Not composed: `Loading` and `ModelResidency` are two views of one manager, decisions and
interleavings; a strict load that waits is in neither. `EngineStore` keeps its operators fixed, so
nothing is said of results that stay in the cache when a plugin is uploaded anew (`engine.py:143`:
the key does not name the version). `ModelResidency` does not follow views of models that have
gone (`registry.py:132`).
