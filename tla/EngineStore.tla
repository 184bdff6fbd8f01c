---------------------------- MODULE EngineStore ----------------------------
(***************************************************************************)
(* The graph engine with its result cache (run_graph, app/engine.py) over  *)
(* the object store (app/object_store.py), shared by all executions.       *)
(*                                                                         *)
(* The cache outlives the execution that filled it and holds only ids; the *)
(* objects belong to the lease under which they were put.  One graph runs  *)
(* at a time (EXEC_LOCK), but requests, evictions of models and the thread *)
(* that reclaims memory work on the store and the cache meanwhile.  Every  *)
(* method of the store holds its lock; the cache is a plain dictionary.    *)
(***************************************************************************)
EXTENDS LeaseBook, TopoSort

CONSTANTS
    NoLease, NoId, NoNode,
    Names,      \* the names that the nodes of requests may have
    Graph,      \* the nodes of the request that the executions send, in its order
    Refs,       \* [nodes -> SUBSET nodes]: their inputs
    Loaders,    \* the nodes whose output is a view of a model
    Ids,        \* bound: object ids, taken again when nobody knows them
    Most,       \* bound: the jobs one execution submits
    ObjectTTL,  \* OBJECT_TTL_SECONDS
    OrphanTTL   \* OBJECT_TTL_ORPHAN_SECONDS

Nodes == NodesOf(Graph)
Order == Sorted(Graph, Refs)

ASSUME NoneAssumption == NoLease \notin Leases /\ NoId \notin Ids /\ NoNode \notin Nodes
ASSUME StoreAssumption ==
    ObjectTTL \in Nat /\ OrphanTTL \in Nat /\ Most \in Nat /\ Loaders \subseteq Nodes
ASSUME GraphAssumption ==
    /\ IsFiniteSet(Names) /\ Graph \in RequestsOver(Names)
    /\ Refs \in [Nodes -> SUBSET Nodes] /\ Order # <<>>

VARIABLES
    owner,    \* per id: the lease of the stored object; NoLease: not stored
    made,     \* per id: the node that made it
    old,      \* per id: now - created
    cache,    \* _CACHE: per node, the id of its output, or NoId
    sent,     \* per execution: the jobs it has submitted
    pend,     \* the executions whose job waits for the engine
    epc,      \* where the engine is
    who,      \* the execution it serves
    meta,     \* out_meta: the ids of the nodes done, in order
    hit,      \* the cached id that was found valid, or the id just stored
    rpc,      \* where the auto-reclaim thread is
    gpc,      \* where a request to /gc is
    handed,   \* history, per registered lease: the ids that were answered to
              \* its client and not given up since by anybody
    borrowed  \* of these, the ones that another lease owned

storeVars == <<owner, made, old>>
runVars == <<sent, pend, epc, who, meta, hit>>
histVars == <<handed, borrowed>>
vars == <<bookVars, storeVars, cache, runVars, rpc, gpc, histVars>>

Stored == {i \in Ids : owner[i] # NoLease}

\* JobManager.active_leases.
Busy == (pend \cup {who}) \cap Leases

Init == /\ BookInit
        /\ owner = [i \in Ids |-> NoLease]
        /\ made = [i \in Ids |-> NoNode] /\ old = [i \in Ids |-> 0]
        /\ cache = [n \in Nodes |-> NoId]
        /\ sent = [l \in Leases |-> 0]
        /\ pend = {} /\ epc = "idle" /\ who = NoLease /\ meta = <<>> /\ hit = NoId
        /\ rpc = "sleep" /\ gpc = "idle"
        /\ handed = [l \in Leases |-> {}] /\ borrowed = [l \in Leases |-> {}]

(***************************************************************************)
(* The store.                                                              *)
(***************************************************************************)

\* Fault: an entry goes without what belongs to it.
ReplaceKept(gone, new, n) ==
    /\ owner' = [i \in Ids |-> IF i \in new THEN who ELSE IF i \in gone THEN NoLease ELSE owner[i]]
    /\ made' = [i \in Ids |-> IF i \in new THEN n ELSE made[i]]
    /\ old' = [i \in Ids |-> IF i \in new \cup gone THEN 0 ELSE old[i]]

\* The store without the objects in gone, with the new objects of node n.
Replace(gone, new, n) ==
    /\ owner' = [i \in Ids |-> IF i \in new THEN who ELSE IF i \in gone THEN NoLease ELSE owner[i]]
    /\ made' = [i \in Ids |-> IF i \in new THEN n ELSE IF i \in gone THEN NoNode ELSE made[i]]
    /\ old' = [i \in Ids |-> IF i \in new \cup gone THEN 0 ELSE old[i]]

Discard(gone) == Replace(gone, {}, NoNode)

\* The clients know that objects in lost are gone; the leases in gone ended.
Lose(lost, gone) ==
    /\ handed' = [l \in Leases |-> IF l \in gone THEN {} ELSE handed[l] \ lost]
    /\ borrowed' = [l \in Leases |-> IF l \in gone THEN {} ELSE borrowed[l] \ lost]

Expiring == {i \in Stored : old[i] > ObjectTTL}

\* Fault: an object is an orphan as soon as it is old enough.
OrphansAny == {i \in Stored : old[i] > OrphanTTL}

\* Objects of a lease that has ended (lease_alive sweeps the register).
Orphans == {i \in Stored : old[i] > OrphanTTL /\ owner[i] \notin open \ Stale(Busy)}

\* The register is swept only if there is an object to ask about.
Asked == IF \E i \in Stored : old[i] > OrphanTTL THEN Stale(Busy) ELSE {}

\* _sweep, alone or before a put.
StoreSweep == /\ Drop(Asked)
              /\ Lose(Expiring, Asked)

(***************************************************************************)
(* The engine: run_graph.                                                  *)
(***************************************************************************)

\* POST /jobs.
Submit(l) ==
    /\ l \notin Busy /\ sent[l] < Most
    /\ sent' = [sent EXCEPT ![l] = @ + 1]
    /\ pend' = pend \cup {l}
    /\ Touch(l, {})
    /\ UNCHANGED <<storeVars, cache, epc, who, meta, hit, rpc, gpc, histVars>>

\* GET /jobs/{id}.
Poll(l) ==
    /\ l \in Busy
    /\ Touch(l, {})
    /\ UNCHANGED <<storeVars, cache, runVars, rpc, gpc, histVars>>

Begin(l) ==
    /\ epc = "idle" /\ l \in pend
    /\ pend' = pend \ {l} /\ who' = l /\ epc' = "look"
    /\ UNCHANGED <<bookVars, storeVars, cache, sent, meta, hit, rpc, gpc, histVars>>

Node == Order[Len(meta) + 1]

Goto(pc) == epc' = pc /\ UNCHANGED <<sent, pend, who, meta>>

RunEnds == /\ epc' = "idle" /\ who' = NoLease /\ meta' = <<>> /\ hit' = NoId
           /\ UNCHANGED <<sent, pend>>

\* The run goes on with the next node, or ends with the ids of all.
NodeDone ==
    \/ /\ Len(meta) + 1 < Len(Order)
       /\ epc' = "look" /\ meta' = Append(meta, hit) /\ hit' = NoId
       /\ UNCHANGED <<sent, pend, who>>
    \/ Len(meta) + 1 = Len(Order) /\ RunEnds

\* _cache_valid: the output is still in the store.
Valid(id) == id \in Stored

\* A heartbeat, and the look into the cache.
LookHit == /\ epc = "look" /\ Valid(cache[Node])
           /\ Goto("fetch") /\ hit' = cache[Node]
           /\ TouchExisting(who)
           /\ UNCHANGED <<storeVars, cache, rpc, gpc, histVars>>

LookMiss == /\ epc = "look" /\ ~Valid(cache[Node])
            /\ Goto("run") /\ UNCHANGED hit
            /\ TouchExisting(who)
            /\ UNCHANGED <<storeVars, cache, rpc, gpc, histVars>>

\* The id goes to the client of a registered execution, with the answer.
Give(id, others) ==
    IF who \in open THEN /\ handed' = [handed EXCEPT ![who] = @ \cup {id}]
                         /\ borrowed' = [borrowed EXCEPT ![who] = @ \cup others]
                    ELSE UNCHANGED histVars

\* meta_to_objects.
Fetch == /\ epc = "fetch" /\ hit \in Stored
         /\ NodeDone
         /\ Give(hit, IF owner[hit] = who THEN {} ELSE {hit})
         /\ UNCHANGED <<bookVars, storeVars, cache, rpc, gpc>>

\* object not found: between the look and the fetch it has gone.
FetchFails == /\ epc = "fetch" /\ hit \notin Stored
              /\ RunEnds
              /\ UNCHANGED <<bookVars, storeVars, cache, rpc, gpc, histVars>>

\* The operator returns; a loader attributes its model to the lease.
Run == /\ epc = "run"
       /\ Goto("put") /\ UNCHANGED hit
       /\ IF Node \in Loaders THEN Touch(who, {}) ELSE UNCHANGED bookVars
       /\ UNCHANGED <<storeVars, cache, rpc, gpc, histVars>>

\* The operator raises, or the job is cancelled.
RunFails == /\ epc \in {"look", "run"}
            /\ RunEnds
            /\ UNCHANGED <<bookVars, storeVars, cache, rpc, gpc, histVars>>

\* The ids that somebody knows; that of the cache entry which the run is
\* about to write is free if its object has gone.
Known == Stored \cup {cache[n] : n \in Nodes \ {Node}} \cup ToSet(meta)
                \cup UNION {handed[l] : l \in Leases}

\* uuid4: an id that nobody knows; which one makes no difference.
NewId == CHOOSE i \in Ids : i \notin Known

\* outputs_to_store: put sweeps first.
Put == /\ epc = "put" /\ Ids \ Known # {}
       /\ Replace(Expiring \cup Orphans, {NewId}, Node) /\ hit' = NewId
       /\ Goto("keep") /\ StoreSweep
       /\ UNCHANGED <<cache, rpc, gpc>>

\* cache[key] = out_meta[nid]
Keep == /\ epc = "keep"
        /\ cache' = [cache EXCEPT ![Node] = hit]
        /\ NodeDone
        /\ IF hit \in Stored THEN Give(hit, {}) ELSE UNCHANGED histVars
        /\ UNCHANGED <<bookVars, storeVars, rpc, gpc>>

Engine == \/ LookHit \/ LookMiss \/ Fetch \/ FetchFails \/ Run \/ RunFails
          \/ Put \/ Keep

(***************************************************************************)
(* Who else works on the store and the cache.                              *)
(***************************************************************************)

\* A put of another thread (an upload), whose object nobody here uses.
OtherPut == /\ Expiring \cup Orphans # {}
            /\ Discard(Expiring \cup Orphans) /\ StoreSweep
            /\ UNCHANGED <<cache, runVars, rpc, gpc>>

\* on_evict: the model of a loader is evicted, unless an operator uses it.
ModelGoes(n) ==
    /\ \E i \in Stored : made[i] = n
    /\ ~(epc = "run" /\ n \in Refs[Node])
    /\ LET gone == {i \in Stored : made[i] = n} IN Discard(gone) /\ Lose(gone, {})
    /\ UNCHANGED <<bookVars, cache, runVars, rpc, gpc>>

\* POST /gc clears the cache and then the store.
GcCache == /\ gpc = "idle" /\ gpc' = "store"
           /\ cache' = [n \in Nodes |-> NoId]
           /\ UNCHANGED <<bookVars, storeVars, runVars, rpc, histVars>>

GcStore == /\ gpc = "store" /\ gpc' = "idle"
           /\ Discard(Stored) /\ Lose(Stored, {})
           /\ UNCHANGED <<bookVars, cache, runVars, rpc>>

\* _auto_reclaim, each minute: nothing alive, no lease; then the sweep; then
\* the cache.  With an empty store it changes nothing.
ReclaimCheck ==
    /\ rpc = "sleep" /\ Stored # {}
    /\ Busy = {} /\ open \ Stale(Busy) = {}
    /\ rpc' = "sweep"
    /\ Drop(open) /\ Lose({}, open)
    /\ UNCHANGED <<storeVars, cache, runVars, gpc>>

\* Fault: a sweep that finds nothing ends the thread.
ReclaimSweepEnds ==
    /\ rpc = "sweep"
    /\ rpc' = IF Expiring \cup Orphans = {} THEN "ended" ELSE "clear"
    /\ Discard(Expiring \cup Orphans) /\ StoreSweep
    /\ UNCHANGED <<cache, runVars, gpc>>

ReclaimSweep ==
    /\ rpc = "sweep"
    /\ rpc' = IF Expiring \cup Orphans = {} THEN "sleep" ELSE "clear"
    /\ Discard(Expiring \cup Orphans) /\ StoreSweep
    /\ UNCHANGED <<cache, runVars, gpc>>

ReclaimClear ==
    /\ rpc = "clear" /\ rpc' = "sleep"
    /\ cache' = [n \in Nodes |-> NoId]
    /\ UNCHANGED <<bookVars, storeVars, runVars, gpc, histVars>>

Reclaim == ReclaimCheck \/ ReclaimSweep \/ ReclaimClear

ReleaseLease(l) ==
    /\ Release(l) /\ Lose({}, {l})
    /\ UNCHANGED <<storeVars, cache, runVars, rpc, gpc>>

Sweeper ==
    /\ Stale(Busy) # {}
    /\ Sweep(Busy) /\ Lose({}, Stale(Busy))
    /\ UNCHANGED <<storeVars, cache, runVars, rpc, gpc>>

\* The age at which an object stops growing older.
OldObject == (IF ObjectTTL > OrphanTTL THEN ObjectTTL ELSE OrphanTTL) + 1

Tick ==
    /\ (\E l \in open : age[l] < OldAge) \/ (\E i \in Stored : old[i] < OldObject)
    /\ Elapse
    /\ old' = [i \in Ids |-> IF i \in Stored /\ old[i] < OldObject THEN old[i] + 1 ELSE old[i]]
    /\ UNCHANGED <<owner, made, cache, runVars, rpc, gpc, histVars>>

Next == \/ \E l \in Leases : Submit(l) \/ Poll(l) \/ Begin(l) \/ ReleaseLease(l)
        \/ Engine
        \/ OtherPut \/ (\E n \in Loaders : ModelGoes(n))
        \/ GcCache \/ GcStore \/ Reclaim
        \/ Sweeper \/ Tick

Spec == Init /\ [][Next]_vars

(***************************************************************************)
(* Fairness: the threads of the server are scheduled, auto-reclaim looks   *)
(* every minute, a request to /gc that has begun ends, and time passes.    *)
(***************************************************************************)
Fairness ==
    /\ WF_vars(\E l \in Leases : Begin(l)) /\ WF_vars(Engine)
    /\ WF_vars(Reclaim) /\ WF_vars(GcStore) /\ WF_vars(Tick)

FairSpec == Spec /\ Fairness

-----------------------------------------------------------------------------
(* Properties. *)

\* Every variable holds a value of its kind; an object is complete.
TypeOK ==
    /\ BookTypeOK
    /\ owner \in [Ids -> Leases \cup {NoLease}] /\ made \in [Ids -> Nodes \cup {NoNode}]
    /\ old \in [Ids -> 0 .. OldObject]
    /\ \A i \in Ids : i \in Stored <=> made[i] # NoNode
    /\ cache \in [Nodes -> Ids \cup {NoId}]
    /\ sent \in [Leases -> 0 .. Most]
    /\ pend \subseteq Leases /\ who \in Leases \cup {NoLease}
    /\ epc \in {"idle", "look", "fetch", "run", "put", "keep"}
    /\ meta \in Seq(Ids) /\ Len(meta) < Len(Order) /\ hit \in Ids \cup {NoId}
    /\ rpc \in {"sleep", "sweep", "clear"} /\ gpc \in {"idle", "store"}
    /\ handed \in [Leases -> SUBSET Ids] /\ borrowed \in [Leases -> SUBSET Ids]

\* topo_sort is right for every request over the names.
SortsAll == \A request \in RequestsOver(Names) : TopoSortIsRight(request, NoNode)

\* What the engine runs has been ordered by topo_sort, which is right for every
\* graph: it orders those that have an order, and refuses the others.
RequestsAreSorted == epc # "idle" => SortsAll

\* What an execution has made and was told of stays in the store as long as
\* its lease is registered, whoever sweeps: only the plain TTL, /gc and the
\* eviction of a model take it away.
OwnObjectsStay == \A l \in Leases : handed[l] \ borrowed[l] \subseteq Stored

\* When the executions have ended, their objects do not stay: auto-reclaim
\* returns the memory although nobody puts or unloads any more.
ReclaimReturnsAll == <>[](open = {} /\ Busy = {}) => <>[](Stored = {})
=============================================================================
