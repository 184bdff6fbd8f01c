-------------------------------- MODULE Watch --------------------------------
(***************************************************************************)
(* The event bus (app/events.py) and the connections of /ws (app/main.py), *)
(* over the threads of the job system.  publish puts an event into the     *)
(* bounded queue of each subscriber and drops it if that is full; the pump *)
(* thread of a connection hands it to the event loop, which sends what     *)
(* concerns the job of the connection.  A connection is closed when a send *)
(* to a peer that has gone fails.                                          *)
(***************************************************************************)
EXTENDS JobQueue

CONSTANTS
    Watchers,  \* the connections to /ws
    Of,        \* the job of a connection; NoJob: all jobs (no job_id)
    Backlog,   \* events._MAXSIZE
    Unsent     \* bound: the frames that wait in the event loop

ASSUME WatchAssumption == /\ Of \in [Watchers -> Jobs \cup {NoJob}]
                          /\ Backlog \in Nat \ {0} /\ Unsent \in Nat \ {0}

VARIABLES
    subs,      \* events._subs
    inbox,     \* per subscriber: its queue.Queue
    aq,        \* per connection: the queue of the event loop
    ws,        \* per connection: how far ws_jobs has come
    peer,      \* per connection: its client is there, or gone
    heard,     \* history: the final news of its job that the client has got
    dropped    \* history: the connections that have lost an event

watchVars == <<subs, inbox, aq, ws, peer, heard, dropped>>
allVars == <<vars, watchVars>>

Ping == [job |-> NoJob, type |-> "ping"]

WatchInit == /\ Init
             /\ subs = {}
             /\ inbox = [w \in Watchers |-> <<>>] /\ aq = [w \in Watchers |-> <<>>]
             /\ ws = [w \in Watchers |-> "off"] /\ peer = [w \in Watchers |-> "there"]
             /\ heard = [w \in Watchers |-> {}] /\ dropped = {}

(***************************************************************************)
(* publish, on the thread of the worker or of a request.                   *)
(***************************************************************************)

Full(w) == Len(inbox[w]) >= Backlog

Broadcast(j, type) ==
    /\ inbox' = [w \in Watchers |-> IF w \in subs /\ ~Full(w)
                                    THEN Append(inbox[w], [job |-> j, type |-> type])
                                    ELSE inbox[w]]
    /\ dropped' = dropped \cup {w \in subs : Full(w) /\ peer[w] = "there"}
    /\ UNCHANGED <<subs, aq, ws, peer, heard>>

\* The steps of the job system that publish something, and the others.
Telling ==
    \/ \E j \in Jobs : SubmitPublish(j) /\ Broadcast(j, "submitted")
    \/ \E c \in Clients : InterruptFinish(c) /\ Broadcast(aim[c], "cancelled")
    \/ WorkerAnnounce /\ Broadcast(cur, "running")
    \/ WorkerTell /\ Broadcast(cur, outcome)

Silent ==
    /\ \/ \E j \in Jobs : SubmitInsert(j) \/ SubmitPut(j)
       \/ \E c \in Clients : \/ InterruptTargets(c) \/ InterruptSignal(c)
                             \/ InterruptMark(c) \/ InterruptError(c)
       \/ WorkerGet \/ WorkerSkip \/ WorkerAccept \/ WorkerStart \/ RunEnds
       \/ WorkerStatus \/ WorkerError \/ WorkerFinally \/ WorkerEvict
    /\ UNCHANGED watchVars

\* set_progress and set_stage of the running job.
Report == wpc = "run" /\ Broadcast(cur, "progress") /\ UNCHANGED vars

\* Events of jobs beside those of the instance.
OtherReport == Broadcast(NoJob, "progress") /\ UNCHANGED vars

(***************************************************************************)
(* ws_jobs.                                                                *)
(***************************************************************************)

\* subscribe, and the pump starts.
Connect(w) ==
    /\ ws[w] = "off"
    /\ ws' = [ws EXCEPT ![w] = "subscribed"]
    /\ subs' = subs \cup {w}
    /\ UNCHANGED <<vars, inbox, aq, peer, heard, dropped>>

\* The snapshot: the view of the job, or that it is not found.
Snapshot(w) ==
    /\ ws[w] = "subscribed" /\ peer[w] = "there"
    /\ ws' = [ws EXCEPT ![w] = "open"]
    /\ heard' = [heard EXCEPT ![w] =
                    CASE Of[w] = NoJob -> @
                      [] Of[w] \in table -> {status[Of[w]]} \cap Terminal
                      [] OTHER -> {"not found"}]
    /\ UNCHANGED <<vars, subs, inbox, aq, peer, dropped>>

Pumping(w) == ws[w] \in {"subscribed", "open"} /\ Len(aq[w]) < Unsent

PumpGet(w) ==
    /\ Pumping(w) /\ inbox[w] # <<>>
    /\ aq' = [aq EXCEPT ![w] = Append(@, Head(inbox[w]))]
    /\ inbox' = [inbox EXCEPT ![w] = Tail(@)]
    /\ UNCHANGED <<vars, subs, ws, peer, heard, dropped>>

\* Fault: a reader that was given up at the timeout takes the next event
\* (execution 824).
PumpPingSteals(w) ==
    /\ Pumping(w)
    /\ aq' = [aq EXCEPT ![w] = Append(@, Ping)]
    /\ inbox' = [inbox EXCEPT ![w] = IF @ = <<>> THEN @ ELSE Tail(@)]
    /\ UNCHANGED <<vars, subs, ws, peer, heard, dropped>>

\* 30 s without any event.
PumpPing(w) ==
    /\ Pumping(w) /\ inbox[w] = <<>>
    /\ aq' = [aq EXCEPT ![w] = Append(@, Ping)]
    /\ UNCHANGED <<vars, subs, inbox, ws, peer, heard, dropped>>

Concerns(w, ev) == ev = Ping \/ Of[w] \in {NoJob, ev.job}

\* The next frame: left out if it concerns another job, and sent else.  A send
\* to a peer that has gone may be swallowed.
Send(w) ==
    /\ ws[w] = "open" /\ aq[w] # <<>>
    /\ aq' = [aq EXCEPT ![w] = Tail(@)]
    /\ LET ev == Head(aq[w])
       IN  heard' = IF Concerns(w, ev) /\ peer[w] = "there"
                    THEN [heard EXCEPT ![w] = @ \cup ({ev.type} \cap Terminal)]
                    ELSE heard
    /\ UNCHANGED <<vars, subs, inbox, ws, peer, dropped>>

\* Fault: the queue of a closed connection stays subscribed.
SendFailsSubscribed(w) ==
    /\ peer[w] = "gone"
    /\ ws[w] = "subscribed" \/ (ws[w] = "open" /\ aq[w] # <<>> /\ Concerns(w, Head(aq[w])))
    /\ ws' = [ws EXCEPT ![w] = "closed"]
    /\ aq' = [aq EXCEPT ![w] = <<>>] /\ inbox' = [inbox EXCEPT ![w] = <<>>]
    /\ UNCHANGED <<vars, subs, peer, heard, dropped>>

\* A send, the one of the snapshot too, raises: finally, unsubscribe.
SendFails(w) ==
    /\ peer[w] = "gone"
    /\ ws[w] = "subscribed" \/ (ws[w] = "open" /\ aq[w] # <<>> /\ Concerns(w, Head(aq[w])))
    /\ ws' = [ws EXCEPT ![w] = "closed"] /\ subs' = subs \ {w}
    /\ aq' = [aq EXCEPT ![w] = <<>>] /\ inbox' = [inbox EXCEPT ![w] = <<>>]
    /\ UNCHANGED <<vars, peer, heard, dropped>>

PeerLeaves(w) ==
    /\ ws[w] \in {"subscribed", "open"} /\ peer[w] = "there"
    /\ peer' = [peer EXCEPT ![w] = "gone"]
    /\ heard' = [heard EXCEPT ![w] = {}] /\ dropped' = dropped \ {w}
    /\ UNCHANGED <<vars, subs, inbox, aq, ws>>

WatchNext ==
    \/ Telling \/ Silent \/ Report \/ OtherReport
    \/ \E w \in Watchers : \/ Connect(w) \/ Snapshot(w) \/ PumpGet(w) \/ PumpPing(w)
                           \/ Send(w) \/ SendFails(w) \/ PeerLeaves(w)

WatchSpec == WatchInit /\ [][WatchNext]_allVars

\* The threads of a connection run, and a peer that has gone is noticed when it
\* is sent to again and again.
WatchFairness ==
    \A w \in Watchers : /\ WF_allVars(PumpGet(w)) /\ WF_allVars(PumpPing(w))
                        /\ WF_allVars(Send(w)) /\ SF_allVars(SendFails(w))

FairWatch == WatchSpec /\ WatchFairness

-----------------------------------------------------------------------------
(* Properties. *)

\* Nobody is about to publish anything about j.
Quiet(j) == /\ status[j] \in Terminal /\ subPc[j] = "sent" /\ cur # j
            /\ \A c \in Clients : aim[c] # j

Drained(w) == ws[w] = "open" /\ inbox[w] = <<>> /\ aq[w] = <<>>

\* A client that is connected, whenever it came, has been told the final
\* status of its job once the queues are empty, or that the job is gone, unless
\* the bus has dropped an event: the snapshot and the events leave no gap
\* between them, and no other reader of the queue takes an event away.
NothingMissed ==
    \A w \in Watchers :
        /\ Drained(w) /\ peer[w] = "there" /\ w \notin dropped
        /\ Of[w] \in Jobs /\ Quiet(Of[w])
        => heard[w] \cap {status[Of[w]], "not found"} # {}

\* The queue of a connection whose client has gone does not stay with the bus
\* (events.py:10), once the other jobs have nothing to report for the time of a
\* ping: their events keep the ping away and are not sent either.
WatchEnds ==
    <>[][~OtherReport]_allVars
        => \A w \in Watchers : peer[w] = "gone" ~> w \notin subs
=============================================================================
