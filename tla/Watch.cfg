CONSTANTS
    j1 = j1
    w1 = w1
    Jobs = {j1}
    Clients = {c1}
    Retained = 0
    NoJob = NoJob
    Watchers = {w1}
    Of <- ToTheJob
    Backlog = 2
    Unsent = 1
SPECIFICATION FairWatch
INVARIANTS NothingMissed
PROPERTIES WatchEnds
