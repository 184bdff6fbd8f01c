CONSTANTS
    j1 = j1
    j2 = j2
    l1 = l1
    l2 = l2
    Jobs = {j1, j2}
    NoJob = NoJob
    Leases = {l1, l2}
    Keys = {}
    TTL = 2
    IdleRelease = 1
    LeaseOf <- TwoLeases
    Watched = {j1}
SPECIFICATION FairSpec
INVARIANTS TypeOK LiveJobIsLeased
PROPERTIES AbandonedLeaseEnds
CHECK_DEADLOCK FALSE
