CONSTANTS
    load = load
    sample = sample
    Names = {load, sample, decode}
    Leases = {l1, l2}
    Keys = {}
    TTL = 1
    IdleRelease = 1
    NoLease = NoLease
    NoId = NoId
    NoNode = NoNode
    Graph <- Pair
    Refs <- Uses
    Loaders = {load}
    Ids = {i1, i2, i3, i4}
    Most = 1
    ObjectTTL = 2
    OrphanTTL = 0
SPECIFICATION FairSpec
INVARIANTS TypeOK OwnObjectsStay RequestsAreSorted
PROPERTIES ReclaimReturnsAll
