CONSTANTS
    Leases = {l1, l2}
    Keys = {}
    TTL = 2
    IdleRelease = 1
    EntryTTL = 2
    Asks = {a1}
SPECIFICATION FairSpec
INVARIANTS TypeOK GateIsExclusive
PROPERTIES PlaceIsKept EveryWaiterEnters
CHECK_DEADLOCK FALSE
