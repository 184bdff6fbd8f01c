CONSTANTS
    a = a
    b = b
    l1 = l1
    Leases = {l1, l2}
    Keys = {a, b}
    NoLease = NoLease
    NoKey = NoKey
    TTL = 1
    IdleRelease = 1
    Size <- Sizes
    Need <- Sizes
    Capacity = 1
    MaxResident = 0
    LoadWait = 1
    Sync = {l2}
    Models <- One
    Unloaders = {l1}
SPECIFICATION FairSpec
INVARIANTS TypeOK ModelIsKept
PROPERTIES UnloadIsServed WaitEnds
