CONSTANTS
    Jobs = {j1, j2}
    Clients = {c1}
    Retained = 1
    NoJob = NoJob
SPECIFICATION FairSpec
INVARIANTS
    TypeOK RunningIsHeld PendingIsInHand LiveJobIsKept EventIsBacked
    DroppedWasCancelled RanWithinRetained
PROPERTIES FinalStatusStays EveryJobSettles ServesInTurn
