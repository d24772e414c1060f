SPECIFICATION FairSpec
CONSTANTS
    c1 = c1
    c2 = c2
    t1 = t1
    t2 = t2
    Checkins <- OneCheckin
    Legs <- OneLeg
    Threads <- TwoThreads
    NoRow = NoRow
    NoLeg = NoLeg
    Nobody = Nobody
    NoJob = NoJob
    MaxDeliveries = 2
    MaxRestarts = 1
    MaxWorkerDeaths = 1
CHECK_DEADLOCK FALSE
PROPERTIES
    WaitingEnds
