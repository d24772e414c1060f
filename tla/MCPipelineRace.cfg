SPECIFICATION FairSpec
CONSTANTS
    c1 = c1
    c2 = c2
    t1 = t1
    t2 = t2
    Checkins <- TwoCheckins
    Legs <- OneLeg
    Threads <- OneThread
    NoRow = NoRow
    NoLeg = NoLeg
    Nobody = Nobody
    NoJob = NoJob
    MaxDeliveries = 1
    MaxRestarts = 1
    MaxWorkerDeaths = 1
CHECK_DEADLOCK FALSE
INVARIANTS
    TypeOK
    OneOrphanPerIncarnation
    JobsHaveRows
PROPERTIES
    RequestsAnswered
