SPECIFICATION Spec
CONSTANTS
    c1 = c1
    c2 = c2
    t1 = t1
    t2 = t2
    Checkins <- OneCheckin
    Legs <- TwoLegs
    Threads <- TwoThreads
    NoRow = NoRow
    NoLeg = NoLeg
    Nobody = Nobody
    NoJob = NoJob
    MaxDeliveries = 2
    MaxRestarts = 0
    MaxWorkerDeaths = 0
CHECK_DEADLOCK FALSE
SYMMETRY ThreadSymmetry
INVARIANTS
    ScheduledIsBacked
    AckedMeansReported
    NoPushTwicePerDelivery
PROPERTIES
    StatusSettles
    ImplementsLifecycle
