\* A scheduled ride over two generations.
CONSTANTS
    Trips = {t1}
    TripKinds = {"scheduled"}
    Idle = Idle
    MaxGen = 2
    MaxFaults <- FaultBudget
SPECIFICATION FairSpec
CONSTRAINT Explored
INVARIANTS NoPhantomWork
PROPERTIES Retried
CHECK_DEADLOCK FALSE
