\* A ride for now or a pool.
CONSTANTS
    Trips = {t1}
    TripKinds = {"ride", "pool"}
    Idle = Idle
    MaxGen = 1
    MaxFaults <- FaultBudget
SPECIFICATION FairSpec
CONSTRAINT Explored
INVARIANTS OnItsWay
PROPERTIES Answered
CHECK_DEADLOCK FALSE
