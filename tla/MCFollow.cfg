\* One trip, solo or pooled.
CONSTANTS
    Trips = {t1}
    None = None
    SUBSCRIBE_MAX_TRIES = 2
    MaxVersion = 5
    MaxInFlight = 2
    MaxDrops = 1
    MaxFaults = 2
SPECIFICATION FairSpec
INVARIANTS CaughtUp
PROPERTIES NeverBack EndReached
CHECK_DEADLOCK FALSE
