\* Up to two trips of one driver, three requests of its app and two faults, three of
\* these together; one API process that reconciles, at most two sweeps at a time.
CONSTANTS
    MaxTrips = 2
    MaxRequests = 3
    MaxSweeps = 2
    MaxWork = 3
    MaxFaults = 2
    Procs = {p1}
SPECIFICATION FairSpec
PROPERTIES NeverClearsLive Converges SilentSwept 
CHECK_DEADLOCK FALSE
