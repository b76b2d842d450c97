\* A scheduled ride over two generations and two workers; a ride for now and a
\* pool of one seat with one worker.  Two drivers.
SPECIFICATION Spec
CONSTANTS
    Rides = {r1}
    Scheduled = {s1}
    Pools = {p1}
    Drivers = {d1, d2}
    Workers = {w1, w2}
    NoTrip = NoTrip
    NoDriver = NoDriver
    MaxGen = 2
    MaxSeats = 1
SYMMETRY Symmetry
CONSTRAINT Followed
INVARIANTS DriverExclusive GuardMatchesTrip NoOrphanOffer LiveOfferHonoured ReplayExact OneWinner
PROPERTIES ImplementsAssignment ResolvedStays
CHECK_DEADLOCK FALSE
