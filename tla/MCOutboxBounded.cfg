\* One row whose relays keep dying.
CONSTANTS
    Rows = {i1}
    Bad = {}
    Relays = {p1, p2}
    NoRow = NoRow
    Batch = 1
    MaxAttempts = 2
    MaxFaults = 3
    MaxRearms = 0
SPECIFICATION FairSpec
INVARIANTS LeasesBounded
CHECK_DEADLOCK FALSE
