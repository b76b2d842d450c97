\* Two relays, one good row and one that cannot be published.
CONSTANTS
    Rows = {i1, b1}
    Bad = {b1}
    Relays = {p1, p2}
    NoRow = NoRow
    Batch = 2
    MaxAttempts = 2
    MaxFaults = 3
    MaxRearms = 1
SPECIFICATION FairSpec
PROPERTIES Fenced LeaseNotStolen ImplementsIntent Settles
CHECK_DEADLOCK FALSE
