SPECIFICATION Spec
CONSTANTS
    Trips = {t1, t2}
    None = None
    Stops = 2
    MaxTaps = 4
    MaxWire = 3
    MaxFaults = 1
    MaxWork = 4
SYMMETRY Symmetry
PROPERTY ReleasedWhenReleased
CHECK_DEADLOCK FALSE
