\* Two pools of three seats and four passengers; one pool and two writers of its
\* projection.
CONSTANTS
    Pools = {p1, p2}
    Passengers = {a, b, c, d}
    MaxSeats = 3
    Projectors = {w1, w2}
    NoPool = NoPool
SPECIFICATION Spec
SYMMETRY Symmetry
CONSTRAINT ProjectedAlone
INVARIANTS TypeOK ActiveExact FaresByRank ItineraryComplete ProjectionTrue
PROPERTIES Versioned NeverBack
CHECK_DEADLOCK FALSE
