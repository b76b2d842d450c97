\* Three requests over two keys, two intents and two pools.
CONSTANTS
    Requests = {a1, a2, a3}
    Keys = {k1, k2}
    Prints = {f1, f2}
    Pools = {p1, p2}
    NoKey = NoKey
    NoPool = NoPool
    NoPrint = NoPrint
SPECIFICATION Spec
SYMMETRY Symmetry
INVARIANTS OneSeatPerKey BusyWithAnother
PROPERTIES CompletedForGood
CHECK_DEADLOCK FALSE
