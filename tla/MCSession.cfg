\* The app, or two tabs of a browser; up to three tokens and two requests at a
\* time.
CONSTANTS
    MaxTabs = 2
    MaxTokens = 3
    MaxRequests = 2
    MaxFaults = 1
SPECIFICATION Spec
INVARIANTS OneLive ReplayEnds HoldsLive OutStaysOut
CHECK_DEADLOCK FALSE
