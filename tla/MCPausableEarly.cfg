SPECIFICATION VirtualSpec
CONSTANTS
    Goroutines = {w, g}
    Worker = w
    Entries = {e1, e2}
    Delays <- MCDelays
    MinDuration <- MCMinDuration
    MaxDuration = 7
    MaxTime = 4
    MaxDispatches = 2
    None = None
PROPERTY NotBeforeItsDelay
SYMMETRY Symmetry
CHECK_DEADLOCK FALSE
