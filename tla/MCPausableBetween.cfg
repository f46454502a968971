SPECIFICATION BetweenSpec
CONSTANTS
    Goroutines = {w, g}
    Worker = w
    Entries = {e1, e2}
    Delays <- MCDelays
    MinDuration <- MCMinDuration
    MaxDuration = 7
    MaxTime = 3
    MaxDispatches = 3
    None = None
PROPERTY KeepsUnpausedTime
SYMMETRY Symmetry
CHECK_DEADLOCK FALSE
