SPECIFICATION UnpausedSpec
CONSTANTS
    Goroutines = {w, g}
    Worker = w
    Entries = {e1, e2, e3}
    Delays <- MCConformanceDelays
    MinDuration <- MCMinDuration
    MaxDuration = 7
    MaxTime = 3
    MaxDispatches = 1
    None = None
PROPERTY IsATimedDispatcher
SYMMETRY Symmetry
CHECK_DEADLOCK FALSE
