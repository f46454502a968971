SPECIFICATION Spec
CONSTANTS
    Goroutines = {w, g}
    Worker = w
    Entries = {e1, e2}
    Delays <- MCExtremeDelays
    MinDuration <- MCMinDuration
    MaxDuration = 7
    MaxTime = 2
    MaxDispatches = 2
    None = None
INVARIANT RemainingIsExact
SYMMETRY Symmetry
CHECK_DEADLOCK FALSE
