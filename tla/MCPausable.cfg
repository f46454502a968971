SPECIFICATION Spec
CONSTANTS
    Goroutines = {w, g}
    Worker = w
    Entries = {e1, e2}
    Delays <- MCDelays
    MinDuration <- MCMinDuration
    MaxDuration = 7
    MaxTime = 3
    MaxDispatches = 2
    None = None
INVARIANTS
    BaseTimerMatchesPause
    NothingPendingWhilePaused
    RunsAtMostOnce
    RemainingIsExact
PROPERTIES
    NeverEarly
    IsADispatcher
SYMMETRY Symmetry
CHECK_DEADLOCK FALSE
