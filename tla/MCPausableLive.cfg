SPECIFICATION FairSpec
CONSTANTS
    Goroutines = {w, g}
    Worker = w
    Entries = {e1, e2}
    Delays <- MCShortDelays
    MinDuration <- MCMinDuration
    MaxDuration = 7
    MaxTime = 1
    MaxDispatches = 2
    None = None
PROPERTIES
    MethodsReturn
    TakenIsCalled
CHECK_DEADLOCK FALSE
