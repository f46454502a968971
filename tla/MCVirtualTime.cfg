SPECIFICATION FairSpec
CONSTANTS
    Goroutines = {g1, g2}
    Tasks = {t1, t2, t3}
    NoTask = NoTask
    Durations <- MCDurations
    Targets = {0, 1, 2}
INVARIANTS
    OneFastForward
    FunctionSeesItsTime
    EveryTaskIsAccountedFor
PROPERTIES
    ClockNeverGoesBack
    SuccessMeansAllDueHaveRun
    StoppedForGood
    IsADispatcher
    IsATimedDispatcher
    FastForwardEnds
    DueFunctionsRun
