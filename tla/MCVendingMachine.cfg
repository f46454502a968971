SPECIFICATION FairSpec
CONSTANTS
    Timeout = 2
    MaxTime = 6
    MaxVisits = 9
INVARIANT NothingPanics
PROPERTIES
    IsAVendingService
    SalesEnd
CHECK_DEADLOCK FALSE
