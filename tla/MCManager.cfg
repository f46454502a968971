SPECIFICATION Spec
CONSTANTS
    d1 = d1
    d2 = d2
    t1 = t1
    t2 = t2
    t3 = t3
    t4 = t4
    t5 = t5
    Dispatchers <- MCDispatchers
    Timers <- MCTimers
    DispatcherOf <- MCDispatcherOf
    MaxValues = 3
INVARIANT GroupIsTheLiveTimers
PROPERTY NeverForAReplacedValue
SYMMETRY Symmetry
CHECK_DEADLOCK FALSE
