SPECIFICATION Spec
CONSTANTS
    a = a
    b = b
    c = c
    e1 = e1
    e2 = e2
    Nodes <- MCNodes
    NoNode = NoNode
    InitialNode = a
    Events <- MCEvents
    Edges <- MCEdges
    Timers = {t1, t2}
    NoTimer = NoTimer
    MaxVisits = 4
INVARIANTS
    TimersOfCurrentVisit
    NoTimerLeak
    OneOperation
    CallbackMatchesStack
    CallbackSeesItsState
PROPERTIES
    TraceIsTheWalk
    ExitActionPrecedesTheEnd
    StopGetsThrough
    IsAStateWalk
CHECK_DEADLOCK FALSE
