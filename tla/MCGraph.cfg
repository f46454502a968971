SPECIFICATION FairSpec
CONSTANTS
    a = a
    b = b
    c = c
    b2 = b2
    u = u
    nA = nA
    nB = nB
    nC = nC
    e1 = e1
    e2 = e2
    States <- MCStates
    NoState = NoState
    Comparable <- MCComparable
    Nodes <- MCNodes
    NoNode = NoNode
    Identity <- MCIdentity
    Events <- MCEvents
    Inits <- MCInits
    Labels <- MCLabels
    Star <- MCStar
    StateLabel <- MCStateLabel
    EventLabel <- MCEventLabel
    Place <- MCPlace
    Inputs <- MCInputs
INVARIANTS
    AcceptsTheWellFormed
    NoEventIsAmbiguous
    FindNextFollowsTheEdges
    DumpShowsEveryEdge
PROPERTY Ends
CHECK_DEADLOCK FALSE
