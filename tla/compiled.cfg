SPECIFICATION FairSpec
CONSTANTS
    s1 = s1
    m1 = m1
    Clock = Clock
    NoValue = NoValue
    Event = {1, 2, 3}
    Kind <- MCKind
    Start <- MCStart
    Period <- MCPeriod
    Last <- MCLast
    List <- MCList
    Direction <- MCDirection
    Source <- MCSource
    Threshold <- MCThreshold
    Tol <- MCTol
    State = {s1}
    Memory = {m1}
    Level <- MCLevel
    InitialLevel <- MCInitial
    Dt = 3
    DtMin = 1
    DtMax = 5
    Scales <- MCScales
    Durations = {4}
    Modes = {TRUE, FALSE}
    Resets = {TRUE}
    Stride = 2
    MaxSamples = 2
    Limit = 7
    MaxRuns = 2
INVARIANTS
    SolverHasCommittedState
    LandsOnEnd
PROPERTIES
    RunEnds
    ImplementsHybridRun
CHECK_DEADLOCK FALSE
