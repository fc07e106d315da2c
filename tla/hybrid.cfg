SPECIFICATION FairSpec
CONSTANTS
    b1 = b1
    b2 = b2
    Clock = Clock
    NoValue = NoValue
    Start <- MCStart
    Period <- MCPeriod
    Last <- MCLast
    List <- MCList
    Direction <- MCDirection
    Source <- MCSource
    Threshold <- MCThreshold
    Tol <- MCTightTol
    Owner <- MCOwner
    InitialLevel <- MCInitial
    Block = {b1}
    Event = {1, 2, 3}
    Level <- MCLevel
    Dt = 3
    DtMin = 2
    DtMax = 4
    Implicit = TRUE
    DenseEvents = TRUE
    FloorFails = FALSE
    Scales <- MCScales
    Durations = {3}
    Modes = {TRUE, FALSE}
    Chunked = {FALSE}
    Resets = {TRUE, FALSE}
    Effects = {"set", "switch"}
    MaxRuns = 2
    Kind <- MCKind
INVARIANTS
    RejectionLeavesNoTrace
    GuardsReadCommittedState
PROPERTIES
    RetryShrinks
    
    ImplementsHybridRun
CHECK_DEADLOCK FALSE
