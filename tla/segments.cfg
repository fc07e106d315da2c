SPECIFICATION Spec
CONSTANTS
    b1 = b1
    b2 = b2
    Clock = Clock
    NoValue = NoValue
    Start <- MCStart
    Period <- MCLongPeriod
    Last <- MCLast
    List <- MCLateList
    Direction <- MCDirection
    Source <- MCSource
    Threshold <- MCThreshold
    Tol <- MCTol
    Owner <- MCOwner
    InitialLevel <- MCInitial
    Block = {b1}
    Event = {1, 2, 3}
    Level <- MCTwoLevels
    Dt = 3
    DtMin = 2
    DtMax = 4
    Implicit = FALSE
    DenseEvents = FALSE
    FloorFails = TRUE
    Scales <- MCScales
    Durations = {3, 5}
    Modes = {TRUE, FALSE}
    Chunked = {TRUE, FALSE}
    Resets = {TRUE, FALSE}
    Effects = {"set", "block", "stop"}
    MaxRuns = 2
    Kind <- MCKindMixed
INVARIANTS
    TicksOnTime
    EndsInTime
    
    NoTickMissed
    StopObserved
CHECK_DEADLOCK FALSE
