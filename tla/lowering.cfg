SPECIFICATION FairSpec
CONSTANTS
    top = top
    outer = outer
    inner = inner
    clock = clock
    wide = wide
    tally = tally
    bias = bias
    gain = gain
    latch = latch
    Top = top
    Subsystems = {outer, inner}
    Leaves = {clock, wide, tally, bias, gain, latch}
    Members <- MCMembers
    Kind <- MCKind
    Ins <- MCIns
    Outs <- MCOuts
    Period <- MCPeriod
    Phase <- MCPhase
    Diagrams <- MCDiagrams
    MaxTime = 4
INVARIANTS
    NoLoopSlipsThrough
    GeneratedFollowsRuntime
    CompiledFollowsRuntime
CHECK_DEADLOCK FALSE
