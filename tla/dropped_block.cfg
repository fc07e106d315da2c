SPECIFICATION Spec
CONSTANTS
    N = 4
    MaxArcs = 4
    MaxIterations = 4
    Nets <- MCNets
INVARIANTS
    EveryBlockEvaluated
CHECK_DEADLOCK FALSE
