SPECIFICATION Spec
CONSTANTS
    N = 4
    MaxArcs = 4
    MaxIterations = 4
    Nets <- MCNets
INVARIANTS
    ComponentsInOrder
    LoopsAreTorn
    UpdateSettles
CHECK_DEADLOCK FALSE
