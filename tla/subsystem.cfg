CONSTANTS
    plant = plant
    outer = outer
    inner = inner
    rotor = rotor
    Leaf = {plant, rotor}
    Wrapper = {outer, inner}
    Around <- MCAround
    Widths = {1, 2}
    Switched = {plant, outer}
    Poisoned = {}
    MinOrder = 2
    MaxOrder = 3
    HistoryLen = 4
    MaxTime = 5
    MaxRejects = 1
    MaxEdits = 2

SPECIFICATION Spec
INVARIANTS
    StatesAreCommitted
    RejectionsCostNoHistory
    ProbesAreCoherent
CHECK_DEADLOCK FALSE
