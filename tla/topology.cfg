SPECIFICATION Spec
CONSTANTS
    Blocks = {b1, b2}
    Connections = {c1}
    Events = {e1}
    Dynamic = {b2}
    Unresolvable = {}
    EditsBetweenRuns = TRUE
    MaxQueue = 2
    MaxLength = 2
INVARIANTS
    StructuresAreCurrent
    EditsLand
CHECK_DEADLOCK FALSE
