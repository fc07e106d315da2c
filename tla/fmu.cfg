CONSTANTS
    Structural = {"size"}
    Overridden = {"size", "gain"}
    Indicators = 1
    Gaps = {1, 3}
    Repeats = {FALSE}
    MaxJumps = 2
    Never = 20
    Period = 2
    Clocks = {"always", "never"}
    Widths = {1, 2, 3}
    MaxTime = 4

SPECIFICATION Spec
INVARIANTS
    CallsAreLegal
    InstantsAgree
    
    
    OutputsStandForNow
CHECK_DEADLOCK FALSE
