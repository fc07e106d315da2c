SPECIFICATION MCSpec
CONSTANTS
    Programs <- MCPrograms
    Literals <- MCLiterals
    Indexers <- MCIndexers
    Shapes <- MCShapes
    Scripts <- MCScripts
    Points <- MCPoints
    Inputs = 2
    Params = 1
    MaxPasses = 8
    ReassocMinTerms = 3
INVARIANTS
    OptimizeKeepsMeaning
    JacobianIsDerivative
    LoweringKeepsMeaning
    CallsReturnTheValue
    TracedIsEager
CHECK_DEADLOCK FALSE
