SPECIFICATION PlannerSpec
CONSTANTS
    Whole = 10
    Scale = 1000
    Tolerance = 1
    loopSolverMaxIterations = 40
    MaxFinite = 50000
    Inf = Inf
    NaN = NaN
    Inputs <- MCInputs
    TotalBox = TotalBox
    None = None
    Precision = 8
    TypedCounts = {0, 1, 7}
    maxMachineCount = 20
INVARIANTS
    PlannerTypeOK
    AnchorWithinOne
    RecyclersMatchLoop
    BoxesCoverTotal
PROPERTIES
    ResubmitCostsAtMostOne
