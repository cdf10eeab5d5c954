SPECIFICATION Spec
CONSTANTS
    Whole = 10
    Scale = 155
    Tolerance = 1
    loopSolverMaxIterations = 320
    MaxFinite = 50000
    Inf = Inf
    NaN = NaN
    Inputs <- MCInputs
INVARIANTS
    TypeOK
    SupplyBound
    RatiosSumToOne
    EndsBySettling
PROPERTIES
    MaterialsGrow
