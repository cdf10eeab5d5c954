SPECIFICATION Spec
CONSTANTS
    Whole = 10
    Scale = 200
    Tolerance = 1
    loopSolverMaxIterations = 240
    MaxFinite = 50000
    Inf = Inf
    NaN = NaN
    Inputs <- MCUncappedInputs
INVARIANTS
    RatiosSumToOne
