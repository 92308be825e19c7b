SPECIFICATION Spec
CONSTANTS
    MinInt <- MCMinInt
    MaxInt = 3
    Unbounded = Unbounded
    NaN = NaN
    Scenarios <- MCScenarios
    NumCPU = 3
    MaxFaults = 1
INVARIANTS SucceededMeansCompared
CHECK_DEADLOCK FALSE
