SPECIFICATION FairSpec
CONSTANTS
    MinInt <- MCMinInt
    MaxInt = 3
    Unbounded = Unbounded
    NaN = NaN
    Scenarios <- MCScenarios
    NumCPU = 3
    MaxFaults = 1
INVARIANTS TypeOK NothingOutsideFilter TablesAccounted ShardsPartition CleanMeansCompared NobodyLeftBehind
PROPERTIES DifferencesFail RunReturns EveryShardStarts
CHECK_DEADLOCK FALSE
