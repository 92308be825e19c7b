SPECIFICATION FairSpec
CONSTANTS
    Keys <- MCKeys
    Start = 1
    End = 4
    Absent = Absent
    Rows <- MCRows
    Contents <- MCContents
    Modes = {TRUE, FALSE}
    RowBatchSize = 2
    ProgressEvery = 2
    MaxBatchSize = 2
    MaxRetries = 2
    MaxWrites = 1
    MaxFaults = 1
INVARIANTS TypeOK HandledOnce NoFalseVerdict FinishedIsExact QuietIsNotClean FindingsAreRetried RowsCheckedExact
PROPERTIES ShardReturns
CHECK_DEADLOCK FALSE
