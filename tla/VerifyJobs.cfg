SPECIFICATION FairSpec
CONSTANTS
    Configured <- MCConfigured
    Outcomes <- AnyRunner
    MaxJobs = 2
INVARIANTS TypeOK ActiveIsStoppable SucceededIsClean StoppedOnlyIfCancelled
PROPERTIES ResultsAreKept ImplementsLifecycle StopEndsJob
CHECK_DEADLOCK FALSE
