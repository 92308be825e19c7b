SPECIFICATION FairSpec
CONSTANTS
    Configured <- MCOneDatabase
    Outcomes <- VerifyRunnerOutcomes
    MaxJobs = 1
PROPERTY StoppingBecomesStopped
CHECK_DEADLOCK FALSE
