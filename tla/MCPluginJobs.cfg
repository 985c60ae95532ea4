CONSTANTS
    Jobs = {j1}
    MaxInFlight = 2
    j1 = j1
    None = None
    MaxJobs = 1
    Retries = {0, 1}
    RetryDelay = 1
    MaxRetryDelay = 2
    Interval = 2
    CronTimes = {1, 3}
    AckTimeout = 1
    Plans <- MCPlans
    MaxFailures = 1
SPECIFICATION FairSpec
INVARIANTS
    JobsSound
PROPERTIES
    DispatchHeld
    DueIsPublished
