SPECIFICATION FairSpec
CONSTANTS
    Schedulers <- MCSchedulers
    DefaultScheduler = "volcano"
    ResGroups <- MCResGroups
    Behind = 3
    Lag = 1
    MaxClock = 3
    Scenarios <- MCScenarios
    NewQueues <- MCNewQueues
    NewJobs <- MCNewJobs
    NewPods <- MCNewPods
    Edits <- MCEdits
INVARIANTS
    TypeOK
    AdmittedJobsRun
    JobsCached
PROPERTIES
    CollectsExpired
    Collected
    QueueStatusSettles
    PodsGrouped
CHECK_DEADLOCK FALSE
