SPECIFICATION FairSpec
CONSTANTS
    Names <- MCNames
    Req <- MCReq
    Jobs <- MCJobs
    JobOf <- MCJobOf
    Role <- MCRole
    MinTask <- MCMinTask
    MinAvailable <- MCMinAvailable
    MinRes <- MCMinRes
    JobPriority <- MCJobPriority
    TaskPriority <- MCTaskPriority
    Queues <- MCQueues
    QueueOf <- MCQueueOf
    Weight <- MCWeight
    Guarantee <- MCGuarantee
    Capability <- MCCapability
    Reclaimables <- MCReclaimables
    Preemptables <- MCPreemptables
    Critical = {"a3"}
    Cooling = {"c1"}
    Overdue = {"B"}
    Hard = 4
    Nodes <- MCNodes
    Size <- MCSize
    Feasible <- MCFeasible
    Claims = {"a3", "z"}
    RevocableNodes = {"n"}
    Revocable = {"a2", "a3"}
    PreemptableJobs = {"A"}
    Budget <- MCBudget
    Usage <- MCUsage
    LowAt = 20
    HighAt = 60
    Fragile = {"a2", "b1", "c1", "z"}
    Factor = 12
    Confs <- MCConfs
    Scenarios <- MCScenarios
INVARIANTS
    TypeOK
    SessionAccounting
    PromisesCovered
PROPERTIES
    DiscardRestores
    GangDispatch
    GangSpared
    DeservedKept
    SessionEnds
