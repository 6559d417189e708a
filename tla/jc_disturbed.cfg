SPECIFICATION Spec
CONSTANTS
  Tasks = {"t1"}
  MaxReplicas = 1
  TaskMinAvailable <- Zero
  MinSuccess <- Unset
  MaxRetry = 1
  TaskMaxRetry <- NoLimit
  DependsOn <- NoDependency
  IterationAny = {}
  TaskPolicy <- NoTaskPolicy
  JobPolicy <- EvictPolicy
  Commands = {"Abort","Resume"}
  MaxRequeueNum = 1
  Lag = 1
  Scenarios <- AnyOne
INVARIANTS RetryBounded
PROPERTIES ImplementsJobPhase PodsOfLiveJob
CHECK_DEADLOCK FALSE
