SPECIFICATION FairSpec
CONSTANTS
  Tasks = {"t1"}
  MaxReplicas = 2
  TaskMinAvailable <- Zero
  MinSuccess <- Unset
  MaxRetry = 1
  TaskMaxRetry <- NoLimit
  DependsOn <- NoDependency
  IterationAny = {}
  TaskPolicy <- NoTaskPolicy
  JobPolicy <- FailPolicy
  Commands = {}
  MaxRequeueNum <- NoLimit
  Lag = 1
  Scenarios <- Gang
PROPERTIES FailureNoticed
CHECK_DEADLOCK FALSE
