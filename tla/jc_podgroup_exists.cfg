SPECIFICATION FairSpec
CONSTANTS
  Tasks = {"t1"}
  MaxReplicas = 1
  TaskMinAvailable <- One
  MinSuccess <- Unset
  MaxRetry = 2
  TaskMaxRetry <- NoLimit
  DependsOn <- NoDependency
  IterationAny = {}
  TaskPolicy <- NoTaskPolicy
  JobPolicy <- LossPolicy
  Commands = {}
  MaxRequeueNum <- NoLimit
  Lag = 1
  Scenarios <- Undisturbed
PROPERTIES PodGroupExists
CHECK_DEADLOCK FALSE
