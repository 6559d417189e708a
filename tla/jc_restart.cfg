SPECIFICATION Spec
CONSTANTS
  Tasks = {"t1"}
  MaxReplicas = 1
  TaskMinAvailable <- One
  MinSuccess <- Unset
  MaxRetry = 2
  TaskMaxRetry <- NoLimit
  DependsOn <- NoDependency
  IterationAny = {}
  TaskPolicy <- NoTaskPolicy
  JobPolicy <- EvictPolicy
  Commands = {}
  MaxRequeueNum <- NoLimit
  Lag = 1
  Scenarios <- Evicted
INVARIANTS TypeOK PodGenerations
PROPERTIES NoStalePolicy
CHECK_DEADLOCK FALSE
