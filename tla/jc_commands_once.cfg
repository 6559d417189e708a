SPECIFICATION Spec
CONSTANTS
  Tasks = {"t1"}
  MaxReplicas = 1
  TaskMinAvailable <- One
  MinSuccess <- Unset
  MaxRetry = 3
  TaskMaxRetry <- NoLimit
  DependsOn <- NoDependency
  IterationAny = {}
  TaskPolicy <- NoTaskPolicy
  JobPolicy <- NoPolicy
  Commands = {"Restart"}
  MaxRequeueNum <- NoLimit
  Lag = 1
  Scenarios <- CommandError
INVARIANTS CommandsOnce
CHECK_DEADLOCK FALSE
