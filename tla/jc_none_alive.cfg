SPECIFICATION Spec
CONSTANTS
  Tasks = {"t1"}
  MaxReplicas = 1
  TaskMinAvailable <- One
  MinSuccess <- Unset
  MaxRetry = 2
  TaskMaxRetry <- NoLimit
  DependsOn <- NoDependency
  IterationAny = {}
  TaskPolicy <- NoTaskPolicy
  JobPolicy <- NoPolicy
  Commands = {"Abort","Terminate","Complete"}
  MaxRequeueNum <- NoLimit
  Lag = 1
  Scenarios <- OneCommand
PROPERTIES NoneAliveAtEnd
CHECK_DEADLOCK FALSE
