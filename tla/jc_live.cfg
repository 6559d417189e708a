SPECIFICATION FairSpec
CONSTANTS
  Tasks = {"t1"}
  MaxReplicas = 1
  TaskMinAvailable <- Zero
  MinSuccess <- Unset
  MaxRetry = 1
  TaskMaxRetry <- NoLimit
  DependsOn <- NoDependency
  IterationAny = {}
  TaskPolicy <- NoTaskPolicy
  JobPolicy <- FailPolicy
  Commands = {"Abort","Terminate","Complete"}
  MaxRequeueNum <- NoLimit
  Lag = 1
  Scenarios <- Settling
PROPERTIES KillEnds PodsConverge PodGroupFollows
CHECK_DEADLOCK FALSE
