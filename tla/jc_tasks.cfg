SPECIFICATION Spec
CONSTANTS
  Tasks = {"t1","t2","t3"}
  MaxReplicas = 1
  TaskMinAvailable <- FirstTaskMin
  MinSuccess = 1
  MaxRetry = 1
  TaskMaxRetry = 1
  DependsOn <- Chain
  IterationAny = {"t3"}
  TaskPolicy <- GiveUpTaskPolicy
  JobPolicy <- GiveUpPolicy
  Commands = {}
  MaxRequeueNum <- NoLimit
  Lag = 1
  Scenarios <- SomeTasks
PROPERTIES DependsOnOrder CompletedTruthfully ImplementsJobPhase
CHECK_DEADLOCK FALSE
