SPECIFICATION FairSpec
CONSTANTS
  MaxSteps = 4
  BatchSize = 2
  MaxInflight = 2
  QueueSize = 1
  TargetLag = 1
  KeepInterval = 0
  Transports = {"nccl"}
  MaxLost = 1
PROPERTY OrchestratorCompletes
CHECK_DEADLOCK FALSE
