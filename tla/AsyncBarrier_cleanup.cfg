SPECIFICATION Spec
CONSTANTS
  MaxSteps = 4
  BatchSize = 2
  MaxInflight = 2
  QueueSize = 1
  TargetLag = 1
  KeepInterval = 0
  Transports = {"filesystem"}
  MaxLost = 0
INVARIANT NeverCleanedInUse
CHECK_DEADLOCK FALSE
