SPECIFICATION Spec
CONSTANTS
  MaxSteps = 5
  Interval = 2
  KeepLast = 2
  Lead = 2
  ResumeMode = "latest"
  MaxLives = 2
INVARIANTS
  StepsLineUp
CHECK_DEADLOCK FALSE
