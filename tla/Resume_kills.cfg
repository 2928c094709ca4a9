SPECIFICATION FairSpec
CONSTANTS
  MaxSteps = 5
  Interval = 2
  KeepLast = 2
  Lead = 2
  ResumeMode = "given"
  MaxLives = 3
INVARIANTS
  ResumeLoads
  StepsLineUp
  PolicyOnLineage
  OnlyResumeStepLeft
PROPERTIES
  ResumePointKept
  RunCompletes
\* A completed run stops.
CHECK_DEADLOCK FALSE
