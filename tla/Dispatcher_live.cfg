SPECIFICATION FairSpec
CONSTANTS
  t1 = t1
  t2 = t2
  e1 = e1
  TrainGroups = {t1}
  EvalGroups = {e1}
  Scored = {e1}
  GroupSize <- MCSize
  MaxInflight = 3
  QueueSize = 1
  MaxOffPolicy = 0
  MaxVersion = 1
  MaxToggles = 0
  ClientWaits = TRUE
  LimiterWaits = TRUE
  EnvCancels = FALSE
  MayStop = TRUE
PROPERTIES
  EmitsOnce
  DispatchedReachSink
  StaleGroupSettles
  EvalCompletes
\* The dispatcher is stopped at the end of the run.
CHECK_DEADLOCK FALSE
