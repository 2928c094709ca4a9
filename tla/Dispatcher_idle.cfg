SPECIFICATION Spec
CONSTANTS
  t1 = t1
  t2 = t2
  e1 = e1
  TrainGroups = {t1}
  EvalGroups = {e1}
  Scored = {}
  GroupSize <- MCSize
  MaxInflight = 2
  QueueSize = 4
  MaxOffPolicy = 0
  MaxVersion = 1
  MaxToggles = 0
  ClientWaits = FALSE
  LimiterWaits = TRUE
  EnvCancels = FALSE
  MayStop = TRUE
INVARIANT IdleMeansDrained
\* The dispatcher is stopped at the end of the run.
CHECK_DEADLOCK FALSE
