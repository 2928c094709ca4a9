SPECIFICATION Spec
CONSTANTS
  t1 = t1
  t2 = t2
  e1 = e1
  TrainGroups = {t1, t2}
  EvalGroups = {}
  Scored = {t2}
  GroupSize <- MCSize
  MaxInflight = 4
  QueueSize = 1
  MaxOffPolicy = 1
  MaxVersion = 3
  MaxToggles = 1
  ClientWaits = TRUE
  LimiterWaits = TRUE
  EnvCancels = TRUE
  MayStop = FALSE
INVARIANTS
  NoStaleSurvivor
  AtMostOnce
  NothingLost
  GroupOwes
  PermitsAccounted
  ResultsNearFresh
