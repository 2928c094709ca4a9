SPECIFICATION FairSpec
CONSTANTS
  x1 = x1
  x2 = x2
  Configs <- MCConfigs
  Group = {1, 2, 3}
  Size = 2
  Scored = {2}
  Example = {x1, x2}
  EvalSize = 2
  CkptInterval = 2
  MaxEmpty = 2
  MaxOpen = 2
  MaxOpenEval = 3
  MaxFaults <- MCMaxFaults
INVARIANTS
  TypeOK
  ShippedSound
  StopsAreHard
  JointStopKept
  EpochsWhole
PROPERTIES
  DrainEnds
  EpochsEvaluated
\* The loop has ended, or the trainer has nothing more to train.
CHECK_DEADLOCK FALSE
