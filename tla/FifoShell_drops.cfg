SPECIFICATION FairSpec
CONSTANTS
  MaxCmds = 2
  MaxDrops = 2
  Cap <- MCCap
INVARIANTS
  TypeOK
  AnswerMeansRan
  SessionContinues
PROPERTIES
  RunsOnceInOrder
  EveryCommandAnswered
\* The rollout ends.
CHECK_DEADLOCK FALSE
