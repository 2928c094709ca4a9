SPECIFICATION FairSpec
CONSTANTS
  r1 = r1
  r2 = r2
  Run = {r1, r2}
  MaxRuns = 2
  Transports = {"filesystem", "zmq"}
  Kinds = {"ok", "bad"}
  Starts = {1}
  PerBatch = 2
  Budget = 3
  Batches <- MCBatches
  MaxGen = 1
INVARIANTS
  TypeOK
  OneRunPerAdapter
  WeightsCoverSteps
  NeverCrashes
PROPERTIES
  TrainedOnce
  SentIsTrained
