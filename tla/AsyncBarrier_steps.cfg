SPECIFICATION FairSpec
CONSTANTS
  MaxSteps = 6
  BatchSize = 2
  MaxInflight = 2
  QueueSize = 1
  TargetLag = 1
  KeepInterval = 0
  Transports = {"filesystem", "nccl"}
  MaxLost = 1
INVARIANTS
  LeadBounded
  Pipeline
PROPERTIES
  NcclRendezvous
  RunCompletes
\* A run may be left without a counterpart: a failed load, an NCCL trainer
\* without a receiver (see the README).
CHECK_DEADLOCK FALSE
