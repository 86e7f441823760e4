SPECIFICATION Spec
CONSTANTS
  NMap = 2
  NReduce = 1
  QueueSize = 1
  NoJob = NoJob
  Worker = {w1, w2}
  Emits <- AllButOne
  MaxRetries = 1
  MaxCrashes = 1
  MaxLost = 1
SYMMETRY WorkerSymmetry
CONSTRAINT FaultsWithin
ACTION_CONSTRAINTS LossFirst PromptStore
INVARIANTS TypeOK ReduceHasInputs NoFailureReported  NeverStuck
CHECK_DEADLOCK FALSE
