SPECIFICATION Spec
CONSTANTS
  NMap = 2
  NReduce = 1
  QueueSize = 1
  NoJob = NoJob
  Worker = {w1, w2}
  Emits <- AllButOne
  MaxRetries = 0
  MaxCrashes = 0
  MaxLost = 1
SYMMETRY WorkerSymmetry
INVARIANT OutputFinal
CHECK_DEADLOCK FALSE
