\* A cancel request that never reaches the run it names.
SPECIFICATION Spec
CONSTANTS
  w1 = w1
  w2 = w2
  Workers <- OneWorker
  Mode <- StoreMode
  MayBeFatal <- NoWorkers
  StoreSource <- NoWorkers
  EmptyIsFault <- NoWorkers
  MaxTask = 2
  MaxUnits = 1
  MaxCrash = 0
INVARIANTS
  CancelReachesItsRun
