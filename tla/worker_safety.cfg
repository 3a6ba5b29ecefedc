\* A store-iterating worker whose empty result is a fault, beside a store source.
SPECIFICATION Spec
CONSTANTS
  w1 = w1
  w2 = w2
  Workers <- TwoWorkers
  Mode <- StoreAndSingle
  MayBeFatal <- NoWorkers
  StoreSource <- OnlyW2
  EmptyIsFault <- OnlyW1
  MaxTask = 2
  MaxUnits = 1
  MaxCrash = 0
INVARIANTS
  RunningRowIsLive
  CancelHitsOnlyItsTarget
  StampMeansSuccess
  SnapshotAgreesWithRow
