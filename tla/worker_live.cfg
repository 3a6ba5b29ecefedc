\* One worker under fairness: rows settle, triggers are served, helpers end.
SPECIFICATION FairSpec
CONSTANTS
  w1 = w1
  w2 = w2
  Workers <- OneWorker
  Mode <- DetailMode
  MayBeFatal <- OnlyW1
  StoreSource <- NoWorkers
  EmptyIsFault <- NoWorkers
  MaxTask = 2
  MaxUnits = 2
  MaxCrash = 1
PROPERTIES
  OnlyCompleteRunsPublish
  TasksAreALedger
  RowsSettle
  TriggersServed
  HelpersEnd
