\* Two fetches of up to three rows in pages of two, one false answer in each, one change
\* of the upstream. Fetches stop being started: no deadlock check.
SPECIFICATION FairSpec
CONSTANTS
  None = None
  Key <- ThreeKeys
  Upstreams <- AtFirst
  PageSize = 2
  MaxPages = 3
  MaxRuns = 2
  MaxChanges = 1
  MaxLies = 1
CHECK_DEADLOCK FALSE
INVARIANTS
  SuccessIsComplete
PROPERTIES
  PartitionIsWhole
  SnapshotIsOneFetch
  FetchEnds
