\* One project, two writers, pages of one row. Syncs stop writing and a project need not
\* begin: no deadlock check.
SPECIFICATION FairSpec
CONSTANTS
  None = None
  NoWrite = NoWrite
  Top = 9
  Key <- Keys
  Sources <- TableRows
  Ranges <- Scopes
  Writers = {w1, w2}
  PageSize = 1
  MaxNow = 1
  MaxWrites = 3
  MaxReads = 1
CHECK_DEADLOCK FALSE
INVARIANTS
  CopyIsCurrent
  SnapshotIsComplete
PROPERTIES
  FeedCatchesUp
