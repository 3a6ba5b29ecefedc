\* Two calls of a report: one publishes it, the other fails.
SPECIFICATION Spec
CONSTANTS
  units = units
  salesSync = salesSync
  backfill = backfill
  cron = cron
  posted = posted
  server = server
  command = command
  sales = sales
  listing = listing
  Unknown = Unknown
  NoJob = NoJob
  Jobs <- TwoCalls
  Kind <- JobKinds
  Process <- Processes
  Fields <- OneColumn
  Writes <- Stored
  Listings <- OneListing
  LastDate = 1
  Today = 1
  Vals = {1, 2}
  Reports <- OneReport
  Report <- SalesReport
  Covers <- CoversUnits
  Snapshots = {}
  localTxRetryLimit = 1
  MaxRuns = 1
INVARIANT
  ShownReportPassed
