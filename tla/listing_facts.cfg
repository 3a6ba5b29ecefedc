\* A sync, a report call and a rebuild over two dates: the first two share the mutex of a
\* process.
SPECIFICATION FairSpec
CONSTANTS
  units = units
  salesSync = salesSync
  backfill = backfill
  cron = cron
  posted = posted
  server = server
  command = command
  sales = sales
  listing = listing
  Unknown = Unknown
  NoJob = NoJob
  Jobs <- ThreeJobs
  Kind <- JobKinds
  Process <- Processes
  Fields <- OneColumn
  Writes <- Stored
  Listings <- OneListing
  LastDate = 2
  Today = 2
  Vals = {1, 2}
  Reports <- OneReport
  Report <- SalesReport
  Covers <- CoversUnits
  Snapshots = {}
  localTxRetryLimit = 1
  MaxRuns = 1
INVARIANTS
  VerifiedFieldsAreReported
  ReportValuesAreEvidence
  AuditedIsPublished
  AuditsTogether
PROPERTIES
  FieldsOnlyImprove
  JobsReturn
