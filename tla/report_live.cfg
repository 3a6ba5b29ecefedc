\* One caller that dies once and comes back: calls return, the scope is freed.
SPECIFICATION FairSpec
CONSTANTS
  cron = cron
  cli = cli
  Callers <- OneCaller
  MaxAudit = 2
  MaxTask = 2
  MaxDeath = 1
PROPERTIES
  CallsReturn
  RecordedScopeIsFreed
