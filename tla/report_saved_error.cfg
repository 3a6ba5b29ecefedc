\* A saved report whose audit row ends as ERROR.
SPECIFICATION Spec
CONSTANTS
  cron = cron
  cli = cli
  Callers <- TwoCallers
  MaxAudit = 1
  MaxTask = 1
  MaxDeath = 0
INVARIANTS
  SavedNeverError
