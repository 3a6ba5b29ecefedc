\* Two callers on one scope, dying and resuming.
SPECIFICATION Spec
CONSTANTS
  cron = cron
  cli = cli
  Callers <- TwoCallers
  MaxAudit = 2
  MaxTask = 3
  MaxDeath = 1
SYMMETRY CallerSymmetry
INVARIANTS
  OneCreator
  PollsItsOwnTask
  SuccessIsSaved
PROPERTIES
  AuditsAreALedger
