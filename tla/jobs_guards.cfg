\* Two requests of each kind and two cron entries of one scope.
SPECIFICATION Spec
CONSTANTS
  p1 = p1
  p2 = p2
  b1 = b1
  b2 = b2
  f1 = f1
  f2 = f2
  ReportPosts <- TwoReports
  RebuildPosts <- TwoRebuilds
  Firings <- TwoFirings
INVARIANTS
  OneReportInFlight
  GateIsExclusive
  RunningIsReal
