---------------------------- MODULE MCReportExport ----------------------------
(* Small instances of ReportExport for TLC. *)
EXTENDS ReportExport, TLC

CONSTANTS cron, cli

OneCaller  == {cron}
TwoCallers == {cron, cli}
CallerSymmetry == Permutations(TwoCallers)
=============================================================================
