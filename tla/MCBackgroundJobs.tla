---------------------------- MODULE MCBackgroundJobs ----------------------------
(* Small instances of BackgroundJobs for TLC. *)
EXTENDS BackgroundJobs

CONSTANTS p1, p2, b1, b2, f1, f2

TwoReports  == {p1, p2}
TwoRebuilds == {b1, b2}
TwoFirings  == {f1, f2}
=============================================================================
