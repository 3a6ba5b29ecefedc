-------------------------- MODULE BackgroundJobsProofs --------------------------
(***************************************************************************)
(* The guards of BackgroundJobs, for any number of requests and firings.   *)
(*                                                                         *)
(* Each property is inductive with the types.  A rebuild flag that is set  *)
(* is the flag of a running rebuild because the step that ends any rebuild *)
(* takes the flag back, even the flag of another one: that is what keeps   *)
(* RunningIsReal true while two rebuilds overlap.                          *)
(***************************************************************************)
EXTENDS BackgroundJobs, TLAPS

IInv == TypeOK /\ OneReportInFlight /\ GateIsExclusive /\ RunningIsReal

USE DEF reportVars, rebuildVars, gateVars

\* The types are right at the start and after every step.
LEMMA TypeStep == ASSUME TypeOK, [Next]_vars PROVE TypeOK'
<1> USE DEF TypeOK, RebuildGoto
<1>1. ASSUME NEW p \in ReportPosts,
             PostReport(p) \/ RejectReport(p) \/ LaunchReport(p) \/ ReportEnds(p)
      PROVE  TypeOK'
      BY <1>1 DEF PostReport, RejectReport, LaunchReport, ReportEnds
<1>2. ASSUME NEW p \in RebuildPosts,
             PostRebuild(p) \/ RejectRebuild(p) \/ LaunchRebuild(p) \/ ReportBatch(p)
      PROVE  TypeOK'
      BY <1>2 DEF PostRebuild, RejectRebuild, LaunchRebuild, ReportBatch
<1>3. ASSUME NEW p \in RebuildPosts, RebuildStep(p) PROVE TypeOK'
      BY <1>3 DEF RebuildStep, BeginRebuild, RebuildReturns, RebuildEnds
<1>4. ASSUME NEW f \in Firings, Fire(f) \/ FiringEnds(f) PROVE TypeOK'
      BY <1>4 DEF Fire, FiringEnds
<1>5. CASE UNCHANGED vars BY <1>5 DEF vars
<1> QED BY <1>1, <1>2, <1>3, <1>4, <1>5 DEF Next

\* The flag is taken in the critical section that looks at it, and given back
\* only by the run it was taken for.
LEMMA OneReportStep == ASSUME IInv, [Next]_vars PROVE OneReportInFlight'
<1> USE DEF IInv, TypeOK, OneReportInFlight
<1>1. ASSUME NEW p \in ReportPosts, PostReport(p) PROVE OneReportInFlight'
      BY <1>1 DEF PostReport
<1>2. ASSUME NEW p \in ReportPosts, RejectReport(p) PROVE OneReportInFlight'
      BY <1>2 DEF RejectReport
<1>3. ASSUME NEW p \in ReportPosts, LaunchReport(p) PROVE OneReportInFlight'
      BY <1>3 DEF LaunchReport
<1>4. ASSUME NEW p \in ReportPosts, ReportEnds(p) PROVE OneReportInFlight'
      BY <1>4 DEF ReportEnds
<1>5. CASE UNCHANGED reportVars BY <1>5
<1>6. ASSUME NEW p \in RebuildPosts,
             PostRebuild(p) \/ RejectRebuild(p) \/ LaunchRebuild(p)
             \/ ReportBatch(p) \/ RebuildStep(p)
      PROVE  UNCHANGED reportVars
      BY <1>6 DEF PostRebuild, RejectRebuild, LaunchRebuild, ReportBatch,
                  RebuildStep, BeginRebuild, RebuildReturns, RebuildEnds
<1>7. ASSUME NEW f \in Firings, Fire(f) \/ FiringEnds(f) PROVE UNCHANGED reportVars
      BY <1>7 DEF Fire, FiringEnds
<1>8. CASE UNCHANGED vars BY <1>8 DEF vars
<1> QED BY <1>1, <1>2, <1>3, <1>4, <1>5, <1>6, <1>7, <1>8 DEF Next

\* A firing owns the token from its receive to its deferred send.
LEMMA GateStep == ASSUME IInv, [Next]_vars PROVE GateIsExclusive'
<1> USE DEF IInv, TypeOK, GateIsExclusive, RunningFirings
<1>1. ASSUME NEW f \in Firings, Fire(f) PROVE GateIsExclusive'
      BY <1>1 DEF Fire
<1>2. ASSUME NEW f \in Firings, FiringEnds(f) PROVE GateIsExclusive'
  <2>1. \A g \in Firings : firing[g] = "running" => g = f
        BY <1>2 DEF FiringEnds
  <2>2. \A g \in Firings : firing'[g] # "running"
        BY <1>2, <2>1 DEF FiringEnds
  <2> QED BY <2>2
<1>3. CASE UNCHANGED gateVars BY <1>3
<1>4. ASSUME NEW p \in ReportPosts,
             PostReport(p) \/ RejectReport(p) \/ LaunchReport(p) \/ ReportEnds(p)
      PROVE  UNCHANGED gateVars
      BY <1>4 DEF PostReport, RejectReport, LaunchReport, ReportEnds
<1>5. ASSUME NEW p \in RebuildPosts,
             PostRebuild(p) \/ RejectRebuild(p) \/ LaunchRebuild(p)
             \/ ReportBatch(p) \/ RebuildStep(p)
      PROVE  UNCHANGED gateVars
      BY <1>5 DEF PostRebuild, RejectRebuild, LaunchRebuild, ReportBatch,
                  RebuildStep, BeginRebuild, RebuildReturns, RebuildEnds
<1>6. CASE UNCHANGED vars BY <1>6 DEF vars
<1> QED BY <1>1, <1>2, <1>3, <1>4, <1>5, <1>6 DEF Next

\* Only LaunchRebuild sets the flag, and any rebuild that ends clears it.
LEMMA RunningStep == ASSUME IInv, [Next]_vars PROVE RunningIsReal'
<1> USE DEF IInv, TypeOK, RunningIsReal, RunningRebuilds, RebuildGoto
<1>1. ASSUME NEW p \in RebuildPosts, PostRebuild(p) PROVE RunningIsReal'
      BY <1>1 DEF PostRebuild
<1>2. ASSUME NEW p \in RebuildPosts, RejectRebuild(p) PROVE RunningIsReal'
  <2> SUFFICES ASSUME running' PROVE RunningRebuilds' # {}
      OBVIOUS
  <2>1. PICK q \in RebuildPosts : rebuildPost[q] \in {"started", "working", "returning"}
        BY <1>2 DEF RejectRebuild
  <2>2. q # p BY <1>2, <2>1 DEF RejectRebuild
  <2> QED BY <1>2, <2>1, <2>2 DEF RejectRebuild
<1>3. ASSUME NEW p \in RebuildPosts, LaunchRebuild(p) PROVE RunningIsReal'
      BY <1>3 DEF LaunchRebuild
<1>4. ASSUME NEW p \in RebuildPosts, ReportBatch(p) PROVE RunningIsReal'
      BY <1>4 DEF ReportBatch
<1>5. ASSUME NEW p \in RebuildPosts, BeginRebuild(p) PROVE RunningIsReal'
      BY <1>5 DEF BeginRebuild
<1>6. ASSUME NEW p \in RebuildPosts, RebuildReturns(p) PROVE RunningIsReal'
      BY <1>6 DEF RebuildReturns
<1>7. ASSUME NEW p \in RebuildPosts, RebuildEnds(p) PROVE RunningIsReal'
      BY <1>7 DEF RebuildEnds
<1>8. CASE UNCHANGED rebuildVars BY <1>8
<1>9. ASSUME NEW p \in ReportPosts,
             PostReport(p) \/ RejectReport(p) \/ LaunchReport(p) \/ ReportEnds(p)
      PROVE  UNCHANGED rebuildVars
      BY <1>9 DEF PostReport, RejectReport, LaunchReport, ReportEnds
<1>10. ASSUME NEW f \in Firings, Fire(f) \/ FiringEnds(f) PROVE UNCHANGED rebuildVars
      BY <1>10 DEF Fire, FiringEnds
<1>11. CASE UNCHANGED vars BY <1>11 DEF vars
<1> QED BY <1>1, <1>2, <1>3, <1>4, <1>5, <1>6, <1>7, <1>8, <1>9, <1>10, <1>11
        DEF Next, RebuildStep

\* The invariant holds in every reachable state.
THEOREM Invariance == Spec => []IInv
<1>1. Init => IInv
      BY DEF Init, IInv, TypeOK, OneReportInFlight, GateIsExclusive, RunningFirings,
             RunningIsReal
<1>2. IInv /\ [Next]_vars => IInv'
      BY TypeStep, OneReportStep, GateStep, RunningStep DEF IInv
<1> QED BY <1>1, <1>2, PTL DEF Spec

\* Of all posted report requests at most one is on its way or running.
THEOREM ReportsAreExclusive == Spec => []OneReportInFlight
<1>1. IInv => OneReportInFlight BY DEF IInv
<1> QED BY <1>1, Invariance, PTL

\* Of all cron entries of one report scope at most one runs.
THEOREM GatesAreExclusive == Spec => []GateIsExclusive
<1>1. IInv => GateIsExclusive BY DEF IInv
<1> QED BY <1>1, Invariance, PTL

\* The rebuild status never announces a rebuild that nobody runs.
THEOREM StatusIsReal == Spec => []RunningIsReal
<1>1. IInv => RunningIsReal BY DEF IInv
<1> QED BY <1>1, Invariance, PTL

\* Every variable keeps its type.
THEOREM TypeCorrect == Spec => []TypeOK
<1>1. IInv => TypeOK BY DEF IInv
<1> QED BY <1>1, Invariance, PTL
=============================================================================
