----------------------------- MODULE BackgroundJobs -----------------------------
(***************************************************************************)
(* The three guards that keep a long background job from being started     *)
(* twice:                                                                  *)
(*   - reportRunBusy of the server, for report runs posted by an operator; *)
(*   - the Running flag of the rebuild snapshot, for rebuilds of the       *)
(*     listing facts posted by an operator;                                *)
(*   - the run gate of the scheduler, a channel that holds one token per   *)
(*     report scope, for cron firings.                                     *)
(* A step is one critical section of the mutex concerned, one channel      *)
(* operation, or the validation of a request body.  The guards live in     *)
(* memory: a restart of the process starts again from Init.                *)
(***************************************************************************)
CONSTANTS
  ReportPosts,    \* concurrent requests to run a report
  RebuildPosts,   \* concurrent requests to rebuild the listing facts
  Firings         \* cron entries whose report jobs have the same scope

VARIABLES
  reportRunBusy, reportPost,            \* apiReportExportRun and its goroutine
  running, progress, failed, rebuildPost, \* the rebuild snapshot and runRebuild
  gateToken, firing                     \* a gate and the firings that use it

reportVars  == <<reportRunBusy, reportPost>>
rebuildVars == <<running, progress, failed, rebuildPost>>
gateVars    == <<gateToken, firing>>
vars == <<reportVars, rebuildVars, gateVars>>

\* Every variable keeps its type.
TypeOK ==
  /\ reportRunBusy \in BOOLEAN /\ running \in BOOLEAN /\ failed \in BOOLEAN
  /\ gateToken \in BOOLEAN
  /\ reportPost \in [ReportPosts -> {"idle", "validating", "running"}]
  /\ progress \in {"", "starting", "running", "processed", "completed"}
  /\ rebuildPost \in [RebuildPosts -> {"idle", "validating", "started", "working", "returning"}]
  /\ firing \in [Firings -> {"idle", "running"}]

-----------------------------------------------------------------------------
(* Posted report runs *)

\* Faulty variant: the flag is looked at now and set by a later critical section.
PostReportUnset(p) ==
  /\ reportPost[p] = "idle" /\ ~reportRunBusy
  /\ reportPost' = [reportPost EXCEPT ![p] = "validating"]
  /\ UNCHANGED <<reportRunBusy, rebuildVars, gateVars>>

\* A refused request changes nothing; an accepted one takes the flag first and
\* looks at its body afterwards.
PostReport(p) ==
  /\ reportPost[p] = "idle" /\ ~reportRunBusy
  /\ reportRunBusy' = TRUE
  /\ reportPost' = [reportPost EXCEPT ![p] = "validating"]
  /\ UNCHANGED <<rebuildVars, gateVars>>

\* An invalid body, an unknown store, a missing seller: the handler returns.
RejectReport(p) ==
  /\ reportPost[p] = "validating"
  /\ reportPost' = [reportPost EXCEPT ![p] = "idle"]
  /\ UNCHANGED <<reportRunBusy, rebuildVars, gateVars>>

LaunchReport(p) ==
  /\ reportPost[p] = "validating"
  /\ reportPost' = [reportPost EXCEPT ![p] = "running"]
  /\ UNCHANGED <<reportRunBusy, rebuildVars, gateVars>>

\* The run returns, times out after 30 minutes or panics: the deferred function
\* gives the flag back.
ReportEnds(p) ==
  /\ reportPost[p] = "running"
  /\ reportRunBusy' = FALSE
  /\ reportPost' = [reportPost EXCEPT ![p] = "idle"]
  /\ UNCHANGED <<rebuildVars, gateVars>>

-----------------------------------------------------------------------------
(* Posted rebuilds *)

RebuildGoto(p, label) == rebuildPost' = [rebuildPost EXCEPT ![p] = label]

\* The flag is only looked at; it is set after the body is found valid.
PostRebuild(p) ==
  /\ rebuildPost[p] = "idle" /\ ~running
  /\ RebuildGoto(p, "validating")
  /\ UNCHANGED <<running, progress, failed, reportVars, gateVars>>

RejectRebuild(p) ==
  /\ rebuildPost[p] = "validating"
  /\ RebuildGoto(p, "idle")
  /\ UNCHANGED <<running, progress, failed, reportVars, gateVars>>

\* A new snapshot replaces the old one and the goroutine is started.
LaunchRebuild(p) ==
  /\ rebuildPost[p] = "validating"
  /\ running' = TRUE /\ progress' = "starting" /\ failed' = FALSE
  /\ RebuildGoto(p, "started")
  /\ UNCHANGED <<reportVars, gateVars>>

BeginRebuild(p) ==
  /\ rebuildPost[p] = "started"
  /\ progress' = "running"
  /\ RebuildGoto(p, "working")
  /\ UNCHANGED <<running, failed, reportVars, gateVars>>

ReportBatch(p) ==
  /\ rebuildPost[p] = "working"
  /\ progress' = "processed"
  /\ UNCHANGED <<running, failed, rebuildPost, reportVars, gateVars>>

\* RunListingDaily returns: rows and progress, or the error, are noted.
RebuildReturns(p) ==
  /\ rebuildPost[p] = "working"
  /\ \/ progress' = "completed" /\ UNCHANGED failed
     \/ failed' = TRUE /\ UNCHANGED progress
  /\ RebuildGoto(p, "returning")
  /\ UNCHANGED <<running, reportVars, gateVars>>

\* Faulty variant: only a run that did not fail takes the flag back.
RebuildEndsOnSuccess(p) ==
  /\ rebuildPost[p] = "returning"
  /\ running' = (running /\ failed)
  /\ RebuildGoto(p, "idle")
  /\ UNCHANGED <<progress, failed, reportVars, gateVars>>

\* The deferred function takes the flag back.
RebuildEnds(p) ==
  /\ rebuildPost[p] = "returning"
  /\ running' = FALSE
  /\ RebuildGoto(p, "idle")
  /\ UNCHANGED <<progress, failed, reportVars, gateVars>>

-----------------------------------------------------------------------------
(* Cron firings of one report scope *)

\* Faulty variant: the token is put back as soon as it has been seen.
FirePeeks(f) ==
  /\ firing[f] = "idle" /\ gateToken
  /\ firing' = [firing EXCEPT ![f] = "running"]
  /\ UNCHANGED <<gateToken, reportVars, rebuildVars>>

\* A firing that finds no token in the gate skips its turn: it changes nothing.
Fire(f) ==
  /\ firing[f] = "idle" /\ gateToken
  /\ gateToken' = FALSE
  /\ firing' = [firing EXCEPT ![f] = "running"]
  /\ UNCHANGED <<reportVars, rebuildVars>>

\* The job returns or panics: the deferred send puts the token back.
FiringEnds(f) ==
  /\ firing[f] = "running"
  /\ gateToken' = TRUE
  /\ firing' = [firing EXCEPT ![f] = "idle"]
  /\ UNCHANGED <<reportVars, rebuildVars>>

-----------------------------------------------------------------------------
Init ==
  /\ reportRunBusy = FALSE /\ reportPost = [p \in ReportPosts |-> "idle"]
  /\ running = FALSE /\ progress = "" /\ failed = FALSE
  /\ rebuildPost = [p \in RebuildPosts |-> "idle"]
  /\ gateToken = TRUE /\ firing = [f \in Firings |-> "idle"]

\* What the goroutine of a rebuild goes on to do.
RebuildStep(p) == BeginRebuild(p) \/ RebuildReturns(p) \/ RebuildEnds(p)

Next ==
  \/ \E p \in ReportPosts : PostReport(p) \/ RejectReport(p) \/ LaunchReport(p) \/ ReportEnds(p)
  \/ \E p \in RebuildPosts : PostRebuild(p) \/ RejectRebuild(p) \/ LaunchRebuild(p)
                             \/ ReportBatch(p) \/ RebuildStep(p)
  \/ \E f \in Firings : Fire(f) \/ FiringEnds(f)

Spec == Init /\ [][Next]_vars

-----------------------------------------------------------------------------
(* Properties *)

RunningRebuilds == {p \in RebuildPosts : rebuildPost[p] \in {"started", "working", "returning"}}
RunningFirings  == {f \in Firings : firing[f] = "running"}

\* handlers_report_run.go: one posted report in flight at a time, counting the
\* request that is still being validated.
OneReportInFlight ==
  \A p, q \in ReportPosts :
    (reportPost[p] # "idle" /\ reportPost[q] # "idle") => p = q /\ reportRunBusy

\* A gate never has two owners: while its token is in place no firing runs, and
\* whatever happens at most one does.
GateIsExclusive == \A f, g \in RunningFirings : f = g /\ ~gateToken

\* The snapshot never announces a rebuild that nobody runs, so the page does not
\* poll a rebuild for ever and a new one is not refused for nothing.
RunningIsReal == running => RunningRebuilds # {}
=============================================================================
