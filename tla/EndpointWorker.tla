---------------------------- MODULE EndpointWorker ----------------------------
(***************************************************************************)
(* The sync workers of LingxingSync and the sync_tasks rows they keep.     *)
(*                                                                         *)
(* Every configured endpoint has one EndpointWorker: a goroutine looping   *)
(* in Run over a trigger channel and a cancel channel, both of capacity 1. *)
(* A trigger starts doSync, which inserts a 'running' row, starts a helper *)
(* goroutine that listens for ONE cancel signal, fetches the endpoint unit *)
(* by unit (a store, an ad account, an order, or the whole endpoint),      *)
(* projects the fetched data and writes the row's final status.  The       *)
(* scheduler's stale sweep and the idle branch of Run write the same rows. *)
(* The process can be told to stop, can crash and is restarted.            *)
(***************************************************************************)
EXTENDS Integers

CONSTANTS
  Workers,      \* the configured endpoints, one worker each
  Mode,         \* Mode[w]: how doSync iterates ("single", "store", "ad", "detail")
  MayBeFatal,   \* workers whose start-up assertion may fail (missing table)
  StoreSource,  \* workers whose endpoint is the source of ls_stores
  EmptyIsFault, \* workers writing ls_vc_inventory: zero rows is not success
  MaxTask,      \* bound: task rows ever inserted
  MaxUnits,     \* bound: units of one run
  MaxCrash      \* bound: how often the process goes down

ASSUME WorkerAssumption ==
  /\ Mode \in [Workers -> {"single", "store", "ad", "detail"}]
  /\ MayBeFatal \subseteq Workers
  /\ StoreSource \subseteq Workers
  /\ EmptyIsFault \subseteq Workers
  /\ MaxTask \in Nat /\ MaxUnits \in Nat \ {0} /\ MaxCrash \in Nat

Tasks  == 1..MaxTask
NoTask == 0
Nobody == 0   \* the owner of an id that was never issued

Final     == {"success", "empty", "error", "cancelled"}
RowStatus == {"absent", "running"} \cup Final

VARIABLES
  \* the process, and the workers New found unusable when it started
  up, stopping, crashes, fatal,
  \* a worker's channels
  trigger, cancelCh,
  \* the goroutine of Run: where it is and the locals of doSync
  pc, task, left, got, status, lastStatus,
  \* per task: its helper goroutine, the foreign id it carries, its context
  helper, carried, cancelledCtx,
  \* the database: rows, how many of them are past the stale age, the runs that
  \* stamped their stores, and those that published daily rows and still run
  row, aged, stamped, projected,
  \* history: ids issued and to whom, whether the live run was asked to cancel,
  \* runs that lost their chance to close their row
  issued, owner, asked, lost

procVars   == <<up, stopping, crashes, fatal>>
chanVars   == <<trigger, cancelCh>>
runVars    == <<pc, task, left, got, status, lastStatus>>
helperVars == <<helper, carried, cancelledCtx>>
dbVars     == <<row, aged, stamped, projected>>
histVars   == <<issued, owner, asked, lost>>
vars == <<up, stopping, crashes, fatal, trigger, cancelCh,
          pc, task, left, got, status, lastStatus,
          helper, carried, cancelledCtx, row, aged, stamped, projected,
          issued, owner, asked, lost>>

\* The labels of doSync between the insertion of its row and its return.
Syncing == {"plan", "gate", "fetch", "project", "write", "finish"}

\* Every variable keeps its type.
TypeOK ==
  /\ up \in BOOLEAN /\ stopping \in BOOLEAN /\ crashes \in 0..MaxCrash
  /\ fatal \subseteq MayBeFatal
  /\ trigger \subseteq Workers
  /\ cancelCh \in [Workers -> Tasks \cup {NoTask}]
  /\ pc \in [Workers -> Syncing \cup {"idle", "exited"}]
  /\ task \in [Workers -> Tasks \cup {NoTask}]
  /\ left \in [Workers -> 0..MaxUnits]
  /\ got \subseteq Workers
  /\ status \in [Workers -> Final \cup {""}]
  /\ lastStatus \in [Workers -> Final \cup {""}]
  /\ helper \in [Tasks -> {"none", "listening", "carrying", "gone"}]
  /\ carried \in [Tasks -> Tasks \cup {NoTask}]
  /\ cancelledCtx \subseteq Tasks
  /\ row \in [Tasks -> RowStatus]
  /\ aged \in 0..MaxTask
  /\ stamped \subseteq Tasks /\ projected \subseteq Tasks
  /\ issued \in 0..MaxTask
  /\ owner \in [Tasks -> Workers \cup {Nobody}]
  /\ asked \subseteq Workers
  /\ lost \subseteq Tasks

-----------------------------------------------------------------------------
(* Helpers *)

\* syncCtx derives from the process context: either one ends it.
CtxDone(w) == stopping \/ task[w] \in cancelledCtx

Goto(w, label) == pc' = [pc EXCEPT ![w] = label]

\* Faulty variant: a failed body returns without its final UPDATE.
ConcludeUnwritten(w, s) ==
  /\ status' = [status EXCEPT ![w] = s]
  /\ Goto(w, IF s = "success" THEN "project" ELSE "finish")

\* doSync returns with status s; a successful body still runs its projections.
Conclude(w, s) ==
  /\ status' = [status EXCEPT ![w] = s]
  /\ Goto(w, IF s = "success" THEN "project" ELSE "write")

\* db.InsertTask: a fresh id, a running row.
InsertTask(w) ==
  /\ issued < MaxTask
  /\ issued' = issued + 1
  /\ owner' = [owner EXCEPT ![issued + 1] = w]
  /\ row' = [row EXCEPT ![issued + 1] = "running"]

\* Faulty variant: the guard on status = 'running' is missing.
CancelTaskUnguarded(t) == row' = [row EXCEPT ![t] = "cancelled"]

\* db.CancelTask touches only a row that is still running.
CancelTask(t) ==
  row' = IF row[t] = "running" THEN [row EXCEPT ![t] = "cancelled"] ELSE row

\* db.UpdateTask writes the final status whatever the row holds.
UpdateTask(t, s) == row' = [row EXCEPT ![t] = s]

\* Faulty variants: every old row is closed again; the row at the age limit is
\* missed.
RecoverEveryOldTask ==
  row' = [t \in Tasks |-> IF t <= aged THEN "error" ELSE row[t]]
RecoverOlderTasksOnly ==
  row' = [t \in Tasks |-> IF row[t] = "running" /\ t < aged THEN "error" ELSE row[t]]

\* db.RecoverStaleRunningTasks closes every running row older than six hours.
RecoverStaleRunningTasks ==
  row' = [t \in Tasks |-> IF row[t] = "running" /\ t <= aged THEN "error" ELSE row[t]]

-----------------------------------------------------------------------------
(* Callers: cron entries, the trigger and cancel handlers *)

\* send: a full channel drops the request, so only the accepted case is a step.
\* Bound: nobody asks for a run once no row is left to issue.
Trigger(w) ==
  /\ up /\ w \notin trigger /\ issued < MaxTask
  /\ trigger' = trigger \cup {w}
  /\ UNCHANGED <<procVars, cancelCh, runVars, helperVars, dbVars, histVars>>

\* apiSyncCancel passes on any issued id, to any worker; a full channel
\* silently drops it and the caller is answered the same.
Cancel(w, t) ==
  /\ up /\ t <= issued
  /\ cancelCh' = IF cancelCh[w] = NoTask THEN [cancelCh EXCEPT ![w] = t] ELSE cancelCh
  /\ asked' = IF pc[w] \in Syncing /\ task[w] = t THEN asked \cup {w} ELSE asked
  /\ UNCHANGED <<procVars, trigger, runVars, helperVars, dbVars,
                 issued, owner, lost>>

-----------------------------------------------------------------------------
(* Run: the select of the idle worker *)

\* case <-ctx.Done()
RunExits(w) ==
  /\ up /\ stopping /\ pc[w] = "idle"
  /\ Goto(w, "exited")
  /\ UNCHANGED <<procVars, chanVars, task, left, got, status, lastStatus,
                 helperVars, dbVars, histVars>>

\* case taskID := <-cancelCh: nothing of this worker is running; the id may be
\* anybody's.  The UPDATE itself may fail and the error is ignored.
RunTakesCancel(w) ==
  /\ up /\ pc[w] = "idle" /\ cancelCh[w] # NoTask
  /\ \/ CancelTask(cancelCh[w])
     \/ UNCHANGED row
  /\ cancelCh' = [cancelCh EXCEPT ![w] = NoTask]
  /\ UNCHANGED <<procVars, trigger, runVars, helperVars, aged, stamped, projected, histVars>>

TakeTrigger(w) ==
  /\ up /\ pc[w] = "idle" /\ w \in trigger
  /\ trigger' = trigger \ {w}

\* A disabled endpoint consumes the trigger and does nothing; a hot reload may
\* disable or enable it at any moment, so the flag is free here.
SkipDisabled(w) ==
  /\ TakeTrigger(w)
  /\ UNCHANGED <<procVars, cancelCh, runVars, helperVars, dbVars, histVars>>

\* recordFatalTask: a row that only carries the reason; no helper, no fetch.
RecordFatalTask(w) ==
  /\ TakeTrigger(w)
  /\ w \in fatal
  /\ InsertTask(w)
  /\ task' = [task EXCEPT ![w] = issued + 1]
  /\ status' = [status EXCEPT ![w] = "error"]
  /\ asked' = asked \ {w}
  /\ Goto(w, "write")
  /\ UNCHANGED <<procVars, cancelCh, left, got, lastStatus, helperVars,
                 aged, stamped, projected, lost>>

\* doSync up to the start of the helper goroutine (last_attempt_at of the store
\* source's stores, which nothing reads back, is left out).
DoSync(w) ==
  /\ TakeTrigger(w)
  /\ w \notin fatal
  /\ InsertTask(w)
  /\ task' = [task EXCEPT ![w] = issued + 1]
  /\ helper' = [helper EXCEPT ![issued + 1] = "listening"]
  /\ lastStatus' = [lastStatus EXCEPT ![w] = ""]
  /\ asked' = asked \ {w}
  /\ Goto(w, "plan")
  /\ UNCHANGED <<procVars, cancelCh, left, got, status, carried, cancelledCtx,
                 aged, stamped, projected, lost>>

\* InsertTask failed: only the in-memory snapshot says so.
InsertFails(w) ==
  /\ TakeTrigger(w)
  /\ lastStatus' = [lastStatus EXCEPT ![w] = "error"]
  /\ UNCHANGED <<procVars, cancelCh, pc, task, left, got, status,
                 helperVars, dbVars, histVars>>

-----------------------------------------------------------------------------
(* The body of doSync *)

\* Which units there are: the selected stores, the enabled ad accounts (none
\* is an error, but a manual request may filter them all out), the candidate
\* orders, or the endpoint itself.  Queries and date parameters may fail.
Plan(w) ==
  /\ up /\ pc[w] = "plan"
  /\ \/ \E n \in 0..MaxUnits :
          /\ Mode[w] = "single" => n = 1
          /\ left' = [left EXCEPT ![w] = n]
          /\ IF n = 0
             THEN Conclude(w, IF w \in EmptyIsFault THEN "empty" ELSE "success")
             ELSE Goto(w, "gate") /\ UNCHANGED status
     \/ /\ UNCHANGED left
        /\ Conclude(w, IF Mode[w] = "detail" /\ CtxDone(w) THEN "cancelled" ELSE "error")
  /\ UNCHANGED <<procVars, chanVars, task, got, lastStatus, helperVars, dbVars, histVars>>

\* Top of the unit loop.  Only the single path enters a fetch without looking
\* at its context first.
Gate(w) ==
  /\ up /\ pc[w] = "gate"
  /\ IF CtxDone(w) /\ Mode[w] # "single"
     THEN Conclude(w, "cancelled")
     ELSE Goto(w, "fetch") /\ UNCHANGED status
  /\ UNCHANGED <<procVars, chanVars, task, left, got, lastStatus,
                 helperVars, dbVars, histVars>>

\* A unit's pages are all fetched and stored; rows says whether there were any.
UnitSucceeds(w, rows) ==
  /\ up /\ pc[w] = "fetch"
  /\ rows \/ w \in EmptyIsFault   \* elsewhere the count decides nothing
  /\ left' = [left EXCEPT ![w] = left[w] - 1]
  /\ got' = IF rows THEN got \cup {w} ELSE got
  /\ IF left[w] > 1
     THEN Goto(w, "gate") /\ UNCHANGED status
     ELSE Conclude(w, IF Mode[w] = "single" /\ CtxDone(w) THEN "cancelled"
                      ELSE IF w \in EmptyIsFault /\ w \notin got' THEN "empty"
                      ELSE "success")
  /\ UNCHANGED <<procVars, chanVars, task, lastStatus, helperVars, dbVars, histVars>>

\* Faulty variant: a failed unit ends the loop as if all had been fetched.
UnitFailsSilently(w) ==
  /\ up /\ pc[w] = "fetch" /\ ~CtxDone(w)
  /\ Conclude(w, "success")
  /\ UNCHANGED <<procVars, chanVars, task, left, got, lastStatus,
                 helperVars, dbVars, histVars>>

\* Upstream, shaping or upsert error while the context is live.
UnitFails(w) ==
  /\ up /\ pc[w] = "fetch" /\ ~CtxDone(w)
  /\ Conclude(w, "error")
  /\ UNCHANGED <<procVars, chanVars, task, left, got, lastStatus,
                 helperVars, dbVars, histVars>>

\* The fetch loop (or a limiter or back-off wait inside it) notices the
\* context; only the order-detail paths tell this from a failure.
UnitAborts(w) ==
  /\ up /\ pc[w] = "fetch" /\ CtxDone(w)
  /\ Conclude(w, IF Mode[w] = "detail" THEN "cancelled" ELSE "error")
  /\ UNCHANGED <<procVars, chanVars, task, left, got, lastStatus,
                 helperVars, dbVars, histVars>>

\* Faulty variant: nothing recovers the panic and the goroutine of Run is gone.
PanicUnrecovered(w) ==
  /\ up /\ pc[w] \in {"plan", "gate", "fetch", "project"}
  /\ Goto(w, "exited")
  /\ UNCHANGED <<procVars, chanVars, task, left, got, status, lastStatus,
                 helperVars, dbVars, histVars>>

\* A panic is recovered by doSync's deferred closer, or by runOnceSafely when
\* the closer's projection panics (doSync's deferred cancel() ran by then).
Panic(w) ==
  /\ up /\ pc[w] \in {"plan", "gate", "fetch", "project"}
  /\ Conclude(w, "error")
  /\ cancelledCtx' = IF pc[w] = "project"
                     THEN cancelledCtx \cup {task[w]} ELSE cancelledCtx
  /\ UNCHANGED <<procVars, chanVars, task, left, got, lastStatus,
                 helper, carried, dbVars, histVars>>

-----------------------------------------------------------------------------
(* The deferred closer of doSync *)

\* projectDaily and the vendor-ad projection: a failure is a warning only.
Project(w) ==
  /\ up /\ pc[w] = "project"
  /\ \/ /\ ~CtxDone(w)
        /\ projected' = projected \cup {task[w]}
     \/ UNCHANGED projected
  /\ Goto(w, "write")
  /\ UNCHANGED <<procVars, chanVars, task, left, got, status, lastStatus,
                 helperVars, row, aged, stamped, histVars>>

\* The final UPDATE of the row; a failure is logged and the run goes on.
Write(w) ==
  /\ up /\ pc[w] = "write"
  /\ \/ UpdateTask(task[w], status[w]) /\ UNCHANGED lost
     \/ lost' = lost \cup {task[w]} /\ UNCHANGED row
  /\ Goto(w, "finish")
  /\ UNCHANGED <<procVars, chanVars, task, left, got, status, lastStatus,
                 helperVars, aged, stamped, projected, issued, owner, asked>>

\* MarkStoreSyncSuccess, finishSnapshot, the deferred cancel(), running=false;
\* the locals of doSync go out of scope.
Finish(w) ==
  /\ up /\ pc[w] = "finish"
  /\ \/ /\ status[w] = "success" /\ w \in StoreSource
        /\ stamped' = stamped \cup {task[w]}
     \/ UNCHANGED stamped
  /\ projected' = projected \ {task[w]}
  /\ asked' = asked \ {w}
  /\ lastStatus' = [lastStatus EXCEPT ![w] = status[w]]
  /\ cancelledCtx' = cancelledCtx \cup {task[w]}
  /\ left' = [left EXCEPT ![w] = 0]
  /\ got' = got \ {w}
  /\ status' = [status EXCEPT ![w] = ""]
  /\ Goto(w, "idle")
  /\ UNCHANGED <<procVars, chanVars, task, helper, carried, row, aged,
                 issued, owner, lost>>

-----------------------------------------------------------------------------
(* The helper goroutine of task t *)

HelperEnds(t) ==
  /\ up /\ helper[t] = "listening" /\ (stopping \/ t \in cancelledCtx)
  /\ helper' = [helper EXCEPT ![t] = "gone"]
  /\ UNCHANGED <<procVars, chanVars, runVars, carried, cancelledCtx, dbVars, histVars>>

\* Faulty variant: any id in the channel cancels the run.
HelperCancelsOnAnyId(t) ==
  /\ up /\ helper[t] = "listening" /\ cancelCh[owner[t]] # NoTask
  /\ cancelCh' = [cancelCh EXCEPT ![owner[t]] = NoTask]
  /\ helper' = [helper EXCEPT ![t] = "gone"]
  /\ cancelledCtx' = cancelledCtx \cup {t}
  /\ UNCHANGED <<procVars, trigger, runVars, carried, dbVars, histVars>>

\* It reads the channel once: its own id cancels the context ...
HelperCancels(t) ==
  /\ up /\ helper[t] = "listening" /\ cancelCh[owner[t]] = t
  /\ cancelCh' = [cancelCh EXCEPT ![owner[t]] = NoTask]
  /\ helper' = [helper EXCEPT ![t] = "gone"]
  /\ cancelledCtx' = cancelledCtx \cup {t}
  /\ UNCHANGED <<procVars, trigger, runVars, carried, dbVars, histVars>>

\* ... another id is taken out ...
HelperTakesForeign(t) ==
  /\ up /\ helper[t] = "listening" /\ cancelCh[owner[t]] \notin {NoTask, t}
  /\ carried' = [carried EXCEPT ![t] = cancelCh[owner[t]]]
  /\ cancelCh' = [cancelCh EXCEPT ![owner[t]] = NoTask]
  /\ helper' = [helper EXCEPT ![t] = "carrying"]
  /\ UNCHANGED <<procVars, trigger, runVars, cancelledCtx, dbVars, histVars>>

\* ... and put back if the channel is still free; either way the helper is over.
HelperPutsBack(t) ==
  /\ up /\ helper[t] = "carrying"
  /\ cancelCh' = IF cancelCh[owner[t]] = NoTask
                 THEN [cancelCh EXCEPT ![owner[t]] = carried[t]] ELSE cancelCh
  /\ carried' = [carried EXCEPT ![t] = NoTask]
  /\ helper' = [helper EXCEPT ![t] = "gone"]
  /\ UNCHANGED <<procVars, trigger, runVars, cancelledCtx, dbVars, histVars>>

-----------------------------------------------------------------------------
(* The scheduler's sweep, the clock, and the life of the process *)

\* Six hours pass: every row inserted so far is past the stale age.
SixHoursPass ==
  /\ aged < issued
  /\ aged' = issued
  /\ UNCHANGED <<procVars, chanVars, runVars, helperVars, row, stamped, projected, histVars>>

RunStaleRecovery ==
  /\ up /\ ~stopping
  /\ RecoverStaleRunningTasks
  /\ UNCHANGED <<procVars, chanVars, runVars, helperVars, aged, stamped, projected, histVars>>

\* SIGTERM: the process context is cancelled; main waits 500 ms and leaves.
Stop ==
  /\ up /\ ~stopping /\ crashes < MaxCrash
  /\ stopping' = TRUE
  /\ UNCHANGED <<up, crashes, fatal, chanVars, runVars, helperVars, dbVars, histVars>>

\* The process is gone, by a crash or after a stop; a run that had not written
\* its row leaves it running.
GoDown ==
  /\ up /\ crashes < MaxCrash
  /\ up' = FALSE
  /\ crashes' = crashes + 1
  /\ lost' = lost \cup {task[w] : w \in {v \in Workers : pc[v] \in Syncing \ {"finish"}}}
  /\ UNCHANGED <<stopping, fatal, chanVars, runVars, helperVars, dbVars, issued, owner, asked>>

\* Supervisor starts the binary again: all channels, locals and goroutines are
\* new, the store sources are triggered, Scheduler.Start sweeps once (or fails).
Restart ==
  /\ ~up
  /\ up' = TRUE /\ stopping' = FALSE
  /\ fatal' \in SUBSET MayBeFatal
  /\ trigger' = StoreSource
  /\ cancelCh' = [w \in Workers |-> NoTask]
  /\ pc' = [w \in Workers |-> "idle"]
  /\ task' = [w \in Workers |-> NoTask]
  /\ left' = [w \in Workers |-> 0]
  /\ got' = {}
  /\ status' = [w \in Workers |-> ""]
  /\ lastStatus' = [w \in Workers |-> ""]
  /\ helper' = [t \in Tasks |-> IF t <= issued THEN "gone" ELSE "none"]
  /\ carried' = [t \in Tasks |-> NoTask]
  /\ projected' = {}
  /\ cancelledCtx' = 1..issued
  /\ RecoverStaleRunningTasks \/ UNCHANGED row
  /\ UNCHANGED <<crashes, aged, stamped, histVars>>

-----------------------------------------------------------------------------
Init ==
  /\ up = TRUE /\ stopping = FALSE /\ crashes = 0
  /\ fatal \in SUBSET MayBeFatal
  /\ trigger = StoreSource
  /\ cancelCh = [w \in Workers |-> NoTask]
  /\ pc = [w \in Workers |-> "idle"]
  /\ task = [w \in Workers |-> NoTask]
  /\ left = [w \in Workers |-> 0]
  /\ got = {}
  /\ status = [w \in Workers |-> ""]
  /\ lastStatus = [w \in Workers |-> ""]
  /\ helper = [t \in Tasks |-> "none"]
  /\ carried = [t \in Tasks |-> NoTask]
  /\ cancelledCtx = {}
  /\ row = [t \in Tasks |-> "absent"]
  /\ aged = 0
  /\ stamped = {} /\ projected = {}
  /\ issued = 0
  /\ owner = [t \in Tasks |-> Nobody]
  /\ asked = {}
  /\ lost = {}

\* One receive of the idle select.
Select(w) ==
  \/ RunExits(w) \/ RunTakesCancel(w)
  \/ SkipDisabled(w) \/ RecordFatalTask(w) \/ DoSync(w) \/ InsertFails(w)

Body(w) ==
  \/ Plan(w) \/ Gate(w)
  \/ \E rows \in BOOLEAN : UnitSucceeds(w, rows)
  \/ UnitFails(w) \/ UnitAborts(w) \/ Panic(w)
  \/ Project(w) \/ Write(w) \/ Finish(w)

Helper(t) ==
  \/ HelperEnds(t) \/ HelperCancels(t) \/ HelperTakesForeign(t) \/ HelperPutsBack(t)

Environment ==
  \/ \E w \in Workers : Trigger(w)
  \/ \E w \in Workers, t \in Tasks : Cancel(w, t)
  \/ SixHoursPass \/ RunStaleRecovery \/ Stop \/ GoDown \/ Restart

Next ==
  \/ \E w \in Workers : Select(w) \/ Body(w)
  \/ \E t \in Tasks : Helper(t)
  \/ Environment

Spec == Init /\ [][Next]_vars

-----------------------------------------------------------------------------
(* Safety *)

\* A row says 'running' only while its run is live in this process, or if the
\* run lost its chance to close it (a crash, or a failed final UPDATE): no
\* return of doSync, panic included, leaves its row open.
RunningRowIsLive ==
  \A t \in Tasks : row[t] = "running" =>
    \/ t \in lost
    \/ up /\ \E w \in Workers : task[w] = t /\ pc[w] \in Syncing \ {"finish"}

\* The context of a run is cancelled only by a cancel request that named this
\* very task on this very worker: ids left in the channel by earlier runs, or
\* meant for other endpoints, never stop it.
CancelHitsOnlyItsTarget ==
  \A w \in Workers :
    (pc[w] \in {"plan", "gate", "fetch", "project"} /\ task[w] \in cancelledCtx)
      => w \in asked

\* ls_stores.last_success_at is stamped only for a run whose row says success
\* (or whose row could not be written).
StampMeansSuccess ==
  \A t \in Tasks : t \in stamped => row[t] = "success" \/ t \in lost

\* The in-memory status of an idle worker never claims a success that its row
\* does not: neither a late cancel nor the stale sweep changes a finished row.
SnapshotAgreesWithRow ==
  \A w \in Workers :
    (up /\ pc[w] = "idle" /\ lastStatus[w] = "success")
      => row[task[w]] = "success" \/ task[w] \in lost

\* The rows are a ledger: a run has one say in how its row ends, and everybody else
\* ends only rows that still say running.  So a final status is overwritten only by the
\* run it belongs to (which the sweep or a misdirected cancel closed too early), and no
\* row is ever opened again, over crashes, restarts and late requests.
Unclosed ==
  IF up THEN {task[w] : w \in {v \in Workers : pc[v] \in Syncing \ {"finish"}}} ELSE {}
Ledger == INSTANCE TaskLedger WITH rows <- row, live <- Unclosed
TasksAreALedger == Ledger!Spec

\* A run is published as a success, projected into the daily tables or stamped
\* on its stores only when every unit it planned was fetched and stored.
OnlyCompleteRunsPublish ==
  [][\A t \in Tasks :
       \/ row'[t] = "success" /\ row[t] # "success"
       \/ t \in (projected' \cup stamped') \ (projected \cup stamped)
       => \E w \in Workers : task[w] = t /\ left[w] = 0]_vars

-----------------------------------------------------------------------------
(* Liveness.  Goroutines that can run do run; Go's select picks among ready   *)
(* cases at random, so no case of the idle select or of a helper is passed    *)
(* over forever; Supervisor restarts the process; the 5-minute sweep keeps    *)
(* running and time passes.                                                  *)
Fairness ==
  /\ \A w \in Workers :
       /\ SF_vars(SkipDisabled(w) \/ RecordFatalTask(w) \/ DoSync(w) \/ InsertFails(w))
       /\ WF_vars(Body(w))
  /\ \A t \in Tasks : SF_vars(HelperEnds(t)) /\ WF_vars(HelperPutsBack(t))
  /\ WF_vars(stopping /\ GoDown)
  /\ WF_vars(Restart)
  /\ WF_vars(SixHoursPass)
  /\ WF_vars(RunStaleRecovery)

FairSpec == Spec /\ Fairness

\* Every row that says 'running' is eventually closed, crash or not.
RowsSettle ==
  \A t \in Tasks : row[t] = "running" ~> row[t] \in Final

\* An accepted trigger is eventually taken, whatever the run before it meets.
TriggersServed ==
  \A w \in Workers : w \in trigger ~> w \notin trigger

\* No helper goroutine outlives its run for ever.
HelpersEnd ==
  \A t \in Tasks : helper[t] \in {"listening", "carrying"} ~> helper[t] = "gone"

-----------------------------------------------------------------------------
(* A claim of a comment that the code does not keep *)

\* worker.go: Cancel lets the running loop see ctx.Done.  While the run fetches,
\* a request for it has taken effect or is on its way to a helper that listens.
CancelReachesItsRun ==
  \A w \in Workers :
    (pc[w] \in {"plan", "gate", "fetch"} /\ w \in asked) =>
      \/ task[w] \in cancelledCtx
      \/ /\ helper[task[w]] = "listening"
         /\ \/ cancelCh[w] = task[w]
            \/ \E t \in Tasks : owner[t] = w /\ carried[t] = task[w]
=============================================================================
