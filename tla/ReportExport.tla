----------------------------- MODULE ReportExport -----------------------------
(***************************************************************************)
(* Formal report exports: reportexport.Runner and its audit rows.          *)
(*                                                                         *)
(* Cron jobs, the backfill handler and the command line all run exports;   *)
(* nothing but the rows of ls_report_export_tasks keeps two of them apart. *)
(* This module is ONE report scope (account, seller, store, type, region,  *)
(* marketplaces, dates): the audit rows of that scope, the callers running *)
(* Runner.Run or Runner.Resume on it, and the upstream report tasks they   *)
(* create.  A call looks for an unfinished row or inserts one, claims the  *)
(* creation of the upstream task or shares the task of whoever did, polls  *)
(* it, downloads the report, saves its rows and closes the audit row.      *)
(* Every statement is one step: callers interleave between any two, may    *)
(* fail at each and may die (process stop, crash, expired context).        *)
(***************************************************************************)
EXTENDS Integers

CONSTANTS
  Callers,    \* goroutines and processes that may run an export of the scope
  MaxAudit,   \* bound: audit rows ever inserted
  MaxTask,    \* bound: upstream tasks ever created
  MaxDeath    \* bound: how often a caller dies in the middle

ASSUME ReportAssumption ==
  MaxAudit \in Nat /\ MaxTask \in Nat /\ MaxDeath \in Nat

Ids    == 1..MaxAudit
Tasks  == 1..MaxTask
None   == 0

\* IN_PROGRESS stands for IN_QUEUE, IN_PROGRESS and UNKNOWN; CANCELLED for
\* CANCELLED and FATAL: the code never tells them apart.
Active    == {"PENDING", "CREATING", "IN_PROGRESS", "DONE"}
Replies   == {"IN_PROGRESS", "DONE", "CANCELLED"}
RowStatus == {"absent", "SUCCESS", "ERROR", "CANCELLED"} \cup Active

VARIABLES
  \* ls_report_export_tasks: status, report_task_id, which rows hold the
  \* active_scope_key of the scope, the AUTO_INCREMENT counter; the rows whose
  \* report is in the raw tables
  status, taskId, keyed, issued, saved,
  \* upstream: progress of each task and the audit row it was created for
  upstream, madeFor,
  \* a call of Run or Resume: where it is, the audit it works on with the status
  \* and task id as last read, the last reply to a query
  pc, audit, read, task, reply,
  \* calls that claimed the creation, that inserted their row, that resume
  owner, fresh, resuming,
  \* history: audits some call reported as SUCCESS, deaths so far
  promised, deaths

rowVars   == <<status, taskId, keyed, issued, saved>>
upVars    == <<upstream, madeFor>>
localVars == <<audit, read, task, reply, owner, fresh, resuming>>
histVars  == <<promised, deaths>>
vars == <<status, taskId, keyed, issued, saved, upstream, madeFor,
          pc, audit, read, task, reply, owner, fresh, resuming, promised, deaths>>

Labels == {"idle", "find", "insert", "refind", "claim", "wait", "create",
           "record", "query", "progress", "pause", "save", "fail"}

\* Every variable keeps its type.
TypeOK ==
  /\ status \in [Ids -> RowStatus]
  /\ taskId \in [Ids -> Tasks \cup {None}]
  /\ keyed \subseteq Ids /\ saved \subseteq Ids /\ issued \in 0..MaxAudit
  /\ upstream \in [Tasks -> Replies \cup {"absent"}]
  /\ madeFor \in [Tasks -> Ids \cup {None}]
  /\ pc \in [Callers -> Labels]
  /\ audit \in [Callers -> Ids \cup {None}]
  /\ read \in [Callers -> RowStatus]
  /\ task \in [Callers -> Tasks \cup {None}]
  /\ reply \in [Callers -> Replies \cup {"absent"}]
  /\ owner \subseteq Callers /\ fresh \subseteq Callers /\ resuming \subseteq Callers
  /\ promised \subseteq Ids /\ deaths \in 0..MaxDeath

-----------------------------------------------------------------------------
(* Helpers *)

Goto(c, label) == pc' = [pc EXCEPT ![c] = label]

\* The call returns; its locals are gone.
Return(c) ==
  /\ Goto(c, "idle")
  /\ audit' = [audit EXCEPT ![c] = None]
  /\ read' = [read EXCEPT ![c] = "absent"]
  /\ task' = [task EXCEPT ![c] = None]
  /\ reply' = [reply EXCEPT ![c] = "absent"]
  /\ owner' = owner \ {c} /\ fresh' = fresh \ {c} /\ resuming' = resuming \ {c}

\* A statement failed before any row was touched: Run returns the error.
ReturnError(c) == Return(c) /\ UNCHANGED <<rowVars, upVars, histVars>>

\* A step that only moves the call on.
Continue(c, label) ==
  Goto(c, label) /\ UNCHANGED <<rowVars, upVars, localVars, histVars>>

\* findActiveReport: the newest unfinished row, whether it holds the key of the
\* scope or, being older or revived, none.
ActiveIds == {id \in Ids : status[id] \in Active}

\* What Runner learns of a row.
LoadAudit(c, id) ==
  /\ audit' = [audit EXCEPT ![c] = id]
  /\ read' = [read EXCEPT ![c] = status[id]]
  /\ task' = [task EXCEPT ![c] = taskId[id]]

-----------------------------------------------------------------------------
(* EnsureReport *)

\* Run after validateRequest.
Run(c) == pc[c] = "idle" /\ Continue(c, "find")

FindActive(c) ==
  /\ pc[c] \in {"find", "refind"}
  /\ \E id \in ActiveIds : (\A other \in ActiveIds : other <= id) /\ LoadAudit(c, id)
  /\ Goto(c, "claim")
  /\ UNCHANGED <<rowVars, upVars, reply, owner, fresh, resuming, histVars>>

\* The second look, after a duplicate key, does not insert any more.
FindNothing(c) ==
  /\ pc[c] \in {"find", "refind"} /\ ActiveIds = {}
  /\ IF pc[c] = "find" THEN Continue(c, "insert") ELSE ReturnError(c)

\* The unique key lets one insert through ...
Insert(c) ==
  /\ pc[c] = "insert" /\ keyed = {} /\ issued < MaxAudit
  /\ LET id == issued + 1 IN
       /\ issued' = id
       /\ status' = [status EXCEPT ![id] = "PENDING"]
       /\ keyed' = keyed \cup {id}
       /\ audit' = [audit EXCEPT ![c] = id]
  /\ fresh' = fresh \cup {c}
  /\ Goto(c, "claim")
  /\ UNCHANGED <<taskId, saved, upVars, read, task, reply, owner, resuming, histVars>>

\* ... and turns the others back to look for its row.
InsertDuplicate(c) == pc[c] = "insert" /\ keyed # {} /\ Continue(c, "refind")

\* Faulty variant: the claim does not ask for status = 'PENDING'.
ClaimAnyUncreated(c) ==
  /\ pc[c] = "claim" /\ taskId[audit[c]] = None
  /\ status' = [status EXCEPT ![audit[c]] = "CREATING"]
  /\ read' = [read EXCEPT ![c] = "CREATING"]
  /\ owner' = owner \cup {c}
  /\ Goto(c, "create")
  /\ UNCHANGED <<taskId, keyed, issued, saved, upVars, audit, task, reply, fresh,
                 resuming, histVars>>

\* claimReportCreation: a compare-and-set on PENDING.
Claim(c) ==
  /\ pc[c] = "claim" /\ status[audit[c]] = "PENDING" /\ taskId[audit[c]] = None
  /\ status' = [status EXCEPT ![audit[c]] = "CREATING"]
  /\ read' = [read EXCEPT ![c] = "CREATING"]
  /\ owner' = owner \cup {c}
  /\ Goto(c, "create")
  /\ UNCHANGED <<taskId, keyed, issued, saved, upVars, audit, task, reply, fresh,
                 resuming, histVars>>

\* Somebody else has claimed it: an error for the call that inserted the row,
\* otherwise the call shares the task, waiting for its id if it read none.
ClaimLost(c) ==
  /\ pc[c] = "claim" /\ ~(status[audit[c]] = "PENDING" /\ taskId[audit[c]] = None)
  /\ IF c \in fresh THEN ReturnError(c)
     ELSE Continue(c, IF task[c] = None THEN "wait" ELSE "query")

EnsureFails(c) ==
  pc[c] \in {"find", "refind", "insert", "claim"} /\ ReturnError(c)

-----------------------------------------------------------------------------
(* Run *)

\* waitForTask: the row has its task id; a finished row needs no more.  An
\* ERROR row with a task id is shared like any other.
WaitForTask(c) ==
  /\ pc[c] = "wait" /\ taskId[audit[c]] # None
  /\ IF status[audit[c]] = "SUCCESS"
     THEN /\ promised' = promised \cup {audit[c]}
          /\ Return(c)
          /\ UNCHANGED <<rowVars, upVars, deaths>>
     ELSE /\ LoadAudit(c, audit[c])
          /\ Goto(c, "query")
          /\ UNCHANGED <<rowVars, upVars, reply, owner, fresh, resuming, histVars>>

\* Faulty variant: the ten seconds are missing.
WaitFailsOnError(c) ==
  /\ pc[c] = "wait"
  /\ IF status[audit[c]] = "ERROR" THEN ReturnError(c) ELSE UNCHANGED vars

\* Ten seconds, a failed load, or ERROR before creation: the row is left alone.
WaitFails(c) == pc[c] = "wait" /\ ReturnError(c)

\* The create call.  Upstream may have made the task and the answer still be
\* lost or unreadable.
Create(c) ==
  /\ pc[c] = "create"
  /\ \E t \in Tasks :
       /\ madeFor[t] = None /\ \A u \in Tasks : u < t => madeFor[u] # None
       /\ upstream' = [upstream EXCEPT ![t] = "IN_PROGRESS"]
       /\ madeFor' = [madeFor EXCEPT ![t] = audit[c]]
       /\ \/ task' = [task EXCEPT ![c] = t] /\ Goto(c, "record")
          \/ UNCHANGED task /\ Goto(c, "fail")
  /\ UNCHANGED <<rowVars, audit, read, reply, owner, fresh, resuming, histVars>>

CreateFails(c) == pc[c] = "create" /\ Continue(c, "fail")

\* Faulty variant: the id is not stored.
RecordForgetsTask(c) ==
  /\ pc[c] = "record"
  /\ Goto(c, "query")
  /\ UNCHANGED <<rowVars, upVars, localVars, histVars>>

\* MarkReportCreated
Record(c) ==
  /\ pc[c] = "record"
  /\ status' = [status EXCEPT ![audit[c]] = "CREATING"]
  /\ taskId' = [taskId EXCEPT ![audit[c]] = task[c]]
  /\ Goto(c, "query")
  /\ UNCHANGED <<keyed, issued, saved, upVars, localVars, histVars>>

\* Resume: an ERROR or DONE row that has a task id, in a later process.
Resume(c, id) ==
  /\ pc[c] = "idle"
  /\ taskId[id] # None /\ status[id] \in {"ERROR", "DONE"}
  /\ LoadAudit(c, id)
  /\ resuming' = resuming \cup {c}
  /\ Goto(c, "query")
  /\ UNCHANGED <<rowVars, upVars, reply, owner, fresh, histVars>>

-----------------------------------------------------------------------------
(* Polling and saving *)

\* One query of waitForDone: the reply is written in a later step.
Query(c) ==
  /\ pc[c] = "query"
  /\ reply' = [reply EXCEPT ![c] = upstream[task[c]]]
  /\ Goto(c, "progress")
  /\ UNCHANGED <<rowVars, upVars, audit, read, task, owner, fresh, resuming, histVars>>

\* Faulty variant: a cancelled report keeps the key of its scope.
ProgressKeepsKey(c) ==
  /\ pc[c] = "progress"
  /\ status' = [status EXCEPT ![audit[c]] = reply[c]]
  /\ Goto(c, CASE reply[c] = "DONE" -> "save"
               [] reply[c] = "IN_PROGRESS" -> "pause"
               [] OTHER -> "fail")
  /\ UNCHANGED <<taskId, keyed, issued, saved, upVars, localVars, histVars>>

\* MarkReportProgress: WHERE id = ? and nothing else, so the reply overwrites
\* whatever the row has become; only CANCELLED gives the key up.
Progress(c) ==
  /\ pc[c] = "progress"
  /\ status' = [status EXCEPT ![audit[c]] = reply[c]]
  /\ keyed' = IF reply[c] = "CANCELLED" THEN keyed \ {audit[c]} ELSE keyed
  /\ Goto(c, CASE reply[c] = "DONE" -> "save"
               [] reply[c] = "IN_PROGRESS" -> "pause"
               [] OTHER -> "fail")
  /\ UNCHANGED <<taskId, issued, saved, upVars, localVars, histVars>>

PollAgain(c)    == pc[c] = "pause" /\ Continue(c, "query")
PollTimesOut(c) == pc[c] = "pause" /\ Continue(c, "fail")

\* Faulty variant: the row is closed outside the transaction of the raw rows,
\* which is rolled back.
SaveClosesFirst(c) ==
  /\ pc[c] = "save"
  /\ status' = [status EXCEPT ![audit[c]] = "SUCCESS"]
  /\ keyed' = keyed \ {audit[c]}
  /\ Goto(c, "fail")
  /\ UNCHANGED <<taskId, issued, saved, upVars, localVars, histVars>>

\* download and saveDownloadedReport: one transaction imports the rows of the
\* task and closes the audit row.
Save(c) ==
  /\ pc[c] = "save" /\ taskId[audit[c]] # None
  /\ status' = [status EXCEPT ![audit[c]] = "SUCCESS"]
  /\ keyed' = keyed \ {audit[c]}
  /\ saved' = saved \cup {audit[c]}
  /\ promised' = promised \cup {audit[c]}
  /\ Return(c)
  /\ UNCHANGED <<taskId, issued, upVars, deaths>>

\* Any statement after the claim may fail: a call, its decoding, the audit
\* UPDATE, the download, the parser, the transaction.
StepFails(c) ==
  pc[c] \in {"record", "query", "progress", "save"} /\ Continue(c, "fail")

\* fail: the owner, a resumer, or a call that shared a DONE row.
MayMarkError(c) == c \in owner \cup resuming \/ read[c] = "DONE"

\* Faulty variant: a failed creation is handed back for the next caller to retry.
MarkErrorReleasesClaim(c) ==
  /\ pc[c] = "fail" /\ MayMarkError(c)
  /\ status' = IF taskId[audit[c]] = None
               THEN [status EXCEPT ![audit[c]] = "PENDING"] ELSE status
  /\ Return(c)
  /\ UNCHANGED <<taskId, keyed, issued, saved, upVars, histVars>>

\* MarkReportError: WHERE id = ? AND status <> 'SUCCESS'.
MarkError(c) ==
  /\ pc[c] = "fail" /\ MayMarkError(c)
  /\ IF status[audit[c]] = "SUCCESS" THEN UNCHANGED <<status, keyed>>
     ELSE /\ status' = [status EXCEPT ![audit[c]] = "ERROR"]
          /\ keyed' = keyed \ {audit[c]}
  /\ Return(c)
  /\ UNCHANGED <<taskId, issued, saved, upVars, histVars>>

\* Nobody else marks the row, and the UPDATE itself may fail (it does when the
\* call's own context has ended).
FailQuietly(c) == pc[c] = "fail" /\ ReturnError(c)

\* The process stops or the run panics: what the call wrote stays.
Die(c) ==
  /\ pc[c] # "idle" /\ deaths < MaxDeath
  /\ deaths' = deaths + 1
  /\ Return(c)
  /\ UNCHANGED <<rowVars, upVars, promised>>

\* The upstream task comes to an end.
UpstreamEnds(t) ==
  /\ upstream[t] = "IN_PROGRESS"
  /\ \E s \in {"DONE", "CANCELLED"} : upstream' = [upstream EXCEPT ![t] = s]
  /\ UNCHANGED <<rowVars, madeFor, pc, localVars, histVars>>

-----------------------------------------------------------------------------
\* The table may hold one unfinished row from before the key column existed.
Init ==
  /\ issued \in {0, 1} \cap 0..MaxAudit
  /\ status = [id \in Ids |-> IF id <= issued THEN "PENDING" ELSE "absent"]
  /\ taskId = [id \in Ids |-> None]
  /\ keyed = {} /\ saved = {}
  /\ upstream = [t \in Tasks |-> "absent"]
  /\ madeFor = [t \in Tasks |-> None]
  /\ pc = [c \in Callers |-> "idle"]
  /\ audit = [c \in Callers |-> None]
  /\ read = [c \in Callers |-> "absent"]
  /\ task = [c \in Callers |-> None]
  /\ reply = [c \in Callers |-> "absent"]
  /\ owner = {} /\ fresh = {} /\ resuming = {}
  /\ promised = {} /\ deaths = 0

Ensure(c) ==
  \/ FindActive(c) \/ FindNothing(c) \/ Insert(c) \/ InsertDuplicate(c)
  \/ Claim(c) \/ ClaimLost(c) \/ EnsureFails(c)

Export(c) ==
  \/ WaitForTask(c) \/ WaitFails(c) \/ Create(c) \/ CreateFails(c) \/ Record(c)
  \/ Query(c) \/ Progress(c) \/ PollAgain(c) \/ PollTimesOut(c)
  \/ Save(c) \/ StepFails(c) \/ MarkError(c) \/ FailQuietly(c)

Next ==
  \/ \E c \in Callers :
       \/ Run(c) \/ Ensure(c) \/ Export(c) \/ Die(c)
       \/ \E id \in Ids : Resume(c, id)
  \/ \E t \in Tasks : UpstreamEnds(t)

Spec == Init /\ [][Next]_vars

-----------------------------------------------------------------------------
(* Safety *)

\* At most one call at a time is between its claim and the recording of its
\* upstream task: however calls of the scope interleave, die and retry, two of
\* them never create a report side by side.
OneCreator ==
  \A c, d \in Callers :
    (pc[c] \in {"create", "record"} /\ pc[d] \in {"create", "record"}) => c = d

\* One audit row never gets two upstream tasks.
CreateOnce ==
  \A t, u \in Tasks : (madeFor[t] # None /\ madeFor[t] = madeFor[u]) => t = u

\* The key of the scope is held by at most one row, and that row is unfinished:
\* every terminal row has given it up, so a later correction can start afresh.
KeyHolderIsActive ==
  /\ \A id \in keyed : status[id] \in Active
  /\ \A id, other \in keyed : id = other

\* A call polls and saves the task its audit row names.
PollsItsOwnTask ==
  \A c \in Callers :
    pc[c] \in {"query", "progress", "pause", "save"} =>
      /\ task[c] # None
      /\ taskId[audit[c]] = task[c] /\ madeFor[task[c]] = audit[c]

\* SUCCESS, in a row or as an answer to a caller, means the report is imported.
SuccessIsSaved ==
  /\ \A id \in Ids : status[id] = "SUCCESS" => id \in saved
  /\ promised \subseteq saved

\* The rows of a scope are a ledger: one row at a time holds the scope, a row that ends
\* gives it up for good, gets one upstream task, and is imported only with one; a late
\* reply may revive a finished row, but gives it neither the scope nor another task.
Ended == {id \in Ids : status[id] \in {"SUCCESS", "ERROR", "CANCELLED"}}
Ledger == INSTANCE ReportLedger
          WITH Rows <- Ids, opened <- 1..issued, holder <- keyed, over <- Ended,
               imported <- saved
AuditsAreALedger == Ledger!Spec

-----------------------------------------------------------------------------
(* Liveness *)

\* A call runs on: HTTP requests and waits are bounded by timeouts, and the poll
\* loop by its deadline.
Fairness ==
  \A c \in Callers : WF_vars(Ensure(c) \/ Export(c)) /\ SF_vars(PollTimesOut(c))

FairSpec == Spec /\ Fairness

\* Upstream tasks end, the scope keeps being requested, and no statement fails
\* every time it is tried on the same row.
Persistence ==
  /\ \A t \in Tasks : WF_vars(UpstreamEnds(t))
  /\ \A c \in Callers :
       /\ SF_vars(Run(c)) /\ SF_vars(FindActive(c))
       /\ \A id \in Ids :
            /\ SF_vars(audit[c] = id /\ ClaimLost(c))
            /\ SF_vars(audit[c] = id /\ Query(c))
            /\ SF_vars(audit[c] = id /\ Progress(c))
            /\ SF_vars(audit[c] = id /\ Save(c))

\* Every call returns.
CallsReturn == \A c \in Callers : pc[c] # "idle" ~> pc[c] = "idle"

\* Once the upstream task of a row is recorded, the scope is freed even if the
\* call that owned the row is dead: later calls share the task and close the row,
\* given that Persistence holds.
RecordedScopeIsFreed ==
  Persistence => \A id \in Ids : (id \in keyed /\ taskId[id] # None) ~> id \notin keyed

-----------------------------------------------------------------------------
(* Claims of the comments that the code does not keep *)

\* export.go: "the DB update is conditional on SUCCESS so a concurrent
\* successful saver wins".
SavedNeverError == \A id \in saved : status[id] # "ERROR"
=============================================================================
