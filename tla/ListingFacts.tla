------------------------------ MODULE ListingFacts ------------------------------
(***************************************************************************)
(* The daily facts of one store and channel, and the jobs that derive them *)
(* from the raw tables:                                                    *)
(*   - a sync job is the end of a run of an endpoint worker: it has stored *)
(*     its own raw columns and projects all its dates in one batch;        *)
(*   - a rebuild job projects the raw tables again, a batch for each date; *)
(*   - a report job compares an imported formal report with the raw tables *)
(*     date by date and publishes it over them, with its audits, in one    *)
(*     batch.  Calls that share a report task each run such a job.         *)
(* Every batch is one transaction, under a mutex of the process.  The raw  *)
(* tables are read before the mutex is taken.                              *)
(*                                                                         *)
(* A step is the SELECTs of one date, one transaction, or one operation of *)
(* the mutex.  Each SELECT of a date fills columns of its own, so reading  *)
(* them in one step loses no behaviour of a column.  A fact row without a  *)
(* known value is not told from no row.                                    *)
(***************************************************************************)
EXTENDS Naturals

CONSTANTS
  Jobs, Kind, Process,   \* job j is a Kind[j] in process Process[j]
  Fields, Writes,        \* job j, if it is a sync, stores the raw columns Writes[j]
  Listings, LastDate,    \* the dates of every batch are 1..LastDate
  Today,                 \* the date whose facts are provisional
  Vals, Unknown, NoJob,
  Reports, Report,       \* job j, if it is a report job, publishes Report[j]
  Covers,                \* the fields a report has
  Snapshots,             \* reports of the current inventory
  localTxRetryLimit,
  MaxRuns                \* bound: how often a job is started

Dates == 1..LastDate
Kinds == {"sync", "rebuild", "report"}

ASSUME JobsAreTyped ==
  /\ Kind \in [Jobs -> Kinds] /\ NoJob \notin Jobs
  /\ Writes \in [Jobs -> SUBSET Fields]
  /\ Report \in [Jobs -> Reports] /\ Covers \in [Reports -> SUBSET Fields]
ASSUME BoundsAreNatural ==
  /\ LastDate \in Nat \ {0} /\ Today \in Nat
  /\ localTxRetryLimit \in Nat /\ MaxRuns \in Nat
ASSUME UnknownIsNoValue == Unknown \notin Vals

VARIABLES
  rawApi,       \* ls_* tables of the API endpoints
  rawReport,    \* ls_* tables of the reports, as imported
  fact,         \* listing_daily_metrics
  audit,        \* listing_daily_reconciliations
  publishMu,    \* per process, the job that holds publishMu
  pc, next,     \* per job: where it is, and the date it works on
  batch,        \* the rows it has built
  verdicts,     \* the audits it has built
  tries,        \* transactions that failed for a lock
  runs          \* how often it was started

database == <<rawApi, rawReport, fact, audit>>
jobVars  == <<pc, next, batch, verdicts, tries, runs>>
vars     == <<database, publishMu, jobVars>>

MaybeVals == Vals \cup {Unknown}
Row       == [Fields -> MaybeVals]
Verdicts  == {"none", "matched", "corrected", "failed"}
Passed    == {"matched", "corrected"}

Metric == [val : Row, source : [Fields -> {"", "api", "report"}],
           verifiedFields : SUBSET Fields, verified : BOOLEAN, provisional : BOOLEAN]

BlankRow    == [f \in Fields |-> Unknown]
BlankMetric == [val |-> BlankRow, source |-> [f \in Fields |-> ""],
                verifiedFields |-> {}, verified |-> FALSE, provisional |-> FALSE]
NoRows      == [d \in Dates |-> [l \in Listings |-> BlankMetric]]
NoVerdicts  == [d \in Dates |-> "none"]

\* Every variable keeps its type.
TypeOK ==
  /\ rawApi \in [Dates -> [Listings -> Row]]
  /\ rawReport \in [Reports -> [Dates -> [Listings -> Row]]]
  /\ fact \in [Dates -> [Listings -> Metric]]
  /\ audit \in [Reports -> [Dates -> Verdicts]]
  /\ publishMu \in [{Process[j] : j \in Jobs} -> Jobs \cup {NoJob}]
  /\ pc \in [Jobs -> {"idle", "write", "read", "lock", "commit", "backoff"}]
  /\ next \in [Jobs -> Dates]
  /\ batch \in [Jobs -> [Dates -> [Listings -> Metric]]]
  /\ verdicts \in [Jobs -> [Dates -> Verdicts]]
  /\ tries \in [Jobs -> 0..localTxRetryLimit]
  /\ runs \in [Jobs -> 0..MaxRuns]

-----------------------------------------------------------------------------
(* Rows *)

knownFields(row) == {f \in Fields : row[f] # Unknown}

\* Faulty variant: a report value does not replace the value of the API.
AssembleKeepingApi(api, report, d) ==
  LET row == [f \in Fields |-> IF api[f] # Unknown THEN api[f] ELSE report[f]]
      all == knownFields(row) # {} /\ knownFields(row) \subseteq knownFields(report)
  IN [val |-> row,
      source |-> [f \in Fields |-> IF report[f] # Unknown THEN "report"
                                   ELSE IF api[f] # Unknown THEN "api" ELSE ""],
      verifiedFields |-> knownFields(report), verified |-> all,
      provisional |-> d = Today /\ ~all]

\* The row published for a listing and date from what the raw tables know of it.
Assemble(api, report, d) ==
  LET row == [f \in Fields |-> IF report[f] # Unknown THEN report[f] ELSE api[f]]
      all == knownFields(row) # {} /\ knownFields(row) \subseteq knownFields(report)
  IN [val |-> row,
      source |-> [f \in Fields |-> IF report[f] # Unknown THEN "report"
                                   ELSE IF api[f] # Unknown THEN "api" ELSE ""],
      verifiedFields |-> knownFields(report), verified |-> all,
      provisional |-> d = Today /\ ~all]

\* Faulty variant: whatever is known replaces what is stored.
UpsertKnown(old, new) ==
  LET wins(f) == new.source[f] # ""
  IN [val |-> [f \in Fields |-> IF wins(f) THEN new.val[f] ELSE old.val[f]],
      source |-> [f \in Fields |-> IF wins(f) THEN new.source[f] ELSE old.source[f]],
      verifiedFields |-> old.verifiedFields \cup new.verifiedFields,
      verified |-> old.verified \/ new.verified,
      provisional |-> ~new.verified /\ new.provisional]

\* INSERT ... ON DUPLICATE KEY UPDATE: a report column always wins, an API column
\* unless the stored one is from a report.
Upsert(old, new) ==
  LET wins(f) == \/ new.source[f] = "report"
                 \/ new.source[f] = "api" /\ old.source[f] # "report"
  IN [val |-> [f \in Fields |-> IF wins(f) THEN new.val[f] ELSE old.val[f]],
      source |-> [f \in Fields |-> IF wins(f) THEN new.source[f] ELSE old.source[f]],
      verifiedFields |-> old.verifiedFields \cup new.verifiedFields,
      verified |-> old.verified \/ new.verified,
      provisional |-> ~new.verified /\ new.provisional]

\* What a batch makes of the facts.
PersistMetrics(rows) ==
  [d \in Dates |-> [l \in Listings |->
     IF knownFields(rows[d][l].val) = {} THEN fact[d][l] ELSE Upsert(fact[d][l], rows[d][l])]]

\* What a batch makes of the audits of a report.
PersistReconciliations(r, found) ==
  [audit EXCEPT ![r] = [d \in Dates |-> IF found[d] = "none" THEN @[d] ELSE found[d]]]

-----------------------------------------------------------------------------
(* Reconciliation of a report with the raw tables on one date *)

\* A snapshot report is compared on the columns it fills.
ComparedFields(r, d) ==
  IF r \in Snapshots
  THEN {f \in Covers[r] : \E l \in Listings : rawReport[r][d][l][f] # Unknown}
  ELSE Covers[r]

RowsWith(table, fields) == {l \in Listings : \E f \in fields : table[l][f] # Unknown}

\* The raw tables have rows where the report has none: the report is refused.
ReportIsEmpty(r, d) ==
  LET fields == ComparedFields(r, d)
  IN RowsWith(rawApi[d], fields) # {} /\ RowsWith(rawReport[r][d], fields) = {}

\* Equal keys, and equal values wherever the report has one.
Agrees(r, d) ==
  LET fields == ComparedFields(r, d)
  IN /\ RowsWith(rawApi[d], fields) = RowsWith(rawReport[r][d], fields)
     /\ \A l \in Listings, f \in fields :
          rawReport[r][d][l][f] # Unknown => rawApi[d][l][f] = rawReport[r][d][l][f]

-----------------------------------------------------------------------------
(* The life of a job *)

Goto(j, label) == pc' = [pc EXCEPT ![j] = label]

Unlock(j) == publishMu' = [publishMu EXCEPT ![Process[j]] = NoJob]

\* A job returns, with or without an error; its locals are gone.
Return(j) ==
  /\ Goto(j, "idle")
  /\ next'     = [next EXCEPT ![j] = 1]
  /\ batch'    = [batch EXCEPT ![j] = NoRows]
  /\ verdicts' = [verdicts EXCEPT ![j] = NoVerdicts]
  /\ tries'    = [tries EXCEPT ![j] = 0]
  /\ UNCHANGED runs

Start(j) ==
  /\ pc[j] = "idle" /\ runs[j] < MaxRuns
  /\ runs' = [runs EXCEPT ![j] = @ + 1]
  /\ Goto(j, IF Kind[j] = "sync" THEN "write" ELSE "read")
  /\ UNCHANGED <<database, publishMu, next, batch, verdicts, tries>>

\* A sync stores what it fetched of one date: rows it sends replace their columns of
\* this endpoint, with or without a value, and other rows stay as they were.
StoreRaw(j) ==
  /\ pc[j] = "write"
  /\ \E sent \in SUBSET Listings : \E row \in [sent -> [Writes[j] -> MaybeVals]] :
       rawApi' = [rawApi EXCEPT ![next[j]] = [l \in Listings |-> [f \in Fields |->
                    IF l \in sent /\ f \in Writes[j] THEN row[l][f] ELSE @[l][f]]]]
  /\ IF next[j] = LastDate
     THEN Goto(j, "read") /\ next' = [next EXCEPT ![j] = 1]
     ELSE next' = [next EXCEPT ![j] = @ + 1] /\ UNCHANGED pc
  /\ UNCHANGED <<rawReport, fact, audit, publishMu, batch, verdicts, tries, runs>>

\* A run that does not succeed is not projected.
SyncFails(j) ==
  /\ pc[j] = "write"
  /\ Return(j) /\ UNCHANGED <<database, publishMu>>

\* The next date, or the batch is complete: a rebuild publishes every date by itself.
BuildNext(j) ==
  IF Kind[j] # "rebuild" /\ next[j] < LastDate
  THEN next' = [next EXCEPT ![j] = @ + 1] /\ UNCHANGED pc
  ELSE Goto(j, "lock") /\ UNCHANGED next

BuildFromSQL(j) ==
  /\ pc[j] = "read" /\ Kind[j] # "report"
  /\ batch' = [batch EXCEPT ![j][next[j]] =
                 [l \in Listings |-> Assemble(rawApi[next[j]][l], BlankRow, next[j])]]
  /\ BuildNext(j)
  /\ UNCHANGED <<database, publishMu, verdicts, tries, runs>>

BuildFails(j) ==
  /\ pc[j] = "read" /\ Kind[j] # "report"
  /\ Return(j) /\ UNCHANGED <<database, publishMu>>

\* Faulty variant: the audit of a date is stored before the other dates are compared.
ReconcileEagerly(j) ==
  LET r == Report[j]
      d == next[j]
      verdict == IF Agrees(r, d) THEN "matched" ELSE "corrected"
  IN /\ pc[j] = "read" /\ Kind[j] = "report"
     /\ ~ReportIsEmpty(r, d)
     /\ batch' = [batch EXCEPT ![j][d] =
                    [l \in Listings |-> Assemble(rawApi[d][l], rawReport[r][d][l], d)]]
     /\ verdicts' = [verdicts EXCEPT ![j][d] = verdict]
     /\ audit' = [audit EXCEPT ![r][d] = verdict]
     /\ BuildNext(j)
     /\ UNCHANGED <<rawApi, rawReport, fact, publishMu, tries, runs>>

Reconcile(j) ==
  LET r == Report[j]
      d == next[j]
  IN /\ pc[j] = "read" /\ Kind[j] = "report"
     /\ ~ReportIsEmpty(r, d)
     /\ batch' = [batch EXCEPT ![j][d] =
                    [l \in Listings |-> Assemble(rawApi[d][l], rawReport[r][d][l], d)]]
     /\ verdicts' = [verdicts EXCEPT ![j][d] = IF Agrees(r, d) THEN "matched" ELSE "corrected"]
     /\ BuildNext(j)
     /\ UNCHANGED <<database, publishMu, tries, runs>>

\* An empty report, or an error of any read of this date: nothing is published, and
\* the failure is noted by a statement that may fail as well.
RejectReport(j) ==
  /\ pc[j] = "read" /\ Kind[j] = "report"
  /\ \/ audit' = [audit EXCEPT ![Report[j]][next[j]] = "failed"]
     \/ UNCHANGED audit
  /\ Return(j)
  /\ UNCHANGED <<rawApi, rawReport, fact, publishMu>>

-----------------------------------------------------------------------------
(* Publishing a batch *)

\* Done with a batch: a rebuild goes on with the next date.
Proceed(j) ==
  IF Kind[j] = "rebuild" /\ next[j] < LastDate
  THEN /\ Goto(j, "read")
       /\ next'  = [next EXCEPT ![j] = @ + 1]
       /\ batch' = [batch EXCEPT ![j] = NoRows]
       /\ tries' = [tries EXCEPT ![j] = 0]
       /\ UNCHANGED <<verdicts, runs>>
  ELSE Return(j)

BatchIsEmpty(j) ==
  /\ verdicts[j] = NoVerdicts
  /\ \A d \in Dates, l \in Listings : knownFields(batch[j][d][l].val) = {}

PublishNothing(j) ==
  /\ pc[j] = "lock" /\ BatchIsEmpty(j)
  /\ Proceed(j) /\ UNCHANGED <<database, publishMu>>

Lock(j) ==
  /\ pc[j] = "lock" /\ ~BatchIsEmpty(j)
  /\ publishMu[Process[j]] = NoJob
  /\ publishMu' = [publishMu EXCEPT ![Process[j]] = j]
  /\ Goto(j, "commit")
  /\ UNCHANGED <<database, next, batch, verdicts, tries, runs>>

\* The rows and the audits of the batch become visible together.
PersistBatch(j) ==
  /\ fact' = PersistMetrics(batch[j])
  /\ audit' = PersistReconciliations(Report[j], verdicts[j])
  /\ UNCHANGED <<rawApi, rawReport>>

Commit(j) ==
  /\ pc[j] = "commit"
  /\ PersistBatch(j)
  /\ Unlock(j) /\ Proceed(j)

\* The transaction is committed, its answer lost: the job reports an error.
CommitUnanswered(j) ==
  /\ pc[j] = "commit"
  /\ PersistBatch(j)
  /\ Unlock(j) /\ Return(j)

\* Faulty variant: the audits do not belong to the transaction.
CommitFailsAudited(j) ==
  /\ pc[j] = "commit"
  /\ audit' = PersistReconciliations(Report[j], verdicts[j])
  /\ Unlock(j) /\ Return(j)
  /\ UNCHANGED <<rawApi, rawReport, fact>>

\* Rolled back for good: an error that is not retried, or the last attempt.
CommitFails(j) ==
  /\ pc[j] = "commit"
  /\ Unlock(j) /\ Return(j)
  /\ UNCHANGED database

\* Rolled back for a deadlock or a lock wait: again after a pause, with the mutex.
CommitRetries(j) ==
  /\ pc[j] = "commit" /\ tries[j] < localTxRetryLimit
  /\ tries' = [tries EXCEPT ![j] = @ + 1]
  /\ Goto(j, "backoff")
  /\ UNCHANGED <<database, publishMu, next, batch, verdicts, runs>>

BackoffEnds(j) ==
  /\ pc[j] = "backoff"
  /\ Goto(j, "commit")
  /\ UNCHANGED <<database, publishMu, next, batch, verdicts, tries, runs>>

\* Faulty variant: the return of the cancelled pause keeps the mutex.
BackoffCancelledLocked(j) ==
  /\ pc[j] = "backoff"
  /\ Return(j)
  /\ UNCHANGED <<database, publishMu>>

\* The context ends during the pause.
BackoffCancelled(j) ==
  /\ pc[j] = "backoff"
  /\ Unlock(j) /\ Return(j)
  /\ UNCHANGED database

\* The process of job j dies: its jobs are gone, open transactions roll back.
Die(j) ==
  LET dead == {i \in Jobs : Process[i] = Process[j]}
  IN /\ pc[j] # "idle"
     /\ pc'       = [i \in Jobs |-> IF i \in dead THEN "idle" ELSE pc[i]]
     /\ next'     = [i \in Jobs |-> IF i \in dead THEN 1 ELSE next[i]]
     /\ batch'    = [i \in Jobs |-> IF i \in dead THEN NoRows ELSE batch[i]]
     /\ verdicts' = [i \in Jobs |-> IF i \in dead THEN NoVerdicts ELSE verdicts[i]]
     /\ tries'    = [i \in Jobs |-> IF i \in dead THEN 0 ELSE tries[i]]
     /\ Unlock(j)
     /\ UNCHANGED <<database, runs>>

-----------------------------------------------------------------------------
\* The facts were created empty beside raw tables that had rows; a report holds values
\* of its own columns only.
Init ==
  /\ rawApi \in [Dates -> [Listings -> Row]]
  /\ rawReport \in [Reports -> [Dates -> [Listings -> Row]]]
  /\ \A r \in Reports, d \in Dates, l \in Listings :
       knownFields(rawReport[r][d][l]) \subseteq Covers[r]
  /\ fact = NoRows
  /\ audit = [r \in Reports |-> NoVerdicts]
  /\ publishMu = [p \in {Process[j] : j \in Jobs} |-> NoJob]
  /\ pc = [j \in Jobs |-> "idle"]
  /\ next = [j \in Jobs |-> 1]
  /\ batch = [j \in Jobs |-> NoRows]
  /\ verdicts = [j \in Jobs |-> NoVerdicts]
  /\ tries = [j \in Jobs |-> 0]
  /\ runs = [j \in Jobs |-> 0]

\* A started job goes on by itself: its statements return and its pauses end.
Work(j) ==
  \/ StoreRaw(j) \/ SyncFails(j)
  \/ BuildFromSQL(j) \/ BuildFails(j)
  \/ Reconcile(j) \/ RejectReport(j)
  \/ PublishNothing(j)
  \/ Commit(j) \/ CommitUnanswered(j) \/ CommitFails(j) \/ CommitRetries(j)
  \/ BackoffEnds(j) \/ BackoffCancelled(j)

\* Everything was done as often as the bound allows.
Exhausted == (\A j \in Jobs : pc[j] = "idle" /\ runs[j] = MaxRuns) /\ UNCHANGED vars

Next == (\E j \in Jobs : Start(j) \/ Work(j) \/ Lock(j) \/ Die(j)) \/ Exhausted

Spec == Init /\ [][Next]_vars

\* sync.Mutex hands itself to a goroutine that waited too long: strong fairness.
FairSpec == Spec /\ \A j \in Jobs : WF_vars(Work(j)) /\ SF_vars(Lock(j))

-----------------------------------------------------------------------------
(* Properties *)

\* A column of a fact never becomes less than it was: what is known stays known and
\* what a report said is replaced only by a report, in whatever order batches that
\* read at different times are published (ON DUPLICATE KEY UPDATE of metricsUpsertSQL).
FieldsOnlyImprove ==
  [][\A d \in Dates, l \in Listings, f \in Fields :
       LET old == fact[d][l]
           new == fact'[d][l]
       IN /\ old.source[f] = "report" => new.source[f] = "report"
          /\ old.val[f] # Unknown => new.val[f] # Unknown]_vars

\* verified_fields lists exactly the columns whose value is a report's.
VerifiedFieldsAreReported ==
  \A d \in Dates, l \in Listings :
    fact[d][l].verifiedFields = {f \in Fields : fact[d][l].source[f] = "report"}

\* A value marked as a report's is in the rows of a report that was reconciled for that
\* date; the job that did so may have been followed by a failing one (projectFormalReport).
ReportValuesAreEvidence ==
  \A d \in Dates, l \in Listings, f \in Fields : fact[d][l].source[f] = "report" =>
    \E r \in Reports : audit[r][d] # "none" /\ rawReport[r][d][l][f] = fact[d][l].val[f]

\* A date audited as matched or corrected shows report values wherever the report has
\* one, through crashes, failed commits and later batches (PersistReportBatch).
AuditedIsPublished ==
  \A r \in Reports, d \in Dates, l \in Listings : audit[r][d] \in Passed =>
    \A f \in Fields : rawReport[r][d][l][f] # Unknown => fact[d][l].source[f] = "report"

\* No report is audited as right for a part of its dates only: once one date passed,
\* every date has its audit (projectFormalReport publishes after its loop).
AuditsTogether ==
  \A r \in Reports : (\E d \in Dates : audit[r][d] \in Passed) =>
    \A d \in Dates : audit[r][d] # "none"

\* Every job returns: none waits for the mutex for ever, whatever its holder met
\* (persistBatch unlocks on every return).
JobsReturn == \A j \in Jobs : []<>(pc[j] = "idle")

\* Stated by doc/core/02-database.md: only a report that was reconciled comes before
\* the API, and one with a failed step does not show.  So a report's value that shows
\* is in a report whose audit of that date passed, also after another call of the same
\* report failed (reconciliationUpsertSQL of the failing call).
ShownReportPassed ==
  \A d \in Dates, l \in Listings, f \in Fields : fact[d][l].source[f] = "report" =>
    \E r \in Reports : audit[r][d] \in Passed /\ rawReport[r][d][l][f] = fact[d][l].val[f]

=============================================================================
