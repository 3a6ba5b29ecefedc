--------------------------- MODULE ListingFactsProofs ---------------------------
(***************************************************************************)
(* Proofs, for every set of jobs, reports, listings, columns and dates, of *)
(* the safety properties of ListingFacts.                                  *)
(*                                                                         *)
(* The argument: what a job has built is sound by itself (Backed): a       *)
(* column has a source exactly if it has a value, and a report's value is  *)
(* that of the report it reconciled; its audits say so (Carries) and,      *)
(* before anything is published, there is one for every date (Complete).   *)
(* Only publishing and rejecting touch facts or audits (DatabaseSteps),    *)
(* and the upsert never takes anything away (UpsertImproves).              *)
(***************************************************************************)
EXTENDS ListingFacts, TLAPS

\* A built row: a source for every value, verified where it is a report's.
Sound(m) ==
  /\ \A f \in Fields : m.source[f] = "" <=> m.val[f] = Unknown
  /\ m.verifiedFields = {f \in Fields : m.source[f] = "report"}

\* The report values of a batch are those of the report, on dates that passed.
Backed(j) ==
  \A d \in Dates, l \in Listings :
    /\ Sound(batch[j][d][l])
    /\ \A f \in Fields : batch[j][d][l].source[f] = "report" =>
         /\ verdicts[j][d] # "none"
         /\ rawReport[Report[j]][d][l][f] = batch[j][d][l].val[f]

\* Only report jobs have audits, and a date that has one carries the report.
Carries(j) ==
  \A d \in Dates : verdicts[j][d] # "none" =>
    /\ Kind[j] = "report" /\ verdicts[j][d] \in Passed
    /\ \A l \in Listings, f \in Fields :
         rawReport[Report[j]][d][l][f] # Unknown => batch[j][d][l].source[f] = "report"

\* A report job has the audits of the dates behind it; of all, when it publishes.
Complete(j) ==
  Kind[j] = "report" =>
    \A d \in Dates : (pc[j] \in {"lock", "commit", "backoff"} \/ d < next[j]) =>
      verdicts[j][d] # "none"

\* Only a sync writes raw rows.
WritesRaw(j) == pc[j] = "write" => Kind[j] = "sync"

JobSound(j) == Backed(j) /\ Carries(j) /\ Complete(j) /\ WritesRaw(j)
JobsSound   == \A j \in Jobs : JobSound(j)

\* The inductive invariant.
IInv ==
  /\ TypeOK /\ JobsSound
  /\ VerifiedFieldsAreReported /\ ReportValuesAreEvidence
  /\ AuditedIsPublished /\ AuditsTogether

-----------------------------------------------------------------------------
(* Rows *)

LEMMA BlankIsTyped ==
  /\ BlankRow \in Row /\ BlankMetric \in Metric /\ Sound(BlankMetric)
  /\ NoRows \in [Dates -> [Listings -> Metric]] /\ NoVerdicts \in [Dates -> Verdicts]
<1>1. BlankRow \in Row
  BY DEF BlankRow, Row, MaybeVals
<1>2. BlankMetric \in Metric
  BY <1>1 DEF BlankMetric, Metric
<1>3. Sound(BlankMetric)
  BY DEF Sound, BlankMetric, BlankRow
<1> QED BY <1>1, <1>2, <1>3 DEF NoRows, NoVerdicts, Verdicts

\* What Assemble makes of a row of the API and one of a report.
LEMMA AssembleIsSound ==
  ASSUME NEW api \in Row, NEW report \in Row, NEW d \in Dates
  PROVE  /\ Assemble(api, report, d) \in Metric
         /\ Sound(Assemble(api, report, d))
         /\ \A f \in Fields :
              /\ Assemble(api, report, d).source[f] = "report" <=> report[f] # Unknown
              /\ report[f] # Unknown => Assemble(api, report, d).val[f] = report[f]
<1> DEFINE m == Assemble(api, report, d)
<1>1. m.val \in Row
  BY DEF Assemble, Row
<1>2. m.source \in [Fields -> {"", "api", "report"}]
  BY DEF Assemble
<1>3. m.verifiedFields \subseteq Fields /\ m.verified \in BOOLEAN /\ m.provisional \in BOOLEAN
  BY DEF Assemble, knownFields
<1>4. m \in Metric
  <2>1. m = [val |-> m.val, source |-> m.source, verifiedFields |-> m.verifiedFields,
             verified |-> m.verified, provisional |-> m.provisional]
    BY DEF Assemble
  <2> QED BY <2>1, <1>1, <1>2, <1>3 DEF Metric
<1>5. ASSUME NEW f \in Fields
      PROVE  /\ m.source[f] = "report" <=> report[f] # Unknown
             /\ m.source[f] = "" <=> m.val[f] = Unknown
             /\ report[f] # Unknown => m.val[f] = report[f]
  <2>1. m.val[f] = IF report[f] # Unknown THEN report[f] ELSE api[f]
    BY DEF Assemble
  <2>2. m.source[f] = IF report[f] # Unknown THEN "report"
                      ELSE IF api[f] # Unknown THEN "api" ELSE ""
    BY DEF Assemble
  <2> HIDE DEF m
  <2> QED BY <2>1, <2>2
<1>6. m.verifiedFields = {f \in Fields : m.source[f] = "report"}
  <2>1. m.verifiedFields = {f \in Fields : report[f] # Unknown}
    BY DEF Assemble, knownFields
  <2> HIDE DEF m
  <2> QED BY <2>1, <1>5
<1>7. Sound(m)
  <2> HIDE DEF m
  <2> QED BY <1>5, <1>6 DEF Sound
<1> QED BY <1>4, <1>5, <1>7

\* Row got is old after new was published over it: nothing is lost, what a report
\* says wins, what only the API says never replaces it.
Improves(old, new, got) ==
  /\ got.verifiedFields = old.verifiedFields \cup new.verifiedFields
  /\ \A f \in Fields :
       /\ got.source[f] = "report" <=> old.source[f] = "report" \/ new.source[f] = "report"
       /\ old.val[f] # Unknown => got.val[f] # Unknown
       /\ new.source[f] = "report" => got.val[f] = new.val[f]
       /\ old.source[f] = "report" /\ new.source[f] # "report" => got.val[f] = old.val[f]

LEMMA UpsertImproves ==
  ASSUME NEW old \in Metric, NEW new \in Metric, Sound(new)
  PROVE  Upsert(old, new) \in Metric /\ Improves(old, new, Upsert(old, new))
<1> DEFINE m == Upsert(old, new)
<1>0. /\ old.val \in Row /\ new.val \in Row
      /\ old.source \in [Fields -> {"", "api", "report"}]
      /\ new.source \in [Fields -> {"", "api", "report"}]
      /\ old.verifiedFields \subseteq Fields /\ new.verifiedFields \subseteq Fields
      /\ old.verified \in BOOLEAN /\ new.verified \in BOOLEAN
      /\ new.provisional \in BOOLEAN
  BY DEF Metric
<1>1. m.val \in Row
  BY <1>0 DEF Upsert, Row
<1>2. m.source \in [Fields -> {"", "api", "report"}]
  BY <1>0 DEF Upsert
<1>3. m.verifiedFields \subseteq Fields
  BY <1>0 DEF Upsert
<1>4. m.verified \in BOOLEAN /\ m.provisional \in BOOLEAN
  BY <1>0 DEF Upsert
<1>5. m \in Metric
  <2>1. m = [val |-> m.val, source |-> m.source, verifiedFields |-> m.verifiedFields,
             verified |-> m.verified, provisional |-> m.provisional]
    BY DEF Upsert
  <2> QED BY <2>1, <1>1, <1>2, <1>3, <1>4 DEF Metric
<1>6. ASSUME NEW f \in Fields
      PROVE  /\ m.source[f] = "report" <=> old.source[f] = "report" \/ new.source[f] = "report"
             /\ old.val[f] # Unknown => m.val[f] # Unknown
             /\ new.source[f] = "report" => m.val[f] = new.val[f]
             /\ old.source[f] = "report" /\ new.source[f] # "report" => m.val[f] = old.val[f]
  <2>1. new.source[f] # "" => new.val[f] # Unknown
    BY DEF Sound
  <2>2. CASE new.source[f] = "report" \/ (new.source[f] = "api" /\ old.source[f] # "report")
    <3>1. m.source[f] = new.source[f] /\ m.val[f] = new.val[f]
      BY <2>2 DEF Upsert
    <3> HIDE DEF m
    <3> QED BY <2>1, <2>2, <3>1
  <2>3. CASE new.source[f] # "report" /\ ~(new.source[f] = "api" /\ old.source[f] # "report")
    <3>1. m.source[f] = old.source[f] /\ m.val[f] = old.val[f]
      BY <2>3 DEF Upsert
    <3> HIDE DEF m
    <3> QED BY <2>1, <2>3, <3>1
  <2> QED BY <2>2, <2>3
<1>7. m.verifiedFields = old.verifiedFields \cup new.verifiedFields
  BY DEF Upsert
<1> HIDE DEF m
<1>8. Improves(old, new, m)
  BY <1>6, <1>7 DEF Improves
<1> QED BY <1>5, <1>8 DEF m

\* What a batch does to each fact.
LEMMA PersistImproves ==
  ASSUME TypeOK, NEW j \in Jobs, Backed(j), NEW d \in Dates, NEW l \in Listings
  PROVE  /\ PersistMetrics(batch[j])[d][l] \in Metric
         /\ Improves(fact[d][l], batch[j][d][l], PersistMetrics(batch[j])[d][l])
<1> DEFINE old == fact[d][l]
           new == batch[j][d][l]
           got == PersistMetrics(batch[j])[d][l]
<1>1. old \in Metric /\ new \in Metric /\ Sound(new)
  BY DEF TypeOK, Backed
<1>2. CASE knownFields(new.val) = {}
  <2>1. got = old
    BY <1>2 DEF PersistMetrics
  <2> HIDE DEF got, old, new
  <2>2. \A f \in Fields : new.source[f] = ""
    BY <1>1, <1>2 DEF knownFields, Sound
  <2>3. new.verifiedFields = {}
    BY <1>1, <2>2 DEF Sound
  <2>4. Improves(old, new, got)
    BY <2>1, <2>2, <2>3 DEF Improves
  <2> QED BY <1>1, <2>1, <2>4 DEF old, new, got
<1>3. CASE knownFields(new.val) # {}
  <2>1. got = Upsert(old, new)
    BY <1>3 DEF PersistMetrics
  <2> HIDE DEF got, old, new
  <2> QED BY <1>1, <2>1, UpsertImproves DEF old, new, got
<1> QED BY <1>2, <1>3

-----------------------------------------------------------------------------
(* Types *)

LEMMA ReturnIsTyped ==
  ASSUME TypeOK, NEW j \in Jobs, Return(j)
  PROVE  /\ pc' \in [Jobs -> {"idle", "write", "read", "lock", "commit", "backoff"}]
         /\ next' \in [Jobs -> Dates]
         /\ batch' \in [Jobs -> [Dates -> [Listings -> Metric]]]
         /\ verdicts' \in [Jobs -> [Dates -> Verdicts]]
         /\ tries' \in [Jobs -> 0..localTxRetryLimit]
         /\ runs' \in [Jobs -> 0..MaxRuns]
<1>1. 1 \in Dates /\ 0 \in 0..localTxRetryLimit
  BY BoundsAreNatural DEF Dates
<1> QED BY <1>1, BlankIsTyped DEF TypeOK, Return, Goto

LEMMA ProceedIsTyped ==
  ASSUME TypeOK, NEW j \in Jobs, Proceed(j)
  PROVE  /\ pc' \in [Jobs -> {"idle", "write", "read", "lock", "commit", "backoff"}]
         /\ next' \in [Jobs -> Dates]
         /\ batch' \in [Jobs -> [Dates -> [Listings -> Metric]]]
         /\ verdicts' \in [Jobs -> [Dates -> Verdicts]]
         /\ tries' \in [Jobs -> 0..localTxRetryLimit]
         /\ runs' \in [Jobs -> 0..MaxRuns]
<1>1. 0 \in 0..localTxRetryLimit
  BY BoundsAreNatural
<1>2. CASE Kind[j] = "rebuild" /\ next[j] < LastDate
  <2>1. next[j] + 1 \in Dates
    BY <1>2, BoundsAreNatural DEF TypeOK, Dates
  <2> QED BY <1>1, <1>2, <2>1, BlankIsTyped DEF TypeOK, Proceed, Goto
<1>3. CASE ~(Kind[j] = "rebuild" /\ next[j] < LastDate)
  BY <1>3, ReturnIsTyped DEF Proceed
<1> QED BY <1>2, <1>3

LEMMA BuildNextIsTyped ==
  ASSUME TypeOK, NEW j \in Jobs, BuildNext(j)
  PROVE  /\ pc' \in [Jobs -> {"idle", "write", "read", "lock", "commit", "backoff"}]
         /\ next' \in [Jobs -> Dates]
<1>1. next[j] < LastDate => next[j] + 1 \in Dates
  BY BoundsAreNatural DEF TypeOK, Dates
<1> QED BY <1>1 DEF TypeOK, BuildNext, Goto

LEMMA PersistIsTyped ==
  ASSUME TypeOK, NEW j \in Jobs, Backed(j), PersistBatch(j)
  PROVE  /\ rawApi' \in [Dates -> [Listings -> Row]]
         /\ rawReport' \in [Reports -> [Dates -> [Listings -> Row]]]
         /\ fact' \in [Dates -> [Listings -> Metric]]
         /\ audit' \in [Reports -> [Dates -> Verdicts]]
<1>1. fact' \in [Dates -> [Listings -> Metric]]
  <2>1. fact' = PersistMetrics(batch[j])
    BY DEF PersistBatch
  <2>2. \A d \in Dates, l \in Listings : PersistMetrics(batch[j])[d][l] \in Metric
    BY PersistImproves
  <2>3. PersistMetrics(batch[j]) \in [Dates -> [Listings -> Metric]]
    <3>1. \A d \in Dates, l \in Listings :
            PersistMetrics(batch[j])[d][l] =
              IF knownFields(batch[j][d][l].val) = {} THEN fact[d][l]
              ELSE Upsert(fact[d][l], batch[j][d][l])
      BY DEF PersistMetrics
    <3> QED BY <2>2, <3>1 DEF PersistMetrics
  <2> QED BY <2>1, <2>3
<1>2. audit' \in [Reports -> [Dates -> Verdicts]]
  <2>1. Report[j] \in Reports
    BY JobsAreTyped
  <2> QED BY <2>1 DEF TypeOK, PersistBatch, PersistReconciliations
<1> QED BY <1>1, <1>2 DEF TypeOK, PersistBatch

\* What a sync may send leaves the raw tables typed.
LEMMA StoreRawIsTyped ==
  ASSUME TypeOK, NEW j \in Jobs, StoreRaw(j)
  PROVE  rawApi' \in [Dates -> [Listings -> Row]]
<1>1. PICK sent \in SUBSET Listings : \E row \in [sent -> [Writes[j] -> MaybeVals]] :
        rawApi' = [rawApi EXCEPT ![next[j]] = [l \in Listings |-> [f \in Fields |->
                     IF l \in sent /\ f \in Writes[j] THEN row[l][f] ELSE @[l][f]]]]
  BY DEF StoreRaw
<1>2. PICK row \in [sent -> [Writes[j] -> MaybeVals]] :
        rawApi' = [rawApi EXCEPT ![next[j]] = [l \in Listings |-> [f \in Fields |->
                     IF l \in sent /\ f \in Writes[j] THEN row[l][f] ELSE @[l][f]]]]
  BY <1>1
<1>3. next[j] \in Dates
  BY DEF TypeOK
<1>4. [l \in Listings |-> [f \in Fields |->
         IF l \in sent /\ f \in Writes[j] THEN row[l][f]
         ELSE rawApi[next[j]][l][f]]] \in [Listings -> Row]
  BY <1>3 DEF TypeOK, Row
<1> QED BY <1>2, <1>3, <1>4 DEF TypeOK

LEMMA TypeStep ==
  ASSUME TypeOK, JobsSound, [Next]_vars
  PROVE  TypeOK'
<1> USE DEF TypeOK
<1>1. ASSUME NEW j \in Jobs, Start(j) PROVE TypeOK'
  BY <1>1, BoundsAreNatural DEF Start, Goto, database
<1>2. ASSUME NEW j \in Jobs, StoreRaw(j) PROVE TypeOK'
  <2>1. /\ pc' \in [Jobs -> {"idle", "write", "read", "lock", "commit", "backoff"}]
        /\ next' \in [Jobs -> Dates]
    <3>1. CASE next[j] = LastDate
      <4>1. pc' = [pc EXCEPT ![j] = "read"] /\ next' = [next EXCEPT ![j] = 1]
        BY <1>2, <3>1 DEF StoreRaw, Goto
      <4>2. 1 \in Dates
        BY BoundsAreNatural DEF Dates
      <4> QED BY <4>1, <4>2
    <3>2. CASE next[j] # LastDate
      <4>1. pc' = pc /\ next' = [next EXCEPT ![j] = @ + 1]
        BY <1>2, <3>2 DEF StoreRaw
      <4>2. next[j] \in Dates
        OBVIOUS
      <4>3. next[j] + 1 \in Dates
        BY <3>2, <4>2, BoundsAreNatural DEF Dates
      <4> QED BY <4>1, <4>3
    <3> QED BY <3>1, <3>2
  <2>2. UNCHANGED <<rawReport, fact, audit, publishMu, batch, verdicts, tries, runs>>
    BY <1>2 DEF StoreRaw
  <2>3. rawApi' \in [Dates -> [Listings -> Row]]
    BY <1>2, StoreRawIsTyped
  <2> QED BY <2>1, <2>2, <2>3
<1>3. ASSUME NEW j \in Jobs, SyncFails(j) \/ BuildFails(j) PROVE TypeOK'
  <2>1. Return(j) /\ UNCHANGED <<database, publishMu>>
    BY <1>3 DEF SyncFails, BuildFails
  <2> QED BY <2>1, ReturnIsTyped DEF database
<1>4. ASSUME NEW j \in Jobs, BuildFromSQL(j) PROVE TypeOK'
  <2>1. \A l \in Listings : Assemble(rawApi[next[j]][l], BlankRow, next[j]) \in Metric
    BY AssembleIsSound, BlankIsTyped
  <2>2. batch' \in [Jobs -> [Dates -> [Listings -> Metric]]]
    BY <1>4, <2>1 DEF BuildFromSQL
  <2>3. BuildNext(j) /\ UNCHANGED <<database, publishMu, verdicts, tries, runs>>
    BY <1>4 DEF BuildFromSQL
  <2> QED BY <2>2, <2>3, BuildNextIsTyped DEF database
<1>5. ASSUME NEW j \in Jobs, Reconcile(j) PROVE TypeOK'
  <2> DEFINE r == Report[j]
             d == next[j]
  <2>1. r \in Reports /\ d \in Dates
    BY JobsAreTyped
  <2>2. \A l \in Listings : Assemble(rawApi[d][l], rawReport[r][d][l], d) \in Metric
    BY <2>1, AssembleIsSound
  <2>3. /\ batch' = [batch EXCEPT ![j][d] =
                      [l \in Listings |-> Assemble(rawApi[d][l], rawReport[r][d][l], d)]]
        /\ \E v \in Verdicts : verdicts' = [verdicts EXCEPT ![j][d] = v]
        /\ BuildNext(j) /\ UNCHANGED <<database, publishMu, tries, runs>>
    BY <1>5 DEF Reconcile, Verdicts
  <2>4. batch' \in [Jobs -> [Dates -> [Listings -> Metric]]]
    BY <2>1, <2>2, <2>3
  <2>5. verdicts' \in [Jobs -> [Dates -> Verdicts]]
    BY <2>1, <2>3
  <2> HIDE DEF r, d
  <2> QED BY <2>3, <2>4, <2>5, BuildNextIsTyped DEF database
<1>6. ASSUME NEW j \in Jobs, RejectReport(j) PROVE TypeOK'
  <2>1. Report[j] \in Reports /\ "failed" \in Verdicts
    BY JobsAreTyped DEF Verdicts
  <2>2. audit' \in [Reports -> [Dates -> Verdicts]]
    <3>1. CASE audit' = [audit EXCEPT ![Report[j]][next[j]] = "failed"]
      <4>1. next[j] \in Dates /\ audit[Report[j]] \in [Dates -> Verdicts]
        BY <2>1
      <4>2. [audit[Report[j]] EXCEPT ![next[j]] = "failed"] \in [Dates -> Verdicts]
        BY <2>1, <4>1
      <4> QED BY <2>1, <3>1, <4>2
    <3>2. CASE UNCHANGED audit
      BY <3>2
    <3> QED BY <1>6, <3>1, <3>2 DEF RejectReport
  <2>3. Return(j) /\ UNCHANGED <<rawApi, rawReport, fact, publishMu>>
    BY <1>6 DEF RejectReport
  <2> QED BY <2>2, <2>3, ReturnIsTyped
<1>7. ASSUME NEW j \in Jobs, PublishNothing(j) PROVE TypeOK'
  <2>1. Proceed(j) /\ UNCHANGED <<database, publishMu>>
    BY <1>7 DEF PublishNothing
  <2> QED BY <2>1, ProceedIsTyped DEF database
<1>8. ASSUME NEW j \in Jobs, Lock(j) PROVE TypeOK'
  BY <1>8 DEF Lock, Goto, database
<1>9. ASSUME NEW j \in Jobs, Commit(j) \/ CommitUnanswered(j) PROVE TypeOK'
  <2>1. PersistBatch(j) /\ Unlock(j) /\ (Proceed(j) \/ Return(j))
    BY <1>9 DEF Commit, CommitUnanswered
  <2>2. publishMu' \in [{Process[i] : i \in Jobs} -> Jobs \cup {NoJob}]
    BY <2>1 DEF Unlock
  <2>3. Backed(j)
    BY DEF JobsSound, JobSound
  <2> QED BY <2>1, <2>2, <2>3, PersistIsTyped, ProceedIsTyped, ReturnIsTyped
<1>10. ASSUME NEW j \in Jobs, CommitFails(j) \/ BackoffCancelled(j) PROVE TypeOK'
  <2>1. Unlock(j) /\ Return(j) /\ UNCHANGED database
    BY <1>10 DEF CommitFails, BackoffCancelled
  <2>2. publishMu' \in [{Process[i] : i \in Jobs} -> Jobs \cup {NoJob}]
    BY <2>1 DEF Unlock
  <2> QED BY <2>1, <2>2, ReturnIsTyped DEF database
<1>11. ASSUME NEW j \in Jobs, CommitRetries(j) PROVE TypeOK'
  <2>1. tries[j] + 1 \in 0..localTxRetryLimit
    BY <1>11, BoundsAreNatural DEF CommitRetries
  <2> QED BY <1>11, <2>1 DEF CommitRetries, Goto, database
<1>12. ASSUME NEW j \in Jobs, BackoffEnds(j) PROVE TypeOK'
  BY <1>12 DEF BackoffEnds, Goto, database
<1>13. ASSUME NEW j \in Jobs, Die(j) PROVE TypeOK'
  <2>1. 1 \in Dates /\ 0 \in 0..localTxRetryLimit
    BY BoundsAreNatural DEF Dates
  <2> QED BY <1>13, <2>1, BlankIsTyped DEF Die, Unlock, database
<1>14. CASE UNCHANGED vars
  BY <1>14 DEF vars, jobVars, database
<1> QED BY <1>1, <1>2, <1>3, <1>4, <1>5, <1>6, <1>7, <1>8, <1>9, <1>10, <1>11, <1>12,
          <1>13, <1>14 DEF Next, Work, Exhausted

-----------------------------------------------------------------------------
(* What the jobs have built *)

Publishing == {"lock", "commit", "backoff"}

\* A job that has nothing.
LEMMA FreshIsSound ==
  ASSUME NEW j \in Jobs, batch'[j] = NoRows, verdicts'[j] = NoVerdicts,
         next'[j] = 1, pc'[j] = "idle"
  PROVE  JobSound(j)'
<1>1. \A d \in Dates : verdicts'[j][d] = "none" /\ ~(d < 1)
  BY DEF NoVerdicts, Dates
<1>2. \A d \in Dates, l \in Listings : batch'[j][d][l] = BlankMetric
  BY DEF NoRows
<1>3. \A f \in Fields : BlankMetric.source[f] # "report"
  BY DEF BlankMetric
<1>4. Backed(j)'
  BY <1>2, <1>3, BlankIsTyped DEF Backed, Sound
<1>5. Carries(j)'
  BY <1>1 DEF Carries
<1>6. Complete(j)'
  BY <1>1 DEF Complete
<1> QED BY <1>4, <1>5, <1>6 DEF JobSound, WritesRaw

\* A job that keeps what it has built.
LEMMA KeptIsBacked ==
  ASSUME NEW j \in Jobs, Backed(j), rawReport' = rawReport,
         batch'[j] = batch[j], verdicts'[j] = verdicts[j]
  PROVE  Backed(j)'
<1> SUFFICES ASSUME NEW d \in Dates, NEW l \in Listings
             PROVE  /\ Sound(batch'[j][d][l])
                    /\ \A f \in Fields : batch'[j][d][l].source[f] = "report" =>
                         /\ verdicts'[j][d] # "none"
                         /\ rawReport'[Report[j]][d][l][f] = batch'[j][d][l].val[f]
  BY DEF Backed, Sound
<1> QED BY DEF Backed

\* And does not get closer to publishing.
LEMMA KeptIsSound ==
  ASSUME NEW j \in Jobs, JobSound(j), rawReport' = rawReport,
         batch'[j] = batch[j], verdicts'[j] = verdicts[j], next'[j] = next[j],
         pc'[j] \in Publishing => pc[j] \in Publishing,
         pc'[j] = "write" => Kind[j] = "sync"
  PROVE  JobSound(j)'
<1>1. Backed(j)'
  BY KeptIsBacked DEF JobSound
<1>2. Carries(j)'
  BY DEF JobSound, Carries
<1>3. Complete(j)'
  BY DEF JobSound, Complete, Publishing
<1> QED BY <1>1, <1>2, <1>3 DEF JobSound, WritesRaw

\* Jobs other than j do nothing.
OthersKept(j) ==
  /\ rawReport' = rawReport
  /\ \A i \in Jobs : i # j =>
       /\ batch'[i] = batch[i] /\ verdicts'[i] = verdicts[i]
       /\ next'[i] = next[i] /\ pc'[i] = pc[i]

LEMMA OthersAreSound ==
  ASSUME JobsSound, NEW j \in Jobs, OthersKept(j), JobSound(j)'
  PROVE  JobsSound'
<1> SUFFICES ASSUME NEW i \in Jobs, i # j PROVE JobSound(i)'
  BY DEF JobsSound
<1>1. JobSound(i)
  BY DEF JobsSound
<1> QED BY <1>1, KeptIsSound DEF OthersKept, JobSound, WritesRaw

LEMMA ReturnIsSound ==
  ASSUME TypeOK, JobsSound, NEW j \in Jobs, Return(j), rawReport' = rawReport
  PROVE  JobsSound'
<1>1. OthersKept(j)
  BY DEF TypeOK, Return, Goto, OthersKept
<1>2. /\ batch'[j] = NoRows /\ verdicts'[j] = NoVerdicts
      /\ next'[j] = 1 /\ pc'[j] = "idle"
  BY DEF TypeOK, Return, Goto
<1> QED BY <1>1, <1>2, FreshIsSound, OthersAreSound

LEMMA ProceedIsSound ==
  ASSUME TypeOK, JobsSound, NEW j \in Jobs, Proceed(j), rawReport' = rawReport
  PROVE  JobsSound'
<1>1. CASE Kind[j] = "rebuild" /\ next[j] < LastDate
  <2>1. OthersKept(j)
    BY <1>1 DEF TypeOK, Proceed, Goto, OthersKept
  <2>2. batch'[j] = NoRows /\ verdicts'[j] = verdicts[j] /\ pc'[j] = "read"
    BY <1>1 DEF TypeOK, Proceed, Goto
  <2>3. \A d \in Dates : verdicts'[j][d] = "none"
    BY <1>1, <2>2 DEF JobsSound, JobSound, Carries
  <2>4. \A d \in Dates, l \in Listings : batch'[j][d][l] = BlankMetric
    BY <2>2 DEF NoRows
  <2>5. \A f \in Fields : BlankMetric.source[f] # "report"
    BY DEF BlankMetric
  <2>6. Backed(j)'
    BY <2>4, <2>5, BlankIsTyped DEF Backed, Sound
  <2>7. Carries(j)' /\ Complete(j)' /\ WritesRaw(j)'
    BY <1>1, <2>2, <2>3 DEF Carries, Complete, WritesRaw
  <2> QED BY <2>1, <2>6, <2>7, OthersAreSound DEF JobSound
<1>2. CASE ~(Kind[j] = "rebuild" /\ next[j] < LastDate)
  BY <1>2, ReturnIsSound DEF Proceed
<1> QED BY <1>1, <1>2

\* A step that only moves a job along.
LEMMA MoveIsSound ==
  ASSUME TypeOK, JobsSound, NEW j \in Jobs, NEW label, Goto(j, label),
         UNCHANGED <<rawReport, batch, verdicts, next>>,
         label \in Publishing => pc[j] \in Publishing,
         label = "write" => Kind[j] = "sync"
  PROVE  JobsSound'
<1>1. JobSound(j) /\ pc'[j] = label
  BY DEF JobsSound, Goto, TypeOK
<1>2. JobSound(j)'
  BY <1>1, KeptIsSound
<1>3. OthersKept(j)
  BY DEF OthersKept, Goto, TypeOK
<1> QED BY <1>2, <1>3, OthersAreSound

LEMMA StoreRawIsSound ==
  ASSUME TypeOK, JobsSound, NEW j \in Jobs, StoreRaw(j)
  PROVE  JobsSound'
<1>1. JobSound(j) /\ Kind[j] = "sync"
  BY DEF JobsSound, JobSound, WritesRaw, StoreRaw
<1>2. /\ UNCHANGED <<rawReport, batch, verdicts>>
      /\ pc' = [pc EXCEPT ![j] = "read"] \/ pc' = pc
      /\ next' = [next EXCEPT ![j] = 1] \/ next' = [next EXCEPT ![j] = @ + 1]
  BY DEF StoreRaw, Goto
<1>3. OthersKept(j)
  BY <1>2 DEF OthersKept, TypeOK
<1>4. Backed(j)' /\ Carries(j)'
  <2>1. Backed(j)'
    BY <1>1, <1>2, KeptIsBacked DEF JobSound
  <2>2. Carries(j)'
    BY <1>1, <1>2 DEF JobSound, Carries
  <2> QED BY <2>1, <2>2
<1>5. Complete(j)' /\ WritesRaw(j)'
  BY <1>1 DEF Complete, WritesRaw
<1> QED BY <1>3, <1>4, <1>5, OthersAreSound DEF JobSound

LEMMA BuildFromSQLIsSound ==
  ASSUME TypeOK, JobsSound, NEW j \in Jobs, BuildFromSQL(j)
  PROVE  JobsSound'
<1> DEFINE here == next[j]
           rows == [l \in Listings |-> Assemble(rawApi[here][l], BlankRow, here)]
<1>1. JobSound(j) /\ Kind[j] # "report" /\ here \in Dates
  BY DEF JobsSound, BuildFromSQL, TypeOK
<1>2. /\ batch' = [batch EXCEPT ![j][here] = rows]
      /\ UNCHANGED <<rawReport, verdicts>>
      /\ pc' = pc \/ pc' = [pc EXCEPT ![j] = "lock"]
      /\ next' = next \/ next' = [next EXCEPT ![j] = @ + 1]
      /\ pc[j] = "read"
  BY DEF BuildFromSQL, BuildNext, Goto, database
<1>3. \A l \in Listings :
        Sound(rows[l]) /\ \A f \in Fields : rows[l].source[f] # "report"
  <2>1. \A l \in Listings : rawApi[here][l] \in Row
    BY <1>1 DEF TypeOK
  <2>2. \A f \in Fields : BlankRow[f] = Unknown
    BY DEF BlankRow
  <2> QED BY <1>1, <2>1, <2>2, AssembleIsSound, BlankIsTyped
<1> HIDE DEF rows, here
<1>4. \A d \in Dates : batch'[j][d] = IF d = here THEN rows ELSE batch[j][d]
  BY <1>1, <1>2 DEF TypeOK
<1>5. OthersKept(j)
  BY <1>2 DEF OthersKept, TypeOK
<1>6. \A d \in Dates : verdicts'[j][d] = "none"
  BY <1>1, <1>2 DEF JobSound, Carries
<1>7. Backed(j)'
  <2> SUFFICES ASSUME NEW d \in Dates, NEW l \in Listings
               PROVE  /\ Sound(batch'[j][d][l])
                      /\ \A f \in Fields : batch'[j][d][l].source[f] = "report" =>
                           /\ verdicts'[j][d] # "none"
                           /\ rawReport'[Report[j]][d][l][f] = batch'[j][d][l].val[f]
    BY DEF Backed, Sound
  <2>1. CASE d = here
    BY <1>3, <1>4, <2>1
  <2>2. CASE d # here
    BY <1>1, <1>2, <1>4, <2>2 DEF JobSound, Backed
  <2> QED BY <2>1, <2>2
<1>8. Carries(j)' /\ Complete(j)'
  BY <1>1, <1>6 DEF Carries, Complete
<1>9. WritesRaw(j)'
  BY <1>2 DEF WritesRaw, TypeOK
<1> QED BY <1>5, <1>7, <1>8, <1>9, OthersAreSound DEF JobSound

LEMMA ReconcileIsSound ==
  ASSUME TypeOK, JobsSound, NEW j \in Jobs, Reconcile(j)
  PROVE  JobsSound'
<1> DEFINE r == Report[j]
           here == next[j]
           rows == [l \in Listings |-> Assemble(rawApi[here][l], rawReport[r][here][l], here)]
           verdict == IF Agrees(r, here) THEN "matched" ELSE "corrected"
<1>1. JobSound(j) /\ Kind[j] = "report" /\ here \in Dates /\ r \in Reports /\ verdict \in Passed
  BY JobsAreTyped DEF JobsSound, Reconcile, TypeOK, Passed
<1>2. /\ batch' = [batch EXCEPT ![j][here] = rows]
      /\ verdicts' = [verdicts EXCEPT ![j][here] = verdict]
      /\ UNCHANGED rawReport /\ BuildNext(j) /\ pc[j] = "read"
  BY DEF Reconcile, database
<1>3. \A l \in Listings :
        /\ Sound(rows[l])
        /\ \A f \in Fields :
             /\ rows[l].source[f] = "report" <=> rawReport[r][here][l][f] # Unknown
             /\ rawReport[r][here][l][f] # Unknown => rows[l].val[f] = rawReport[r][here][l][f]
  <2>1. \A l \in Listings : rawApi[here][l] \in Row /\ rawReport[r][here][l] \in Row
    BY <1>1 DEF TypeOK
  <2> QED BY <1>1, <2>1, AssembleIsSound
<1>4. \A d \in Dates : d < next[j] => verdicts[j][d] # "none"
  BY <1>1 DEF JobSound, Complete
<1>5. \/ pc' = pc /\ next' = [next EXCEPT ![j] = @ + 1]
      \/ pc' = [pc EXCEPT ![j] = "lock"] /\ next' = next /\ ~(next[j] < LastDate)
  BY <1>1, <1>2 DEF BuildNext, Goto
<1>6. "none" \notin Passed
  BY DEF Passed
<1>7. \A d \in Dates : /\ batch'[j][d] = IF d = here THEN rows ELSE batch[j][d]
                       /\ verdicts'[j][d] = IF d = here THEN verdict ELSE verdicts[j][d]
  <2> HIDE DEF rows, verdict
  <2> QED BY <1>1, <1>2 DEF TypeOK
<1>8. OthersKept(j)
  <2> HIDE DEF rows, verdict
  <2> QED BY <1>2, <1>5 DEF OthersKept, TypeOK
<1>9. Complete(j)'
  <2>1. here \in Nat /\ \A d \in Dates : d \in Nat /\ d <= LastDate
    BY <1>1, BoundsAreNatural DEF Dates
  <2>2. \A d \in Dates : d <= here => verdicts'[j][d] # "none"
    <3> HIDE DEF rows, verdict
    <3> QED BY <1>1, <1>4, <1>6, <1>7, <2>1
  <2>3. CASE pc' = pc /\ next' = [next EXCEPT ![j] = @ + 1]
    <3>1. next'[j] = here + 1 /\ pc'[j] = "read"
      BY <1>2, <2>3 DEF TypeOK
    <3> HIDE DEF here
    <3> QED BY <2>1, <2>2, <3>1 DEF Complete
  <2>4. CASE next' = next /\ ~(next[j] < LastDate)
    <3>1. \A d \in Dates : d <= here
      BY <2>1, <2>4, BoundsAreNatural
    <3> QED BY <2>2, <3>1 DEF Complete
  <2> QED BY <1>5, <2>3, <2>4
<1>10. WritesRaw(j)'
  BY <1>2, <1>5 DEF WritesRaw, TypeOK
<1> HIDE DEF rows, verdict, here
<1>11. Backed(j)'
  <2> SUFFICES ASSUME NEW d \in Dates, NEW l \in Listings
               PROVE  /\ Sound(batch'[j][d][l])
                      /\ \A f \in Fields : batch'[j][d][l].source[f] = "report" =>
                           /\ verdicts'[j][d] # "none"
                           /\ rawReport'[r][d][l][f] = batch'[j][d][l].val[f]
    BY DEF Backed, Sound
  <2>1. CASE d = here
    BY <1>1, <1>2, <1>3, <1>6, <1>7, <2>1
  <2>2. CASE d # here
    BY <1>1, <1>2, <1>7, <2>2 DEF JobSound, Backed
  <2> QED BY <2>1, <2>2
<1>12. Carries(j)'
  <2> SUFFICES ASSUME NEW d \in Dates, verdicts'[j][d] # "none"
               PROVE  /\ Kind[j] = "report" /\ verdicts'[j][d] \in Passed
                      /\ \A l \in Listings, f \in Fields :
                           rawReport'[r][d][l][f] # Unknown =>
                             batch'[j][d][l].source[f] = "report"
    BY DEF Carries
  <2>1. CASE d = here
    BY <1>1, <1>2, <1>3, <1>7, <2>1
  <2>2. CASE d # here
    BY <1>1, <1>2, <1>7, <2>2 DEF JobSound, Carries
  <2> QED BY <2>1, <2>2
<1> QED BY <1>8, <1>9, <1>10, <1>11, <1>12, OthersAreSound DEF JobSound

\* Every step keeps what the jobs have built sound.
LEMMA JobsStep ==
  ASSUME TypeOK, JobsSound, [Next]_vars
  PROVE  JobsSound'
<1>1. ASSUME NEW j \in Jobs, Start(j) PROVE JobsSound'
  <2>1. PICK label \in {"write", "read"} :
          Goto(j, label) /\ (label = "write" => Kind[j] = "sync")
    BY <1>1 DEF Start
  <2>2. UNCHANGED <<rawReport, batch, verdicts, next>>
    BY <1>1 DEF Start, database
  <2> QED BY <2>1, <2>2, MoveIsSound DEF Publishing
<1>2. ASSUME NEW j \in Jobs, Lock(j) \/ CommitRetries(j) \/ BackoffEnds(j) PROVE JobsSound'
  <2>1. PICK label \in {"commit", "backoff"} : Goto(j, label)
    BY <1>2 DEF Lock, CommitRetries, BackoffEnds
  <2>2. UNCHANGED <<rawReport, batch, verdicts, next>>
    BY <1>2 DEF Lock, CommitRetries, BackoffEnds, database
  <2>3. pc[j] \in Publishing
    BY <1>2 DEF Lock, CommitRetries, BackoffEnds, Publishing
  <2> QED BY <2>1, <2>2, <2>3, MoveIsSound DEF Publishing
<1>3. ASSUME NEW j \in Jobs,
             \/ SyncFails(j) \/ BuildFails(j) \/ RejectReport(j)
             \/ CommitUnanswered(j) \/ CommitFails(j) \/ BackoffCancelled(j)
      PROVE  JobsSound'
  <2>1. Return(j) /\ rawReport' = rawReport
    BY <1>3 DEF SyncFails, BuildFails, RejectReport, CommitUnanswered, CommitFails,
                BackoffCancelled, PersistBatch, database
  <2> QED BY <2>1, ReturnIsSound
<1>4. ASSUME NEW j \in Jobs, PublishNothing(j) \/ Commit(j) PROVE JobsSound'
  <2>1. Proceed(j) /\ rawReport' = rawReport
    BY <1>4 DEF PublishNothing, Commit, PersistBatch, database
  <2> QED BY <2>1, ProceedIsSound
<1>5. ASSUME NEW j \in Jobs, Die(j) PROVE JobsSound'
  <2> SUFFICES ASSUME NEW i \in Jobs PROVE JobSound(i)'
    BY DEF JobsSound
  <2>1. rawReport' = rawReport
    BY <1>5 DEF Die, database
  <2>2. CASE Process[i] = Process[j]
    <3>1. /\ batch'[i] = NoRows /\ verdicts'[i] = NoVerdicts
          /\ next'[i] = 1 /\ pc'[i] = "idle"
      BY <1>5, <2>2 DEF Die
    <3> QED BY <3>1, FreshIsSound
  <2>3. CASE Process[i] # Process[j]
    <3>1. /\ batch'[i] = batch[i] /\ verdicts'[i] = verdicts[i]
          /\ next'[i] = next[i] /\ pc'[i] = pc[i]
      BY <1>5, <2>3 DEF Die
    <3> QED BY <2>1, <3>1, KeptIsSound DEF JobsSound, JobSound, WritesRaw
  <2> QED BY <2>2, <2>3
<1>6. CASE UNCHANGED vars
  <2> SUFFICES ASSUME NEW i \in Jobs PROVE JobSound(i)'
    BY DEF JobsSound
  <2>1. /\ rawReport' = rawReport /\ batch'[i] = batch[i] /\ verdicts'[i] = verdicts[i]
        /\ next'[i] = next[i] /\ pc'[i] = pc[i]
    BY <1>6 DEF vars, database, jobVars
  <2> QED BY <2>1, KeptIsSound DEF JobsSound, JobSound, WritesRaw
<1> QED BY <1>1, <1>2, <1>3, <1>4, <1>5, <1>6, StoreRawIsSound, BuildFromSQLIsSound,
          ReconcileIsSound DEF Next, Work, Exhausted

-----------------------------------------------------------------------------
(* The facts and the audits *)

LEMMA InitSatisfiesIInv == Init => IInv
<1> SUFFICES ASSUME Init PROVE IInv
  OBVIOUS
<1>1. TypeOK
  <2>1. 1 \in Dates /\ 0 \in 0..localTxRetryLimit /\ 0 \in 0..MaxRuns
    BY BoundsAreNatural DEF Dates
  <2> QED BY <2>1, BlankIsTyped DEF Init, TypeOK
<1>2. JobsSound
  <2> SUFFICES ASSUME NEW j \in Jobs PROVE JobSound(j)
    BY DEF JobsSound
  <2>1. /\ batch[j] = NoRows /\ verdicts[j] = NoVerdicts /\ next[j] = 1 /\ pc[j] = "idle"
    BY DEF Init
  <2>2. \A d \in Dates : verdicts[j][d] = "none" /\ ~(d < 1)
    BY <2>1 DEF NoVerdicts, Dates
  <2>3. \A d \in Dates, l \in Listings : batch[j][d][l] = BlankMetric
    BY <2>1 DEF NoRows
  <2>4. \A f \in Fields : BlankMetric.source[f] # "report"
    BY DEF BlankMetric
  <2>5. Backed(j)
    BY <2>3, <2>4, BlankIsTyped DEF Backed
  <2> QED BY <2>1, <2>2, <2>5 DEF JobSound, Carries, Complete, WritesRaw
<1>3. \A d \in Dates, l \in Listings : fact[d][l] = BlankMetric
  BY DEF Init, NoRows
<1>4. \A f \in Fields : BlankMetric.source[f] # "report"
  BY DEF BlankMetric
<1>5. \A r \in Reports, d \in Dates : audit[r][d] = "none"
  BY DEF Init, NoVerdicts
<1>6. VerifiedFieldsAreReported
  BY <1>3, BlankIsTyped DEF VerifiedFieldsAreReported, Sound
<1>7. ReportValuesAreEvidence
  BY <1>3, <1>4 DEF ReportValuesAreEvidence
<1>8. AuditedIsPublished /\ AuditsTogether
  BY <1>5 DEF AuditedIsPublished, AuditsTogether, Passed
<1> QED BY <1>1, <1>2, <1>6, <1>7, <1>8 DEF IInv

Quiet == UNCHANGED <<fact, audit>>

Publishes(j) == pc[j] = "commit" /\ PersistBatch(j)

Rejects(r, d) == UNCHANGED fact /\ audit' = [audit EXCEPT ![r][d] = "failed"]

\* The imported reports stay, and facts and audits change in two ways.
LEMMA DatabaseSteps ==
  ASSUME TypeOK, [Next]_vars
  PROVE  /\ rawReport' = rawReport
         /\ \/ Quiet
            \/ \E j \in Jobs : Publishes(j)
            \/ \E r \in Reports, d \in Dates : Rejects(r, d)
<1>1. ASSUME NEW j \in Jobs,
             \/ Start(j) \/ StoreRaw(j) \/ SyncFails(j) \/ BuildFromSQL(j) \/ BuildFails(j)
             \/ Reconcile(j) \/ PublishNothing(j) \/ Lock(j) \/ CommitFails(j)
             \/ CommitRetries(j) \/ BackoffEnds(j) \/ BackoffCancelled(j) \/ Die(j)
      PROVE  rawReport' = rawReport /\ Quiet
  <2>1. UNCHANGED <<rawReport, fact, audit>>
    BY <1>1 DEF Start, StoreRaw, SyncFails, BuildFromSQL, BuildFails, Reconcile,
                PublishNothing, Lock, CommitFails, CommitRetries, BackoffEnds,
                BackoffCancelled, Die, database
  <2> QED BY <2>1 DEF Quiet
<1>2. ASSUME NEW j \in Jobs, Commit(j) \/ CommitUnanswered(j)
      PROVE  rawReport' = rawReport /\ Publishes(j)
  BY <1>2 DEF Commit, CommitUnanswered, Publishes, PersistBatch
<1>3. ASSUME NEW j \in Jobs, RejectReport(j)
      PROVE  /\ rawReport' = rawReport
             /\ Quiet \/ \E r \in Reports, d \in Dates : Rejects(r, d)
  <2>1. Report[j] \in Reports /\ next[j] \in Dates
    BY JobsAreTyped DEF TypeOK
  <2> QED BY <1>3, <2>1 DEF RejectReport, Quiet, Rejects
<1>4. CASE UNCHANGED vars
  BY <1>4 DEF vars, database, Quiet
<1> QED BY <1>1, <1>2, <1>3, <1>4 DEF Next, Work, Exhausted

\* What a published batch does to facts and audits.
LEMMA PublishedRows ==
  ASSUME TypeOK, JobsSound, NEW j \in Jobs, Publishes(j)
  PROVE  /\ \A d \in Dates, l \in Listings :
              Improves(fact[d][l], batch[j][d][l], fact'[d][l]) /\ Sound(batch[j][d][l])
         /\ \A d \in Dates : audit'[Report[j]][d] =
              IF verdicts[j][d] = "none" THEN audit[Report[j]][d] ELSE verdicts[j][d]
         /\ \A r \in Reports : r # Report[j] => audit'[r] = audit[r]
<1>1. Backed(j) /\ fact' = PersistMetrics(batch[j])
  BY DEF JobsSound, JobSound, Publishes, PersistBatch
<1>2. \A d \in Dates, l \in Listings :
        Improves(fact[d][l], batch[j][d][l], fact'[d][l]) /\ Sound(batch[j][d][l])
  BY <1>1, PersistImproves DEF Backed
<1>3. Report[j] \in Reports
  BY JobsAreTyped
<1>4. audit' = PersistReconciliations(Report[j], verdicts[j])
  BY DEF Publishes, PersistBatch
<1>5. audit'[Report[j]] = [d \in Dates |->
        IF verdicts[j][d] = "none" THEN audit[Report[j]][d] ELSE verdicts[j][d]]
  BY <1>3, <1>4 DEF PersistReconciliations, TypeOK
<1>6. \A r \in Reports : r # Report[j] => audit'[r] = audit[r]
  BY <1>3, <1>4 DEF PersistReconciliations, TypeOK
<1> QED BY <1>2, <1>5, <1>6

LEMMA VerifiedStep ==
  ASSUME TypeOK, JobsSound, VerifiedFieldsAreReported, [Next]_vars
  PROVE  VerifiedFieldsAreReported'
<1>1. CASE UNCHANGED fact
  BY <1>1 DEF VerifiedFieldsAreReported
<1>2. ASSUME NEW j \in Jobs, Publishes(j) PROVE VerifiedFieldsAreReported'
  <2> SUFFICES ASSUME NEW d \in Dates, NEW l \in Listings
               PROVE  fact'[d][l].verifiedFields =
                        {f \in Fields : fact'[d][l].source[f] = "report"}
    BY DEF VerifiedFieldsAreReported
  <2>1. Improves(fact[d][l], batch[j][d][l], fact'[d][l]) /\ Sound(batch[j][d][l])
    BY <1>2, PublishedRows
  <2>2. \A f \in Fields : fact'[d][l].source[f] = "report" <=>
          fact[d][l].source[f] = "report" \/ batch[j][d][l].source[f] = "report"
    BY <2>1 DEF Improves
  <2>3. fact[d][l].verifiedFields = {f \in Fields : fact[d][l].source[f] = "report"}
    BY DEF VerifiedFieldsAreReported
  <2>4. batch[j][d][l].verifiedFields = {f \in Fields : batch[j][d][l].source[f] = "report"}
    BY <2>1 DEF Sound
  <2>5. fact'[d][l].verifiedFields = fact[d][l].verifiedFields \cup batch[j][d][l].verifiedFields
    BY <2>1 DEF Improves
  <2> QED BY <2>2, <2>3, <2>4, <2>5
<1> QED BY <1>1, <1>2, DatabaseSteps DEF Quiet, Rejects

\* Once a date has an audit of a report it always has one.
LEMMA AuditsStay ==
  ASSUME TypeOK, JobsSound, [Next]_vars, NEW r \in Reports, NEW d \in Dates,
         audit[r][d] # "none"
  PROVE  audit'[r][d] # "none"
<1>1. ASSUME NEW j \in Jobs, Publishes(j) PROVE audit'[r][d] # "none"
  BY <1>1, PublishedRows
<1>2. ASSUME NEW s \in Reports, NEW c \in Dates, Rejects(s, c) PROVE audit'[r][d] # "none"
  BY <1>2 DEF Rejects, TypeOK
<1> QED BY <1>1, <1>2, DatabaseSteps DEF Quiet

LEMMA EvidenceStep ==
  ASSUME TypeOK, JobsSound, ReportValuesAreEvidence, [Next]_vars
  PROVE  ReportValuesAreEvidence'
<1> SUFFICES ASSUME NEW d \in Dates, NEW l \in Listings, NEW f \in Fields,
                    fact'[d][l].source[f] = "report"
             PROVE  \E r \in Reports :
                      audit'[r][d] # "none" /\ rawReport'[r][d][l][f] = fact'[d][l].val[f]
  BY DEF ReportValuesAreEvidence
<1>1. CASE fact[d][l].source[f] = "report" /\ fact'[d][l].val[f] = fact[d][l].val[f]
  <2>1. PICK r \in Reports : audit[r][d] # "none" /\ rawReport[r][d][l][f] = fact[d][l].val[f]
    BY <1>1 DEF ReportValuesAreEvidence
  <2> QED BY <1>1, <2>1, AuditsStay, DatabaseSteps
<1>2. ASSUME NEW j \in Jobs, Publishes(j), batch[j][d][l].source[f] = "report"
      PROVE  \E r \in Reports :
               audit'[r][d] # "none" /\ rawReport'[r][d][l][f] = fact'[d][l].val[f]
  <2>1. /\ verdicts[j][d] # "none"
        /\ rawReport[Report[j]][d][l][f] = batch[j][d][l].val[f]
    BY <1>2 DEF JobsSound, JobSound, Backed
  <2>2. fact'[d][l].val[f] = batch[j][d][l].val[f] /\ audit'[Report[j]][d] # "none"
    BY <1>2, <2>1, PublishedRows DEF Improves
  <2>3. Report[j] \in Reports
    BY JobsAreTyped
  <2> QED BY <2>1, <2>2, <2>3, DatabaseSteps
<1>3. ASSUME NEW j \in Jobs, Publishes(j), batch[j][d][l].source[f] # "report"
      PROVE  fact[d][l].source[f] = "report" /\ fact'[d][l].val[f] = fact[d][l].val[f]
  <2>1. Improves(fact[d][l], batch[j][d][l], fact'[d][l])
    BY <1>3, PublishedRows
  <2> QED BY <1>3, <2>1 DEF Improves
<1> QED BY <1>1, <1>2, <1>3, DatabaseSteps DEF Quiet, Rejects

LEMMA PublishedStep ==
  ASSUME TypeOK, JobsSound, AuditedIsPublished, [Next]_vars
  PROVE  AuditedIsPublished'
<1> SUFFICES ASSUME NEW r \in Reports, NEW d \in Dates, NEW l \in Listings, NEW f \in Fields,
                    audit'[r][d] \in Passed, rawReport'[r][d][l][f] # Unknown
             PROVE  fact'[d][l].source[f] = "report"
  BY DEF AuditedIsPublished
<1>1. rawReport[r][d][l][f] # Unknown
  BY DatabaseSteps
<1>2. CASE audit[r][d] \in Passed
  <2>1. fact[d][l].source[f] = "report"
    BY <1>1, <1>2 DEF AuditedIsPublished
  <2>2. ASSUME NEW j \in Jobs, Publishes(j) PROVE fact'[d][l].source[f] = "report"
    BY <2>1, <2>2, PublishedRows DEF Improves
  <2> QED BY <2>1, <2>2, DatabaseSteps DEF Quiet, Rejects
<1>3. CASE audit[r][d] \notin Passed
  <2>1. PICK j \in Jobs : Publishes(j)
    <3>1. ASSUME NEW s \in Reports, NEW c \in Dates, Rejects(s, c) PROVE FALSE
      BY <1>3, <3>1 DEF Rejects, TypeOK, Passed
    <3> QED BY <1>3, <3>1, DatabaseSteps DEF Quiet
  <2>2. r = Report[j] /\ verdicts[j][d] # "none"
    BY <1>3, <2>1, PublishedRows
  <2>3. batch[j][d][l].source[f] = "report"
    BY <1>1, <2>2 DEF JobsSound, JobSound, Carries
  <2> QED BY <2>1, <2>3, PublishedRows DEF Improves
<1> QED BY <1>2, <1>3

LEMMA TogetherStep ==
  ASSUME TypeOK, JobsSound, AuditsTogether, [Next]_vars
  PROVE  AuditsTogether'
<1> SUFFICES ASSUME NEW r \in Reports, NEW c \in Dates, audit'[r][c] \in Passed,
                    NEW d \in Dates
             PROVE  audit'[r][d] # "none"
  BY DEF AuditsTogether
<1>1. CASE audit[r][c] \in Passed
  BY <1>1, AuditsStay DEF AuditsTogether
<1>2. CASE audit[r][c] \notin Passed
  <2>1. PICK j \in Jobs : Publishes(j)
    <3>1. ASSUME NEW s \in Reports, NEW e \in Dates, Rejects(s, e) PROVE FALSE
      BY <1>2, <3>1 DEF Rejects, TypeOK, Passed
    <3> QED BY <1>2, <3>1, DatabaseSteps DEF Quiet
  <2>2. r = Report[j] /\ verdicts[j][c] # "none"
    BY <1>2, <2>1, PublishedRows
  <2>3. verdicts[j][d] # "none"
    BY <2>1, <2>2 DEF JobsSound, JobSound, Carries, Complete, Publishes
  <2> QED BY <2>1, <2>2, <2>3, PublishedRows
<1> QED BY <1>1, <1>2

LEMMA IInvStep == IInv /\ [Next]_vars => IInv'
BY TypeStep, JobsStep, VerifiedStep, EvidenceStep, PublishedStep, TogetherStep DEF IInv

-----------------------------------------------------------------------------
(* Theorems *)

LEMMA InductiveInvariant == Spec => []IInv
BY InitSatisfiesIInv, IInvStep, PTL DEF Spec

\* Every variable keeps its type: attempts and dates stay in their bounds, and facts are
\* rows that Assemble and metricsUpsertSQL can make.
THEOREM TypeCorrect == Spec => []TypeOK
<1>1. IInv => TypeOK
  BY DEF IInv
<1> QED BY InductiveInvariant, <1>1, PTL

\* verified_fields lists the columns that show a report's value, for every number of
\* jobs and every order of their batches (JSON merge of buildMetricsUpsertSQL).
THEOREM VerifiedFieldsCorrect == Spec => []VerifiedFieldsAreReported
<1>1. IInv => VerifiedFieldsAreReported
  BY DEF IInv
<1> QED BY InductiveInvariant, <1>1, PTL

\* A value marked as a report's is one of a reconciled report (projectFormalReport).
THEOREM EvidenceCorrect == Spec => []ReportValuesAreEvidence
<1>1. IInv => ReportValuesAreEvidence
  BY DEF IInv
<1> QED BY InductiveInvariant, <1>1, PTL

\* An audit that passed is visible in the facts, with crashes between any two
\* statements and with lost answers of commits (persistBatchOnce).
THEOREM AuditedCorrect == Spec => []AuditedIsPublished
<1>1. IInv => AuditedIsPublished
  BY DEF IInv
<1> QED BY InductiveInvariant, <1>1, PTL

\* The audits of a report pass together, whatever becomes of the calls that
\* share the report (projectFormalReport).
THEOREM AuditsCorrect == Spec => []AuditsTogether
<1>1. IInv => AuditsTogether
  BY DEF IInv
<1> QED BY InductiveInvariant, <1>1, PTL

\* No step of any job makes a column less than it was (metricsUpsertSQL).
THEOREM ImprovementCorrect == Spec => FieldsOnlyImprove
<1> DEFINE Improvement ==
      \A d \in Dates, l \in Listings, f \in Fields :
        LET old == fact[d][l]
            new == fact'[d][l]
        IN /\ old.source[f] = "report" => new.source[f] = "report"
           /\ old.val[f] # Unknown => new.val[f] # Unknown
<1>1. IInv /\ [Next]_vars => [Improvement]_vars
  <2> SUFFICES ASSUME IInv, [Next]_vars, NEW d \in Dates, NEW l \in Listings, NEW f \in Fields
               PROVE  /\ fact[d][l].source[f] = "report" => fact'[d][l].source[f] = "report"
                      /\ fact[d][l].val[f] # Unknown => fact'[d][l].val[f] # Unknown
    OBVIOUS
  <2>1. ASSUME NEW j \in Jobs, Publishes(j)
        PROVE  Improves(fact[d][l], batch[j][d][l], fact'[d][l])
    BY <2>1, PublishedRows DEF IInv
  <2>2. fact' = fact \/ \E j \in Jobs : Publishes(j)
    BY DatabaseSteps DEF IInv, Quiet, Rejects
  <2> QED BY <2>1, <2>2 DEF Improves
<1> HIDE DEF Improvement
<1>2. Spec => [][Improvement]_vars
  BY InductiveInvariant, <1>1, PTL DEF Spec
<1> QED BY <1>2 DEF FieldsOnlyImprove, Improvement

-----------------------------------------------------------------------------
(* The mutex *)

Holding == {"commit", "backoff"}

\* publishMu of a process is held by the job that is in its transaction or pauses before
\* the next attempt, and by nobody else: no two jobs of a process publish at a time, and no
\* job that returned or died has left it locked (persistBatch, sql_store.go:74).
MutexIsHeld ==
  /\ \A j \in Jobs : pc[j] \in Holding => publishMu[Process[j]] = j
  /\ \A i \in Jobs : \A h \in Jobs :
       publishMu[Process[i]] = h => Process[h] = Process[i] /\ pc[h] \in Holding

\* A job that does not hold it, and goes on without it.
LEMMA MutexElsewhere ==
  ASSUME TypeOK, MutexIsHeld, NEW j \in Jobs, pc[j] \notin Holding,
         NEW label, label \notin Holding, pc' = [pc EXCEPT ![j] = label],
         publishMu' = publishMu
  PROVE  MutexIsHeld'
<1>1. \A i \in Jobs : pc'[i] \in Holding <=> pc[i] \in Holding BY DEF TypeOK
<1> QED BY <1>1 DEF MutexIsHeld

\* The holder gives it back.
LEMMA MutexReleased ==
  ASSUME TypeOK, MutexIsHeld, NEW j \in Jobs, pc[j] \in Holding,
         NEW label, label \notin Holding, pc' = [pc EXCEPT ![j] = label], Unlock(j)
  PROVE  MutexIsHeld'
<1>1. pc'[j] \notin Holding /\ \A i \in Jobs : i # j => pc'[i] = pc[i] BY DEF TypeOK
<1>2. \A i \in Jobs :
        publishMu'[Process[i]] =
          IF Process[i] = Process[j] THEN NoJob ELSE publishMu[Process[i]]
      BY DEF Unlock, TypeOK
<1>3. publishMu[Process[j]] = j BY DEF MutexIsHeld
<1>4. ASSUME NEW i \in Jobs, pc'[i] \in Holding PROVE publishMu'[Process[i]] = i
  <2>1. i # j /\ publishMu[Process[i]] = i BY <1>1, <1>4 DEF MutexIsHeld
  <2> QED BY <1>2, <1>3, <2>1
<1>5. ASSUME NEW i \in Jobs, NEW h \in Jobs, publishMu'[Process[i]] = h
      PROVE  Process[h] = Process[i] /\ pc'[h] \in Holding
  <2>1. Process[i] # Process[j] /\ publishMu[Process[i]] = h BY <1>2, <1>5, JobsAreTyped
  <2>2. Process[h] = Process[i] /\ pc[h] \in Holding BY <2>1 DEF MutexIsHeld
  <2> QED BY <1>1, <2>1, <2>2
<1> QED BY <1>4, <1>5 DEF MutexIsHeld

\* The holder keeps it.
LEMMA MutexKept ==
  ASSUME TypeOK, MutexIsHeld, NEW j \in Jobs, pc[j] \in Holding,
         NEW label \in Holding, Goto(j, label), publishMu' = publishMu
  PROVE  MutexIsHeld'
<1>1. \A i \in Jobs : pc'[i] \in Holding <=> pc[i] \in Holding BY DEF Goto, TypeOK
<1> QED BY <1>1 DEF MutexIsHeld

\* A job takes it, while nobody has it.
LEMMA MutexTaken ==
  ASSUME TypeOK, MutexIsHeld, NEW j \in Jobs, Lock(j)
  PROVE  MutexIsHeld'
<1>1. pc'[j] = "commit" /\ \A i \in Jobs : i # j => pc'[i] = pc[i]
      BY DEF Lock, Goto, TypeOK
<1>2. \A i \in Jobs :
        publishMu'[Process[i]] =
          IF Process[i] = Process[j] THEN j ELSE publishMu[Process[i]]
      BY DEF Lock, TypeOK
<1>3. publishMu[Process[j]] \notin Jobs BY JobsAreTyped DEF Lock
<1>4. ASSUME NEW i \in Jobs, pc'[i] \in Holding PROVE publishMu'[Process[i]] = i
  <2>1. CASE i = j BY <1>2, <2>1
  <2>2. CASE i # j
    <3>1. publishMu[Process[i]] = i BY <1>1, <1>4, <2>2 DEF MutexIsHeld
    <3> QED BY <1>2, <1>3, <3>1
  <2> QED BY <2>1, <2>2
<1>5. ASSUME NEW i \in Jobs, NEW h \in Jobs, publishMu'[Process[i]] = h
      PROVE  Process[h] = Process[i] /\ pc'[h] \in Holding
  <2>1. CASE Process[i] = Process[j] BY <1>1, <1>2, <1>5, <2>1 DEF Holding
  <2>2. CASE Process[i] # Process[j]
    <3>1. Process[h] = Process[i] /\ pc[h] \in Holding
          BY <1>2, <1>5, <2>2 DEF MutexIsHeld
    <3> QED BY <1>1, <2>2, <3>1
  <2> QED BY <2>1, <2>2
<1> QED BY <1>4, <1>5 DEF MutexIsHeld

\* A process dies, and its mutex with it.
LEMMA MutexDies ==
  ASSUME TypeOK, MutexIsHeld, NEW j \in Jobs, Die(j)
  PROVE  MutexIsHeld'
<1>1. \A i \in Jobs : pc'[i] = IF Process[i] = Process[j] THEN "idle" ELSE pc[i]
      BY DEF Die
<1>2. \A i \in Jobs :
        publishMu'[Process[i]] =
          IF Process[i] = Process[j] THEN NoJob ELSE publishMu[Process[i]]
      BY DEF Die, Unlock, TypeOK
<1>3. ASSUME NEW i \in Jobs, pc'[i] \in Holding PROVE publishMu'[Process[i]] = i
  <2>1. Process[i] # Process[j] /\ pc[i] \in Holding BY <1>1, <1>3 DEF Holding
  <2> QED BY <1>2, <2>1 DEF MutexIsHeld
<1>4. ASSUME NEW i \in Jobs, NEW h \in Jobs, publishMu'[Process[i]] = h
      PROVE  Process[h] = Process[i] /\ pc'[h] \in Holding
  <2>1. Process[i] # Process[j] /\ publishMu[Process[i]] = h BY <1>2, <1>4, JobsAreTyped
  <2>2. Process[h] = Process[i] /\ pc[h] \in Holding BY <2>1 DEF MutexIsHeld
  <2> QED BY <1>1, <2>1, <2>2
<1> QED BY <1>3, <1>4 DEF MutexIsHeld

\* Where a job goes that publishes nothing, or has published.
LEMMA ProceedGoesOn ==
  ASSUME NEW j \in Jobs, Proceed(j)
  PROVE  \E label \in {"idle", "read"} : pc' = [pc EXCEPT ![j] = label]
BY DEF Proceed, Return, Goto

LEMMA MutexStep ==
  ASSUME TypeOK, MutexIsHeld, [Next]_vars
  PROVE  MutexIsHeld'
<1>1. ASSUME NEW j \in Jobs,
             \/ Start(j) \/ StoreRaw(j) \/ SyncFails(j) \/ BuildFromSQL(j) \/ BuildFails(j)
             \/ Reconcile(j) \/ RejectReport(j) \/ PublishNothing(j)
      PROVE  MutexIsHeld'
  <2>1. pc[j] \notin Holding
        BY <1>1 DEF Start, StoreRaw, SyncFails, BuildFromSQL, BuildFails, Reconcile,
             RejectReport, PublishNothing, Holding
  <2>2. publishMu' = publishMu
        BY <1>1 DEF Start, StoreRaw, SyncFails, BuildFromSQL, BuildFails, Reconcile,
             RejectReport, PublishNothing
  <2>3. \E label \in {"idle", "write", "read", "lock"} : pc' = [pc EXCEPT ![j] = label]
    <3>1. CASE PublishNothing(j) BY <3>1, ProceedGoesOn DEF PublishNothing
    <3>2. CASE pc' = pc
      <4>1. pc' = [pc EXCEPT ![j] = pc[j]] BY <3>2 DEF TypeOK
      <4>2. pc[j] \in {"idle", "write", "read", "lock"} BY <2>1 DEF TypeOK, Holding
      <4> QED BY <4>1, <4>2
    <3> QED BY <1>1, <3>1, <3>2 DEF Start, StoreRaw, SyncFails, BuildFromSQL, BuildFails,
          Reconcile, RejectReport, BuildNext, Return, Goto
  <2> QED BY <2>1, <2>2, <2>3, MutexElsewhere DEF Holding
<1>2. ASSUME NEW j \in Jobs,
             Commit(j) \/ CommitUnanswered(j) \/ CommitFails(j) \/ BackoffCancelled(j)
      PROVE  MutexIsHeld'
  <2>1. pc[j] \in Holding /\ Unlock(j)
        BY <1>2 DEF Commit, CommitUnanswered, CommitFails, BackoffCancelled, Holding
  <2>2. \E label \in {"idle", "read"} : pc' = [pc EXCEPT ![j] = label]
        BY <1>2, ProceedGoesOn DEF Commit, CommitUnanswered, CommitFails,
             BackoffCancelled, Return, Goto
  <2> QED BY <2>1, <2>2, MutexReleased DEF Holding
<1>3. ASSUME NEW j \in Jobs, CommitRetries(j) \/ BackoffEnds(j) PROVE MutexIsHeld'
  <2>1. pc[j] \in Holding /\ publishMu' = publishMu
        BY <1>3 DEF CommitRetries, BackoffEnds, Holding
  <2>2. Goto(j, "commit") \/ Goto(j, "backoff") BY <1>3 DEF CommitRetries, BackoffEnds
  <2> QED BY <2>1, <2>2, MutexKept DEF Holding
<1>4. CASE UNCHANGED vars BY <1>4 DEF vars, jobVars, MutexIsHeld
<1> QED BY <1>1, <1>2, <1>3, <1>4, MutexTaken, MutexDies DEF Next, Work, Exhausted

\* Every job that publishes holds the mutex of its process alone, and the mutex is never
\* left locked by a job that is not publishing (persistBatch).
THEOREM MutexIsNeverLeft == Spec => []MutexIsHeld
<1>1. Init => MutexIsHeld
  <2> SUFFICES ASSUME Init PROVE MutexIsHeld OBVIOUS
  <2>1. \A j \in Jobs : pc[j] \notin Holding /\ publishMu[Process[j]] = NoJob
        BY DEF Init, Holding
  <2> QED BY <2>1, JobsAreTyped DEF MutexIsHeld
<1>2. IInv /\ MutexIsHeld /\ [Next]_vars => MutexIsHeld' BY MutexStep DEF IInv
<1> QED BY InductiveInvariant, <1>1, <1>2, PTL DEF Spec

=============================================================================
