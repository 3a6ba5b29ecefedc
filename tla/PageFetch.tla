------------------------------- MODULE PageFetch -------------------------------
(***************************************************************************)
(* How one parameter set of an endpoint is fetched and stored: the paging  *)
(* loop of the worker, its retries, and the three ways in which rows reach *)
(* the database: page by page, as a whole advertising partition, and as    *)
(* the details of known orders in batches.                                 *)
(*                                                                         *)
(* The upstream is a sequence of rows that may change between two answers, *)
(* may ignore the offset and may state any total or has_more.  The task    *)
(* may be cancelled and the process may die at any step.                   *)
(***************************************************************************)
EXTENDS Naturals, Sequences, FiniteSets

CONSTANTS
  Key,        \* stable keys of rows
  Upstreams,  \* what the upstream may hold at first
  PageSize,   \* rows asked for with one request, and orders of one batch
  MaxPages,   \* maxPagesPerSync
  None,       \* no such field in an answer, no total yet
  MaxRuns,    \* bound of the model: fetches
  MaxChanges, \* bound of the model: changes of the upstream
  MaxLies     \* bound of the model: answers that are not what the upstream holds

VARIABLES
  mode,       \* how the endpoint stores what it fetches
  signals,    \* the paging fields this endpoint answers with
  upstream,   \* the rows of the upstream, in its order
  base,       \* those rows when the fetch began, or the orders to get details of
  pc,
  offset, pages, attempt,
  expected,   \* total of the first page
  buffer,     \* rows of an advertising partition that is not complete yet
  cancelled,
  now, started,  \* database clock in seconds, and its value when the task began
  table,      \* the second in which each row was last written, 0 for none
  snapshot,   \* rows of the inventory snapshot of the day
  got,        \* rows this fetch stored
  lies, shrank, grew,  \* what the upstream did during this fetch
  fresh,      \* nothing was written in this second when the task began
  runs, changes

loopVars == <<offset, pages, attempt, expected, buffer>>
dataVars == <<table, got>>
noteVars == <<lies, shrank, grew, fresh, runs, changes>>
taskVars == <<mode, signals, base, now, started>>
vars == <<taskVars, upstream, pc, loopVars, cancelled, dataVars, snapshot, noteVars>>

\* bare: no key; other: FBM, not part of an FBA inventory; odd: unknown channel.
Row == [key : Key, kind : {"good", "other", "bare", "odd"}]

ASSUME FetchAssumption ==
  /\ Key \subseteq Nat /\ IsFiniteSet(Key)
  /\ \A u \in Upstreams : u \in Seq(Row)
  /\ PageSize \in Nat \ {0} /\ MaxPages \in Nat \ {0}
  /\ MaxRuns \in Nat /\ MaxChanges \in Nat /\ MaxLies \in Nat
  /\ None \notin Nat \cup BOOLEAN

\* orders and po: the details of known orders, of sales orders in batches and of
\* vendor purchase orders one by one.
Details == {"orders", "po"}
Modes   == {"plain", "inventory", "ad", "probe"} \cup Details
Active  == {"head", "wait", "call", "backoff", "replace", "capture"}
Ended   == {"idle", "done", "failed"}

TypeOK ==
  /\ mode \in Modes /\ signals \subseteq {"total", "more"}
  /\ upstream \in Seq(Row) /\ base \in Seq(Row)
  /\ pc \in Active \cup Ended
  /\ offset \in Nat /\ pages \in 0..MaxPages /\ attempt \in 0..5
  /\ expected \in Nat \cup {None}
  /\ buffer \in Seq(Row)
  /\ cancelled \in BOOLEAN
  /\ now \in Nat /\ started \in Nat
  /\ table \in [Key -> Nat]
  /\ snapshot \subseteq Key /\ got \subseteq Key
  /\ lies \in Nat /\ shrank \in BOOLEAN /\ grew \in BOOLEAN /\ fresh \in BOOLEAN
  /\ runs \in Nat /\ changes \in Nat

Keys(rows) == {rows[i].key : i \in 1..Len(rows)}

-----------------------------------------------------------------------------
(* Answers.  External: what the upstream may say. *)

\* Any stretch of rows with any total and has_more: fields it does not have are None.
Answers ==
  {[rows |-> SubSeq(upstream, i + 1, j), total |-> t, more |-> m] :
     i \in 0..Len(upstream), j \in 0..Len(upstream),
     t \in IF "total" \in signals THEN 0..Len(upstream) + 1 ELSE {None},
     m \in IF "more" \in signals THEN BOOLEAN ELSE {None}}

\* The rows from the offset on (a page may be short), the number of rows, and
\* whether more follow.
Honest(a) ==
  /\ a.rows = <<>> \/ (/\ offset + Len(a.rows) <= Len(upstream)
                      /\ a.rows = SubSeq(upstream, offset + 1, offset + Len(a.rows)))
  /\ offset < Len(upstream) => a.rows # <<>>
  /\ a.total # None => a.total = Len(upstream)
  /\ a.more # None => (a.more <=> offset + Len(a.rows) < Len(upstream))

Answered(a) ==
  /\ Len(a.rows) <= PageSize
  /\ lies' = IF Honest(a) THEN lies ELSE lies + 1
  /\ lies' <= MaxLies

-----------------------------------------------------------------------------
(* Decisions about a page *)

\* Faulty variant: rows that were filtered out do not count, an empty rest ends the paging.
PagingByKept(a, fetched) ==
  /\ \E i \in 1..Len(a.rows) : a.rows[i].kind = "good"
  /\ IF a.more # None THEN a.more ELSE a.total # None /\ a.total > 0 /\ fetched < a.total

shouldContinuePaging(a, fetched) ==
  /\ a.rows # <<>>
  /\ IF a.more # None THEN a.more ELSE a.total # None /\ a.total > 0 /\ fetched < a.total

\* Faulty variant: a page that ends too early is accepted.
AdPageUnbounded(a, fetched, total) ==
  a.total # None /\ a.total = total /\ fetched <= a.total

\* total is present, does not change, and agrees with has_more and with the rows so far.
validateAdPage(a, fetched, total) ==
  /\ a.total # None /\ a.total = total
  /\ IF a.total = 0
     THEN a.rows = <<>> /\ fetched = 0 /\ a.more # TRUE
     ELSE /\ fetched <= a.total
          /\ a.rows = <<>> => fetched = a.total
          /\ a.more # None => (a.more <=> fetched < a.total)

\* Every row has its key, and no key comes twice.
validateAdRows(rows) ==
  /\ \A i \in 1..Len(rows) : rows[i].kind # "bare"
  /\ Cardinality(Keys(rows)) = Len(rows)

\* What filterFBAInventoryRows keeps: FBA rows with a FNSKU.
Kept(rows) ==
  {rows[i].key : i \in {j \in 1..Len(rows) : mode = "inventory" => rows[j].kind = "good"}}

\* A page that is not stored: an unknown channel, a row without its key (refused
\* by the shaping or by the table), an advertising page that does not add up.
PageRefused(a) ==
  CASE mode = "inventory" -> \E i \in 1..Len(a.rows) : a.rows[i].kind = "odd"
    [] mode = "plain" -> \E i \in 1..Len(a.rows) : a.rows[i].kind = "bare"
    [] mode = "ad" -> ~validateAdPage(a, offset + Len(a.rows), IF expected = None THEN a.total ELSE expected)
    [] OTHER -> FALSE

-----------------------------------------------------------------------------
(* The fetch *)

Init ==
  /\ mode \in Modes
  /\ signals \in IF mode \in Details \cup {"probe"} THEN {{}} ELSE SUBSET {"total", "more"}
  /\ upstream \in Upstreams /\ base = <<>>
  /\ pc = "idle"
  /\ offset = 0 /\ pages = 0 /\ attempt = 0 /\ expected = None /\ buffer = <<>>
  /\ cancelled = FALSE
  /\ now = 1 /\ started = 1
  /\ table = [k \in Key |-> 0] /\ snapshot = {} /\ got = {}
  /\ lies = 0 /\ shrank = FALSE /\ grew = FALSE /\ fresh = TRUE
  /\ runs = 0 /\ changes = 0

\* doSync notes the time of the database; a second may have passed since the last task.
Start ==
  /\ pc \in Ended /\ runs < MaxRuns
  /\ pc' = "head" /\ runs' = runs + 1
  /\ now' \in {now, now + 1} /\ started' = now'
  /\ fresh' = (\A k \in Key : table[k] < now')
  /\ base' = upstream
  /\ offset' = 0 /\ pages' = 0 /\ attempt' = 0 /\ expected' = None /\ buffer' = <<>>
  /\ cancelled' = FALSE /\ got' = {}
  /\ lies' = 0 /\ shrank' = FALSE /\ grew' = FALSE
  /\ UNCHANGED <<mode, signals, upstream, table, snapshot, changes>>

Stops(how) ==
  /\ pc' = how
  /\ UNCHANGED <<taskVars, upstream, loopVars, cancelled, dataVars, snapshot, noteVars>>

\* The candidates are read from the table of orders before anything is asked for;
\* one without its identity fails the task.
CandidatesValid == mode \in Details => \A i \in 1..Len(base) : base[i].kind # "bare"

\* The window is not valid, the query fails or a candidate is not valid.
CandidatesFail == pc = "head" /\ mode \in Details /\ offset = 0 /\ Stops("failed")

AllDetails == mode \in Details /\ offset >= Len(base)

\* The head of the loop looks at the context.
LoopHead ==
  /\ pc = "head" /\ CandidatesValid
  /\ \/ AllDetails /\ Stops("done")
     \/ ~AllDetails /\ cancelled /\ Stops("failed")
     \/ ~AllDetails /\ ~cancelled /\ Stops("wait")

\* limiter.Wait lets the request through, or ends with the context.
Admit == pc = "wait" /\ (Stops("call") \/ (cancelled /\ Stops("failed")))

\* How a request of fetchOnce can fail; refused are wrong tokens and parameters, and
\* answers that cannot be read.
Failures == {"rateLimit", "temporary", "erpBusy", "serverError", "transport", "refused"}

\* Retries of each kind of failure.
RetryLimit ==
  [rateLimit |-> 5, temporary |-> 3, erpBusy |-> 2, serverError |-> 3, transport |-> 3, refused |-> 0]

\* retryDecision: all kinds of failure share one counter.
CallFails ==
  /\ pc = "call"
  /\ \E kind \in Failures :
       Stops(IF ~cancelled /\ attempt < RetryLimit[kind] THEN "backoff" ELSE "failed")

\* Faulty variant: the attempts are not counted.
BackoffUncounted ==
  /\ pc = "backoff" /\ pc' = "wait"
  /\ UNCHANGED <<taskVars, upstream, loopVars, cancelled, dataVars, snapshot, noteVars>>

\* The delay is over, or the context ends first.
Backoff ==
  /\ pc = "backoff"
  /\ \/ /\ pc' = "wait" /\ attempt' = attempt + 1
        /\ UNCHANGED <<taskVars, upstream, offset, pages, expected, buffer, cancelled, dataVars, snapshot, noteVars>>
     \/ cancelled /\ Stops("failed")

\* A probe keeps the first answer in the log and stores nothing.
ProbeAnswered ==
  /\ pc = "call" /\ mode = "probe"
  /\ \E a \in Answers :
       /\ Answered(a)
       /\ pc' = "done" /\ pages' = pages + 1
  /\ UNCHANGED <<taskVars, upstream, offset, attempt, expected, buffer, cancelled, dataVars,
                 snapshot, shrank, grew, fresh, runs, changes>>

\* The page is refused, or the database refuses its rows: the pages before it stay.
PageFails ==
  /\ pc = "call" /\ mode \in {"plain", "inventory", "ad"}
  /\ \E a \in Answers :
       /\ Answered(a)
       /\ PageRefused(a) \/ (mode # "ad" /\ Kept(a.rows) # {})
  /\ pc' = "failed"
  /\ UNCHANGED <<taskVars, upstream, loopVars, cancelled, dataVars, snapshot, shrank, grew, fresh, runs, changes>>

\* Faulty variant: rows are written, but the time of rows that did not change is left alone.
UpsertUntouched(rows) ==
  /\ table' = [k \in Key |-> IF k \in Kept(rows) /\ table[k] = 0 THEN now ELSE table[k]]
  /\ got' = got \cup Kept(rows)

\* UpsertRows: not part of a transaction that a later page could roll back.
UpsertRows(rows) ==
  /\ table' = [k \in Key |-> IF k \in Kept(rows) THEN now ELSE table[k]]
  /\ got' = got \cup Kept(rows)

AfterPage(a) ==
  IF ~shouldContinuePaging(a, offset + Len(a.rows))
  THEN (CASE mode = "ad" -> "replace" [] mode = "inventory" -> "capture" [] OTHER -> "done")
  ELSE IF pages + 1 >= MaxPages THEN "failed" ELSE "head"

\* The page is stored or buffered; the offset moves by the rows of the answer,
\* not by those that were kept.
PageKept ==
  /\ pc = "call" /\ mode \in {"plain", "inventory", "ad"}
  /\ \E a \in Answers :
       /\ Answered(a) /\ ~PageRefused(a)
       /\ IF mode = "ad"
          THEN /\ buffer' = buffer \o a.rows
               /\ expected' = IF expected = None THEN a.total ELSE expected
               /\ UNCHANGED dataVars
          ELSE UpsertRows(a.rows) /\ UNCHANGED <<buffer, expected>>
       /\ pc' = AfterPage(a)
       /\ offset' = offset + Len(a.rows)
  /\ pages' = pages + 1 /\ attempt' = 0
  /\ UNCHANGED <<taskVars, upstream, cancelled, snapshot, shrank, grew, fresh, runs, changes>>

-----------------------------------------------------------------------------
(* Advertising partitions *)

\* The keys are not valid, or the transaction is rolled back: a statement fails,
\* the rows counted in it are not those of the answer, or the context ends.
ReplaceFails == pc = "replace" /\ Stops("failed")

\* ReplaceAdPartition: the old rows go and the new ones come in one transaction.  The
\* count after the commit may still turn the fetch into a failed one.
ReplaceAdPartition ==
  /\ pc = "replace" /\ ~cancelled /\ validateAdRows(buffer)
  /\ table' = [k \in Key |-> IF k \in Keys(buffer) THEN now ELSE 0]
  /\ got' = Keys(buffer)
  /\ pc' \in {"done", "failed"}
  /\ UNCHANGED <<taskVars, upstream, loopVars, cancelled, snapshot, noteVars>>

-----------------------------------------------------------------------------
(* Inventory snapshots *)

\* The rows of the store that were written since the task began replace the
\* snapshot of the day, in one transaction.
CaptureFBAInventorySnapshots ==
  /\ pc = "capture"
  /\ snapshot' = {k \in Key : table[k] >= started}
  /\ pc' = "done"
  /\ UNCHANGED <<taskVars, upstream, loopVars, cancelled, dataVars, noteVars>>

\* The rest of the task fails, or the transaction does: a warning, no snapshot.
CaptureFails == pc = "capture" /\ Stops("done")

-----------------------------------------------------------------------------
(* Details of known orders *)

BatchSize == IF mode = "po" THEN 1 ELSE PageSize

Batch == Keys(SubSeq(base, offset + 1, IF offset + BatchSize <= Len(base) THEN offset + BatchSize ELSE Len(base)))

\* shapeSalesOrderDetailRows: nothing that was not asked for, nothing missing; of
\* fetchVCPODetail: one object, stored under the number that was asked for.
DetailsMatch(answered) == answered = Batch

DetailsFail ==
  /\ pc = "call" /\ mode \in Details
  /\ Stops("failed")

DetailsKept ==
  /\ pc = "call" /\ mode \in Details
  /\ \E answered \in SUBSET Key :
       /\ DetailsMatch(answered)
       /\ table' = [k \in Key |-> IF k \in answered THEN now ELSE table[k]]
       /\ got' = got \cup answered
  /\ offset' = offset + BatchSize
  /\ pc' = "head" /\ attempt' = 0
  /\ UNCHANGED <<taskVars, upstream, pages, expected, buffer, cancelled, snapshot, noteVars>>

-----------------------------------------------------------------------------
(* Around the fetch *)

Cancel ==
  /\ pc \in Active /\ ~cancelled
  /\ cancelled' = TRUE
  /\ UNCHANGED <<taskVars, upstream, pc, loopVars, dataVars, snapshot, noteVars>>

\* The process dies; what was committed stays.
Die ==
  /\ pc \in Active
  /\ pc' = "idle"
  /\ offset' = 0 /\ pages' = 0 /\ attempt' = 0 /\ expected' = None /\ buffer' = <<>>
  /\ cancelled' = FALSE /\ got' = {}
  /\ lies' = 0 /\ shrank' = FALSE /\ grew' = FALSE
  /\ UNCHANGED <<taskVars, upstream, table, snapshot, fresh, runs, changes>>

\* External: a row comes or goes.  For a fetch only what happens between two answers matters.
Without(i) == SubSeq(upstream, 1, i - 1) \o SubSeq(upstream, i + 1, Len(upstream))
With(i, k) == SubSeq(upstream, 1, i) \o <<[key |-> k, kind |-> "good"]>> \o SubSeq(upstream, i + 1, Len(upstream))

ChangeUpstream ==
  /\ changes < MaxChanges /\ changes' = changes + 1
  /\ pc \in Ended \/ (pc = "call" /\ pages > 0)
  /\ \/ /\ \E i \in 1..Len(upstream) : upstream' = Without(i)
        /\ shrank' = TRUE /\ UNCHANGED grew
     \/ /\ \E i \in 0..Len(upstream), k \in Key \ Keys(upstream) : upstream' = With(i, k)
        /\ grew' = TRUE /\ UNCHANGED shrank
  /\ UNCHANGED <<taskVars, pc, loopVars, cancelled, dataVars, snapshot, lies, fresh, runs>>

Work ==
  \/ CandidatesFail \/ LoopHead \/ Admit \/ CallFails \/ Backoff
  \/ ProbeAnswered \/ PageFails \/ PageKept
  \/ ReplaceFails \/ ReplaceAdPartition
  \/ CaptureFBAInventorySnapshots \/ CaptureFails
  \/ DetailsFail \/ DetailsKept

Next == Start \/ Work \/ Cancel \/ Die \/ ChangeUpstream

Spec == Init /\ [][Next]_vars

\* The limiter lets every request through in the end, a request ends with the timeout of
\* the HTTP client at the latest, and the database answers.
FairSpec == Spec /\ WF_vars(Work)

-----------------------------------------------------------------------------
(* Properties *)

\* An advertising partition changes only to as many distinct rows as every page
\* of the answer said there are; and these are the rows of the upstream unless
\* an answer was false, or rows came and went between the pages without changing
\* the total.
PartitionIsWhole ==
  [][mode = "ad" /\ table' # table =>
       LET held == {k \in Key : table'[k] # 0}
       IN /\ Cardinality(held) = expected
          /\ lies = 0 /\ ~(shrank /\ grew) => held = Keys(upstream)]_vars

\* A fetch that succeeds has stored every row with a key that was there when it began,
\* although rows came in between, pages were short or full of rows that are not
\* stored; provided that the answers were true, carried total or has_more, and no row
\* went away.  Details are complete whatever the upstream answers.
SuccessIsComplete ==
  /\ pc \in {"done", "capture"} /\ mode \in {"plain", "inventory", "ad"} /\ signals # {} /\ lies = 0 /\ ~shrank
       => \A k \in Kept(base) : table[k] >= started
  /\ pc = "done" /\ mode \in Details => \A k \in Keys(base) : table[k] >= started

\* An inventory snapshot holds the rows of one successful fetch and no row that was
\* left by an earlier one, unless the task began in the second of the last write.
SnapshotIsOneFetch ==
  [][snapshot' # snapshot /\ fresh => snapshot' = got]_vars

\* Every fetch ends, whatever the upstream answers and however its answers fail.
FetchEnds == []<>(pc \in Ended)
=============================================================================
