------------------------------ MODULE DatasetFeed ------------------------------
(***************************************************************************)
(* The dataset API: a downstream project takes a snapshot of one store and *)
(* date range page by page and then follows the changes, while syncs go on *)
(* writing the tables it reads.                                            *)
(*                                                                         *)
(* An operator may export the same rows as a file instead: one request, in *)
(* which the server turns the pages itself.                                *)
(*                                                                         *)
(* The server keeps no session.  Rows are ordered by the time MySQL stamped *)
(* them and then by their stable key; a page is what follows the cursor,   *)
(* and the cursor is the last row of the page.  The stamp is taken when a  *)
(* statement runs, the row is visible when its transaction commits.        *)
(***************************************************************************)
EXTENDS Naturals, FiniteSets

CONSTANTS
  Key,        \* stable keys of dataset rows, in order
  Sources,    \* the table rows, each the set of keys it is read as: several
              \* for an order or a purchase order with line items
  Ranges,     \* the scopes (store and dates) a project may ask for, as sets of keys
  Writers,    \* connections that write the tables
  PageSize,   \* page_size of the requests
  MaxNow,     \* bound of the model: ticks of the clock
  MaxWrites,  \* bound of the model: statements
  MaxReads,   \* bound of the model: snapshots that are begun
  Top,        \* a key after all others
  None,       \* no row, no cursor, no request
  NoWrite     \* a row a transaction has not written

ASSUME FeedAssumption ==
  /\ Key \subseteq Nat \ {0} /\ IsFiniteSet(Key)
  /\ Top \in Nat /\ \A k \in Key : k < Top
  /\ UNION Sources = Key
  /\ \A s, t \in Sources : s # t => s \cap t = {}
  /\ Ranges \subseteq SUBSET Key
  /\ PageSize \in Nat \ {0}
  /\ MaxNow \in Nat /\ MaxWrites \in Nat /\ MaxReads \in Nat

VARIABLES
  now,        \* the clock, in the unit of the stamps (a second or a microsecond)
  table,      \* the committed rows
  open,       \* what each open transaction has written, as it will be committed
  writes,     \* statements so far: each gives its rows a version of its own
  lines,      \* the dataset is read as line items of its table rows
  range,      \* the scope of the snapshot the project took last
  cursor,     \* the cursor the project holds
  request,    \* the request the server is working on
  copy,       \* the version of each row the project holds, 0 for none
  before,     \* the rows of the range that were there when the snapshot began, less those deleted since
  late,       \* rows committed behind the cursor of the project
  reads       \* snapshots begun

tableVars   == <<now, table, open, writes>>
projectVars == <<cursor, copy, range, before, reads>>
vars == <<tableVars, lines, projectVars, request, late>>

Row == [stamp : 0..MaxNow, ver : 1..MaxWrites]

\* A place in the order of rows: the key of a CursorKey is a stable key, 0 is the
\* InitialCursor of a watermark, and Top a watermark that lies inside the tick: it
\* has nanoseconds and the stamps of the tick are truncated.
Place == [stamp : 0..MaxNow, key : Nat]

After(x, y) == x.stamp > y.stamp \/ (x.stamp = y.stamp /\ x.key > y.key)

At(t, k) == [stamp |-> t[k].stamp, key |-> k]

Envelope == [kind : {"snapshot"}, scope : Ranges, key : Place, watermark : Place]
            \cup [kind : {"changes"}, key : Place] \cup [kind : {"file"}]
Request  == [kind : {"snapshot"}, scope : Ranges, key : Place \cup {None}, watermark : Place]
            \cup [kind : {"changes"}, key : Place]
            \cup [kind : {"export"}, scope : Ranges, key : Place \cup {None}]

ASSUME NoneAssumption ==
  /\ None \notin Row /\ None \notin Place /\ None \notin Envelope /\ None \notin Request
  /\ NoWrite \notin Row /\ NoWrite # None

Rows(t) == {k \in Key : t[k] # None}

TypeOK ==
  /\ now \in 0..MaxNow /\ writes \in 0..MaxWrites /\ reads \in 0..MaxReads
  /\ table \in [Key -> Row \cup {None}]
  /\ open \in [Writers -> [Key -> Row \cup {None, NoWrite}]]
  /\ lines \in BOOLEAN
  /\ range \in Ranges
  /\ cursor \in Envelope \cup {None} /\ request \in Request \cup {None}
  /\ copy \in [Key -> 0..MaxWrites]
  /\ before \in SUBSET Key /\ late \in SUBSET Key

-----------------------------------------------------------------------------
(* Reading a page *)

Selected(q) == IF q.kind = "changes" THEN Key ELSE q.scope

\* Faulty variant: the row of the cursor is read again.
KeysetRowsAgain(t, q) ==
  {k \in Rows(t) : k \in Selected(q) /\ (q.key # None => ~After(q.key, At(t, k)))}

\* SQLReader and DetailSQLReader: the keyset condition is part of the query.
KeysetRows(t, q) ==
  {k \in Rows(t) : k \in Selected(q) /\ (q.key # None => After(At(t, k), q.key))}

\* The readers of line items: the query takes every table row that is not older
\* than the cursor, and the lines up to the cursor are passed over afterwards.
LineRows(t, q) ==
  LET recent == {s \in Sources : \A k \in s \cap Rows(t) : q.key # None => t[k].stamp >= q.key.stamp}
  IN {k \in UNION recent : /\ t[k] # None /\ k \in Selected(q)
                           /\ q.key # None => After(At(t, k), q.key)}

Found(t, q) == IF lines THEN LineRows(t, q) ELSE KeysetRows(t, q)

\* The first PageSize of them in the order of the cursor.
PageOf(t, found) ==
  {k \in found : Cardinality({j \in found : After(At(t, k), At(t, j))}) < PageSize}

Last(t, page) == CHOOSE k \in page : \A j \in page : ~After(At(t, j), At(t, k))

\* Faulty variant: the next cursor is the first row that did not fit.
NextAfterPage(t, q) ==
  LET found == Found(t, q)
      rest  == found \ PageOf(t, found)
  IN IF rest # {} THEN At(t, CHOOSE k \in rest : \A j \in rest : ~After(At(t, k), At(t, j)))
     ELSE IF found # {} THEN At(t, Last(t, found)) ELSE q.key

\* Where the next page begins: after the last row of this one.
NextKey(t, q) ==
  LET page == PageOf(t, Found(t, q))
  IN IF page = {} THEN q.key ELSE At(t, Last(t, page))

HasMore(t, q) == Found(t, q) # PageOf(t, Found(t, q))

\* The cursor of the answer: of the next page, or of the changes from now on.
response(t, q) ==
  IF q.kind = "changes" THEN [kind |-> "changes", key |-> NextKey(t, q)]
  ELSE IF HasMore(t, q)
       THEN [kind |-> "snapshot", scope |-> q.scope, key |-> NextKey(t, q), watermark |-> q.watermark]
       ELSE [kind |-> "changes", key |-> q.watermark]

-----------------------------------------------------------------------------
(* What is still to come *)

\* A row at this place is read by a later request of the project, if it goes on.
Ahead(x, c, q, g) ==
  IF q # None /\ q.kind = "snapshot"
  THEN After(x, q.watermark) \/ (x.key \in g /\ (q.key # None => After(x, q.key)))
  ELSE IF q # None /\ q.kind = "export"
  THEN x.key \in g /\ (q.key # None => After(x, q.key))
  ELSE IF c = None THEN TRUE
  ELSE \/ c.kind = "changes" /\ After(x, c.key)
       \/ c.kind = "snapshot" /\ (After(x, c.watermark) \/ (x.key \in g /\ After(x, c.key)))

Coming(x) == Ahead(x, cursor, request, range)

-----------------------------------------------------------------------------
(* The tables.  External: MySQL; the statements are those of the syncs, of the *)
(* projections and of the replacement of an ad partition.                      *)

Untouched == [k \in Key |-> NoWrite]

Init ==
  /\ now = 0 /\ writes = 0
  /\ table = [k \in Key |-> None]
  /\ open = [w \in Writers |-> Untouched]
  /\ lines \in BOOLEAN
  /\ range \in Ranges
  /\ cursor = None /\ request = None
  /\ copy = [k \in Key |-> 0]
  /\ before = {} /\ late = {} /\ reads = 0

Tick ==
  /\ now < MaxNow /\ now' = now + 1
  /\ UNCHANGED <<table, open, writes, lines, projectVars, request, late>>

\* What a transaction has written when a statement has written s, with these items.
Rewritten(rows, s, items, row) ==
  [k \in Key |-> IF k \notin s THEN rows[k] ELSE IF k \in items THEN row ELSE None]

\* A statement of a transaction writes a table row, with the items it has now (none:
\* it is deleted).  The row is locked until the transaction ends.
Statement(w) ==
  /\ writes < MaxWrites /\ writes' = writes + 1
  /\ \E s \in Sources, items \in SUBSET Key :
       /\ items \subseteq s
       /\ \A v \in Writers \ {w}, k \in s : open[v][k] = NoWrite
       /\ open' = [open EXCEPT ![w] = Rewritten(open[w], s, items, [stamp |-> now, ver |-> writes'])]
  /\ UNCHANGED <<now, table, lines, projectVars, request, late>>

Written(w) == {k \in Key : open[w][k] # NoWrite}

Commit(w) ==
  /\ Written(w) # {}
  /\ table' = [k \in Key |-> IF k \in Written(w) THEN open[w][k] ELSE table[k]]
  /\ open' = [open EXCEPT ![w] = Untouched]
  /\ late' = (late \ Written(w)) \cup {k \in Written(w) : table'[k] # None /\ ~Coming(At(table', k))}
  /\ before' = before \ {k \in Written(w) : table'[k] = None}
  /\ UNCHANGED <<now, writes, lines, cursor, copy, range, reads, request>>

Rollback(w) ==
  /\ Written(w) # {}
  /\ open' = [open EXCEPT ![w] = Untouched]
  /\ UNCHANGED <<now, table, writes, lines, projectVars, request, late>>

-----------------------------------------------------------------------------
(* The requests *)

\* The first page of a snapshot: the server notes the time before it reads.
BeginSnapshot ==
  /\ request = None /\ reads < MaxReads
  /\ reads' = reads + 1
  /\ \E g \in Ranges, k \in {0, Top} :
       /\ range' = g
       /\ before' = g \cap Rows(table)
       /\ request' = [kind |-> "snapshot", scope |-> g, key |-> None, watermark |-> [stamp |-> now, key |-> k]]
  /\ cursor' = None /\ copy' = [k \in Key |-> 0] /\ late' = {}
  /\ UNCHANGED <<tableVars, lines>>

\* ExportCSV, asked for by an operator: no cursor is handed out.
apiExportDatasetCSV ==
  /\ request = None /\ reads < MaxReads
  /\ reads' = reads + 1
  /\ \E g \in Ranges :
       /\ range' = g
       /\ before' = g \cap Rows(table)
       /\ request' = [kind |-> "export", scope |-> g, key |-> None]
  /\ cursor' = None /\ copy' = [k \in Key |-> 0] /\ late' = {}
  /\ UNCHANGED <<tableVars, lines>>

\* Faulty variant: the scope of the cursor is not compared.
DecodeAnyScope(c, kind, g) == c # None /\ c.kind = kind

\* decodeCursor: a cursor continues only what it was issued for.
decodeCursor(c, kind, g) == c # None /\ c.kind = kind /\ (kind = "snapshot" => c.scope = g)

\* Any other request: the cursor the project holds, with whatever scope it sends; one
\* that does not fit is refused, which changes nothing.
Continue ==
  /\ request = None
  /\ \/ \E g \in Ranges :
          /\ decodeCursor(cursor, "snapshot", g)
          /\ request' = [kind |-> "snapshot", scope |-> g, key |-> cursor.key, watermark |-> cursor.watermark]
     \/ /\ decodeCursor(cursor, "changes", range)
        /\ request' = [kind |-> "changes", key |-> cursor.key]
  /\ UNCHANGED <<tableVars, lines, projectVars, late>>

\* What the reader of a page then holds.
Received == [k \in Key |-> IF k \in PageOf(table, Found(table, request)) THEN table[k].ver ELSE copy[k]]

\* The export goes on with the page after this one, until the file is complete.
ExportCSV ==
  /\ request # None /\ request.kind = "export"
  /\ copy' = Received
  /\ IF HasMore(table, request)
     THEN request' = [request EXCEPT !.key = NextKey(table, request)] /\ UNCHANGED cursor
     ELSE request' = None /\ cursor' = [kind |-> "file"]
  /\ UNCHANGED <<tableVars, lines, range, before, reads, late>>

\* The reader runs its query and the project receives the page.
Answer ==
  /\ request # None /\ request.kind # "export"
  /\ copy' = Received
  /\ cursor' = response(table, request)
  /\ request' = None
  /\ UNCHANGED <<tableVars, lines, range, before, reads, late>>

\* The query fails or the answer is lost: the project asks again with the cursor it
\* has.  A first page that is lost, or an export that fails, leaves nothing behind
\* on either side, like one that was not begun.
AnswerLost ==
  /\ request # None /\ cursor # None
  /\ request' = None
  /\ UNCHANGED <<tableVars, lines, projectVars, late>>

Next ==
  \/ Tick
  \/ \E w \in Writers : Statement(w) \/ Commit(w) \/ Rollback(w)
  \/ BeginSnapshot \/ Continue \/ Answer \/ AnswerLost
  \/ apiExportDatasetCSV \/ ExportCSV

Spec == Init /\ [][Next]_vars

\* A project that has begun goes on asking, and not every answer is lost; an export
\* runs on.
FairSpec == Spec /\ WF_vars(Continue) /\ SF_vars(Answer) /\ WF_vars(ExportCSV)

-----------------------------------------------------------------------------
(* Properties *)

\* What the project has read past it holds in its newest version, over pages, lost
\* answers and rows that move to the end while it reads, unless the row was
\* committed behind its cursor.
CopyIsCurrent ==
  \A k \in range : table[k] # None /\ k \notin late /\ ~Coming(At(table, k)) => copy[k] = table[k].ver

\* A finished snapshot or exported file holds every row that was there when it began, whatever was
\* written meanwhile and whenever that was committed.
SnapshotIsComplete ==
  cursor # None /\ cursor.kind \in {"changes", "file"} => \A k \in before : copy[k] # 0

\* A project that goes on asking, or an export, comes to hold the newest version of
\* every row, those committed behind its cursor excepted.
FeedCatchesUp ==
  reads > 0 ~> \A k \in range : table[k] # None /\ k \notin late => copy[k] = table[k].ver

\* A project that has read everything there is to read holds what the tables hold.
ChangesMissNothing ==
  cursor # None /\ cursor.kind = "changes" /\ (\A k \in Rows(table) : ~Coming(At(table, k)))
    => \A k \in range \cap Rows(table) : copy[k] = table[k].ver
=============================================================================
