--------------------------- MODULE DatasetFeedProofs ---------------------------
(***************************************************************************)
(* Proofs about DatasetFeed, for any rows, line items, scopes and page     *)
(* size, any number of writers, and requests and commits in any order.     *)
(***************************************************************************)
EXTENDS DatasetFeed, FiniteSetTheorems, TLAPS

-----------------------------------------------------------------------------
(* The inductive invariant *)

\* A row that a transaction has written is locked until it ends.
Locks ==
  \A v, w \in Writers : v # w => \A k \in Key : open[v][k] = NoWrite \/ open[w][k] = NoWrite

\* No stamp is ahead of the clock, and a row that is committed again moves on.
Stamps ==
  \A k \in Key :
    /\ table[k] # None => table[k].stamp <= now
    /\ \A w \in Writers : open[w][k] \notin {None, NoWrite} =>
         /\ open[w][k].stamp <= now
         /\ table[k] # None => table[k].stamp <= open[w][k].stamp

\* The line items of a table row carry its stamp.
Together(t) ==
  \A s \in Sources : \A j, k \in s :
    t[j] \notin {None, NoWrite} /\ t[k] \notin {None, NoWrite} => t[j].stamp = t[k].stamp

\* They are written together.
Joint ==
  /\ Together(table)
  /\ \A w \in Writers :
       /\ Together(open[w])
       /\ \A s \in Sources : \A j, k \in s : open[w][j] = NoWrite => open[w][k] = NoWrite

\* A request continues what the cursor of the project stands for.
Cursors ==
  /\ cursor # None /\ cursor.kind = "snapshot" => cursor.scope = range
  /\ request # None /\ request.kind \in {"snapshot", "export"} => request.scope = range
  /\ request # None /\ request.kind = "changes" =>
       cursor # None /\ cursor.kind = "changes" /\ cursor.key = request.key
  /\ request # None /\ request.kind = "snapshot" =>
       \/ cursor = None /\ request.key = None
       \/ /\ cursor # None /\ cursor.kind = "snapshot"
          /\ request.key = cursor.key /\ request.watermark = cursor.watermark
  /\ request # None /\ request.kind = "export" => cursor = None

\* A row at this place is on a page of the snapshot or the export that is still to come.
Unread(x) ==
  \/ /\ request # None /\ request.kind \in {"snapshot", "export"}
     /\ request.key # None => After(x, request.key)
  \/ request = None /\ cursor # None /\ cursor.kind = "snapshot" /\ After(x, cursor.key)

\* A row that was there when the snapshot began has been read, or will be.
Begun ==
  \A k \in before : k \in range /\ table[k] # None /\ (copy[k] # 0 \/ Unread(At(table, k)))

IInv == TypeOK /\ Locks /\ Stamps /\ Joint /\ Cursors /\ Begun /\ CopyIsCurrent

-----------------------------------------------------------------------------
(* The order of rows *)

Tables == [Key -> Row \cup {None}]

\* The rows before this one.
Earlier(t, found, k) == {j \in found : After(At(t, k), At(t, j))}

LEMMA Order ==
  ASSUME NEW t \in Tables, NEW i \in Rows(t), NEW j \in Rows(t), NEW k \in Rows(t)
  PROVE  /\ ~After(At(t, i), At(t, i))
         /\ After(At(t, i), At(t, j)) /\ After(At(t, j), At(t, k)) => After(At(t, i), At(t, k))
         /\ i # j => After(At(t, i), At(t, j)) \/ After(At(t, j), At(t, i))
<1>1. i \in Nat /\ j \in Nat /\ k \in Nat
  BY FeedAssumption DEF Rows
<1>2. t[i].stamp \in Nat /\ t[j].stamp \in Nat /\ t[k].stamp \in Nat
  BY FeedAssumption DEF Rows, Tables, Row
<1> QED BY <1>1, <1>2 DEF After, At

LEMMA Least ==
  ASSUME NEW S \in SUBSET Nat, S # {}
  PROVE  \E m \in S : \A x \in S : m <= x
<1> DEFINE R == OpToRel(<, Nat)
<1>1. IsWellFoundedOn(R, Nat)
  BY NatLessThanWellFounded
<1>2. \A x, y \in Nat : x < y => <<x, y>> \in R
  BY DEF OpToRel
<1> HIDE DEF R
<1>3. \E m \in S : \A x \in S : ~(<<x, m>> \in R)
  BY <1>1, WFMin
<1>4. PICK m \in S : \A x \in S : ~(<<x, m>> \in R)
  BY <1>3
<1>5. \A x \in S : ~(x < m)
  BY <1>2, <1>4
<1> QED BY <1>5

LEMMA FoundFinite ==
  ASSUME NEW t, NEW found \in SUBSET Rows(t)
  PROVE  IsFiniteSet(found) /\ Cardinality(found) \in Nat
<1>1. found \in SUBSET Key
  BY DEF Rows
<1> QED BY <1>1, FeedAssumption, FS_Subset, FS_CardinalityType

LEMMA Counted ==
  ASSUME NEW t \in Tables, NEW found \in SUBSET Rows(t), NEW k \in found
  PROVE  /\ Cardinality(Earlier(t, found, k)) \in Nat
         /\ Cardinality(Earlier(t, found, k)) <= Cardinality(found)
         /\ \A j \in found : After(At(t, k), At(t, j)) =>
              Cardinality(Earlier(t, found, j)) < Cardinality(Earlier(t, found, k))
<1>1. IsFiniteSet(found)
  BY FoundFinite
<1>2. \A x \in found : /\ IsFiniteSet(Earlier(t, found, x))
                       /\ Cardinality(Earlier(t, found, x)) \in Nat
                       /\ Cardinality(Earlier(t, found, x)) <= Cardinality(found)
  <2>1. SUFFICES ASSUME NEW x \in found
                 PROVE  /\ IsFiniteSet(Earlier(t, found, x))
                        /\ Cardinality(Earlier(t, found, x)) \in Nat
                        /\ Cardinality(Earlier(t, found, x)) <= Cardinality(found)
    OBVIOUS
  <2>2. Earlier(t, found, x) \in SUBSET found
    BY DEF Earlier
  <2> QED BY <1>1, <2>2, FS_Subset, FS_CardinalityType
<1>3. ASSUME NEW j \in found, After(At(t, k), At(t, j))
      PROVE  Cardinality(Earlier(t, found, j)) < Cardinality(Earlier(t, found, k))
  <2>1. Earlier(t, found, j) \in SUBSET Earlier(t, found, k)
    BY <1>3, Order DEF Earlier
  <2>2. j \in Earlier(t, found, k) /\ j \notin Earlier(t, found, j)
    BY <1>3, Order DEF Earlier
  <2>3. /\ Cardinality(Earlier(t, found, j)) <= Cardinality(Earlier(t, found, k))
        /\ Cardinality(Earlier(t, found, k)) # Cardinality(Earlier(t, found, j))
    BY <1>2, <2>1, <2>2, FS_Subset
  <2> QED BY <1>2, <2>3
<1> QED BY <1>2, <1>3

LEMMA LastShape ==
  ASSUME NEW t \in Tables, NEW page \in SUBSET Rows(t), page # {}
  PROVE  /\ Last(t, page) \in page
         /\ \A j \in page : ~After(At(t, j), At(t, Last(t, page)))
<1> DEFINE n == Cardinality(page)
           count(k) == Cardinality(Earlier(t, page, k))
           rest == {n - count(k) : k \in page}
<1>1. n \in Nat
  BY FoundFinite
<1>2. \A k \in page : count(k) \in Nat /\ count(k) <= n
  BY Counted
<1>3. \A k \in page : n - count(k) \in Nat
  BY <1>1, <1>2
<1>4. rest \in SUBSET Nat /\ rest # {}
  BY <1>3
<1>5. PICK m \in rest : \A x \in rest : m <= x
  BY <1>4, Least
<1>6. PICK k \in page : m = n - count(k)
  BY <1>5
<1>7. ASSUME NEW j \in page, After(At(t, j), At(t, k))
      PROVE  FALSE
  <2>1. count(k) < count(j)
    BY <1>7, Counted
  <2>2. n - count(k) <= n - count(j)
    BY <1>5, <1>6
  <2> HIDE DEF count, n
  <2> QED BY <1>1, <1>2, <2>1, <2>2
<1> QED BY <1>7 DEF Last

\* A page of something is not empty.
LEMMA PageFilled ==
  ASSUME NEW t \in Tables, NEW found \in SUBSET Rows(t), found # {}
  PROVE  PageOf(t, found) # {}
<1> DEFINE count(k) == Cardinality(Earlier(t, found, k))
           counts == {count(k) : k \in found}
<1>1. \A k \in found : count(k) \in Nat
  BY Counted
<1>2. counts \in SUBSET Nat /\ counts # {}
  BY <1>1
<1>3. PICK m \in counts : \A x \in counts : m <= x
  BY <1>2, Least
<1>4. PICK k \in found : m = count(k)
  BY <1>3
<1>5. ASSUME NEW j \in Earlier(t, found, k)
      PROVE  FALSE
  <2>1. j \in found /\ After(At(t, k), At(t, j))
    BY DEF Earlier
  <2>2. count(j) < count(k)
    BY <2>1, Counted
  <2>3. count(k) <= count(j)
    BY <1>3, <1>4, <2>1
  <2> HIDE DEF count
  <2> QED BY <1>1, <2>1, <2>2, <2>3
<1>6. Earlier(t, found, k) = {}
  BY <1>5
<1>7. Cardinality({j \in found : After(At(t, k), At(t, j))}) = 0
  BY <1>6, FS_EmptySet DEF Earlier
<1> QED BY <1>7, FeedAssumption DEF PageOf

\* What did not fit on the page comes after its last row.
LEMMA PageOrder ==
  ASSUME NEW t \in Tables, NEW found \in SUBSET Rows(t), NEW k \in found, k \notin PageOf(t, found)
  PROVE  After(At(t, k), At(t, Last(t, PageOf(t, found))))
<1> DEFINE l == Last(t, PageOf(t, found))
<1>1. PageOf(t, found) # {} /\ PageOf(t, found) \subseteq found
  BY PageFilled DEF PageOf
<1>2. l \in PageOf(t, found)
  BY <1>1, LastShape
<1>3. Cardinality(Earlier(t, found, l)) < PageSize /\ ~(Cardinality(Earlier(t, found, k)) < PageSize)
  BY <1>2 DEF PageOf, Earlier
<1>4. l \in found /\ l # k
  BY <1>1, <1>2
<1> HIDE DEF l
<1>5. /\ Cardinality(Earlier(t, found, l)) \in Nat /\ Cardinality(Earlier(t, found, k)) \in Nat
      /\ After(At(t, l), At(t, k)) => Cardinality(Earlier(t, found, k)) < Cardinality(Earlier(t, found, l))
  BY <1>4, Counted
<1>6. ~After(At(t, l), At(t, k))
  BY <1>3, <1>5, FeedAssumption
<1>7. After(At(t, k), At(t, l))
  BY <1>4, <1>6, Order
<1> QED BY <1>7 DEF l

-----------------------------------------------------------------------------
(* Requests, cursors and pages *)

LEMMA RequestShape ==
  ASSUME NEW q \in Request
  PROVE  /\ q.kind \in {"snapshot", "changes", "export"}
         /\ q.kind = "snapshot" => q.scope \in Ranges /\ q.key \in Place \cup {None} /\ q.watermark \in Place
         /\ q.kind = "changes" => q.key \in Place
         /\ q.kind = "export" =>
              /\ q.scope \in Ranges /\ q.key \in Place \cup {None}
              /\ \A x : [q EXCEPT !.key = x] = [kind |-> "export", scope |-> q.scope, key |-> x]
<1>1. CASE q \in [kind : {"snapshot"}, scope : Ranges, key : Place \cup {None}, watermark : Place]
  BY <1>1
<1>2. CASE q \in [kind : {"changes"}, key : Place]
  BY <1>2
<1>3. CASE q \in [kind : {"export"}, scope : Ranges, key : Place \cup {None}]
  BY <1>3
<1> QED BY <1>1, <1>2, <1>3 DEF Request

LEMMA CursorShape ==
  ASSUME NEW c \in Envelope
  PROVE  /\ c.kind \in {"snapshot", "changes", "file"}
         /\ c.kind = "snapshot" => c.scope \in Ranges /\ c.key \in Place /\ c.watermark \in Place
         /\ c.kind = "changes" => c.key \in Place
<1>1. CASE c \in [kind : {"snapshot"}, scope : Ranges, key : Place, watermark : Place]
  BY <1>1
<1>2. CASE c \in [kind : {"changes"}, key : Place]
  BY <1>2
<1>3. CASE c \in [kind : {"file"}]
  BY <1>3
<1> QED BY <1>1, <1>2, <1>3 DEF Envelope

LEMMA KeyShape ==
  ASSUME NEW q \in Request
  PROVE  q.key \in Place \cup {None}
BY RequestShape

LEMMA Sourced ==
  /\ \A s \in Sources : s \subseteq Key
  /\ \A k \in Key : \E s \in Sources : k \in s
BY FeedAssumption

\* Both kinds of readers find what follows the cursor.
LEMMA FoundShape ==
  ASSUME NEW t \in Tables, Together(t), NEW q, q.key \in Place \cup {None}
  PROVE  /\ Found(t, q) \in SUBSET Rows(t)
         /\ \A k \in Rows(t) : k \in Selected(q) /\ (q.key # None => After(At(t, k), q.key)) => k \in Found(t, q)
         /\ \A k \in Found(t, q) : q.key # None => After(At(t, k), q.key)
<1>1. CASE ~lines
  BY <1>1 DEF Found, KeysetRows
<1>2. CASE lines
  <2>1. Found(t, q) = LineRows(t, q)
    BY <1>2 DEF Found
  <2>2. \A k \in LineRows(t, q) : k \in Rows(t) /\ (q.key # None => After(At(t, k), q.key))
    BY Sourced DEF LineRows, Rows
  <2>3. ASSUME NEW k \in Rows(t), k \in Selected(q), q.key # None => After(At(t, k), q.key)
        PROVE  k \in LineRows(t, q)
    <3>1. k \in Key /\ t[k] # None
      BY DEF Rows
    <3>2. PICK s \in Sources : k \in s
      BY <3>1, Sourced
    <3>3. ASSUME NEW j \in s \cap Rows(t), q.key # None
          PROVE  t[j].stamp >= q.key.stamp
      <4>1. t[j] \in Row /\ t[k] \in Row
        BY <3>1 DEF Rows, Tables
      <4>2. t[j].stamp = t[k].stamp
        BY <3>2, <4>1, NoneAssumption DEF Together
      <4>3. t[k].stamp \in Nat /\ q.key.stamp \in Nat
        BY <3>3, <4>1, FeedAssumption DEF Row, Place
      <4>4. t[k].stamp > q.key.stamp \/ t[k].stamp = q.key.stamp
        BY <2>3, <3>3 DEF After, At
      <4> QED BY <4>2, <4>3, <4>4
    <3> QED BY <2>3, <3>1, <3>2, <3>3 DEF LineRows
  <2> QED BY <2>1, <2>2, <2>3
<1> QED BY <1>1, <1>2

LEMMA NextShape ==
  ASSUME NEW t \in Tables, Together(t), NEW q, q.key \in Place \cup {None}
  PROVE  /\ Found(t, q) = {} => NextKey(t, q) = q.key /\ ~HasMore(t, q)
         /\ Found(t, q) # {} =>
              /\ NextKey(t, q) \in Place
              /\ \A k \in Found(t, q) \ PageOf(t, Found(t, q)) : After(At(t, k), NextKey(t, q))
         /\ PageOf(t, Found(t, q)) \subseteq Found(t, q)
<1> DEFINE found == Found(t, q)
           page  == PageOf(t, found)
<1>1. found \in SUBSET Rows(t) /\ page \subseteq found
  BY FoundShape DEF PageOf
<1>2. CASE found = {}
  <2>1. page = {}
    BY <1>1, <1>2
  <2> QED BY <1>1, <1>2, <2>1 DEF NextKey, HasMore
<1>3. CASE found # {}
  <2>1. page # {}
    BY <1>1, <1>3, PageFilled
  <2>2. NextKey(t, q) = At(t, Last(t, page))
    BY <2>1 DEF NextKey
  <2>3. Last(t, page) \in page
    BY <1>1, <2>1, LastShape
  <2>4. Last(t, page) \in Rows(t)
    BY <1>1, <2>3
  <2>5. At(t, Last(t, page)) \in Place
    <3>1. \A k \in Rows(t) : k \in Nat /\ t[k] \in Row
      BY FeedAssumption DEF Rows, Tables
    <3>2. \A k \in Rows(t) : At(t, k) \in Place
      BY <3>1 DEF At, Place, Row
    <3> QED BY <2>4, <3>2
  <2>6. \A k \in found \ page : After(At(t, k), At(t, Last(t, page)))
    BY <1>1, PageOrder
  <2> QED BY <1>1, <1>3, <2>2, <2>5, <2>6
<1> QED BY <1>1, <1>2, <1>3

\* No reader turns to a page without rows.
LEMMA MoreRows ==
  ASSUME NEW t \in Tables, Together(t), NEW q, q.key \in Place \cup {None}, HasMore(t, q)
  PROVE  NextKey(t, q) \in Place
BY NextShape

-----------------------------------------------------------------------------
(* Types *)

LEMMA InitInv ==
  Init => IInv
<1> SUFFICES ASSUME Init PROVE IInv
  OBVIOUS
<1>1. TypeOK
  BY FeedAssumption DEF Init, TypeOK, Untouched
<1>2. Locks /\ Stamps /\ Joint
  BY Sourced DEF Init, Locks, Stamps, Joint, Together, Untouched
<1>3. Cursors /\ Begun /\ CopyIsCurrent
  BY FeedAssumption DEF Init, Cursors, Begun, CopyIsCurrent
<1> QED BY <1>1, <1>2, <1>3 DEF IInv

LEMMA ReceivedType ==
  ASSUME TypeOK
  PROVE  Received \in [Key -> 0..MaxWrites]
<1>1. \A k \in Key : table[k] # None => table[k].ver \in 0..MaxWrites
  BY FeedAssumption DEF TypeOK, Row
<1>2. \A k \in PageOf(table, Found(table, request)) : table[k] # None
  <2>1. PageOf(table, Found(table, request)) \subseteq Found(table, request)
    BY DEF PageOf
  <2>2. \A k \in Found(table, request) : table[k] # None
    BY DEF Found, KeysetRows, LineRows, Rows
  <2> QED BY <2>1, <2>2
<1> QED BY <1>1, <1>2 DEF Received, TypeOK

LEMMA TypeStep ==
  ASSUME TypeOK, Joint, [Next]_vars
  PROVE  TypeOK'
<1> USE FeedAssumption, NoneAssumption
<1>0. table \in Tables /\ Together(table)
  BY DEF TypeOK, Tables, Joint
<1>1. CASE Tick
  BY <1>1 DEF Tick, TypeOK, projectVars
<1>2. ASSUME NEW w \in Writers, Statement(w) PROVE TypeOK'
  <2>1. writes < MaxWrites /\ writes' = writes + 1
    BY <1>2 DEF Statement
  <2>2. writes' \in 1..MaxWrites
    BY <2>1 DEF TypeOK
  <2>3. PICK s \in Sources, items \in SUBSET Key :
          open' = [open EXCEPT ![w] = Rewritten(open[w], s, items, [stamp |-> now, ver |-> writes'])]
    BY <1>2 DEF Statement
  <2>4. [stamp |-> now, ver |-> writes'] \in Row
    BY <2>2 DEF TypeOK, Row
  <2>5. Rewritten(open[w], s, items, [stamp |-> now, ver |-> writes']) \in [Key -> Row \cup {None, NoWrite}]
    BY <2>4 DEF Rewritten, TypeOK
  <2>6. open' \in [Writers -> [Key -> Row \cup {None, NoWrite}]]
    BY <2>3, <2>5 DEF TypeOK
  <2> QED BY <1>2, <2>2, <2>6 DEF Statement, TypeOK, projectVars
<1>3. ASSUME NEW w \in Writers, Commit(w) PROVE TypeOK'
  <2>1. table' \in [Key -> Row \cup {None}]
    BY <1>3 DEF Commit, Written, TypeOK
  <2>2. open' \in [Writers -> [Key -> Row \cup {None, NoWrite}]]
    BY <1>3 DEF Commit, Untouched, TypeOK
  <2>3. late' \in SUBSET Key /\ before' \in SUBSET Key
    BY <1>3 DEF Commit, Written, TypeOK
  <2> QED BY <1>3, <2>1, <2>2, <2>3 DEF Commit, TypeOK
<1>4. ASSUME NEW w \in Writers, Rollback(w) PROVE TypeOK'
  <2>1. open' \in [Writers -> [Key -> Row \cup {None, NoWrite}]]
    BY <1>4 DEF Rollback, Untouched, TypeOK
  <2> QED BY <1>4, <2>1 DEF Rollback, TypeOK, projectVars
<1>5. CASE BeginSnapshot
  <2>1. PICK g \in Ranges, k \in {0, Top} :
          /\ range' = g
          /\ before' = g \cap Rows(table)
          /\ request' = [kind |-> "snapshot", scope |-> g, key |-> None, watermark |-> [stamp |-> now, key |-> k]]
    BY <1>5 DEF BeginSnapshot
  <2>2. [stamp |-> now, key |-> k] \in Place
    BY DEF Place, TypeOK
  <2>3. request' \in Request
    BY <2>1, <2>2 DEF Request
  <2>4. /\ reads' \in 0..MaxReads /\ copy' \in [Key -> 0..MaxWrites] /\ before' \in SUBSET Key
        /\ range' \in Ranges /\ cursor' = None /\ late' = {}
    BY <1>5, <2>1 DEF BeginSnapshot, TypeOK, Rows
  <2> QED BY <1>5, <2>3, <2>4 DEF BeginSnapshot, TypeOK, tableVars
<1>6. CASE apiExportDatasetCSV
  <2>1. PICK g \in Ranges :
          /\ range' = g
          /\ before' = g \cap Rows(table)
          /\ request' = [kind |-> "export", scope |-> g, key |-> None]
    BY <1>6 DEF apiExportDatasetCSV
  <2>2. request' \in Request
    BY <2>1 DEF Request
  <2>3. /\ reads' \in 0..MaxReads /\ copy' \in [Key -> 0..MaxWrites] /\ before' \in SUBSET Key
        /\ range' \in Ranges /\ cursor' = None /\ late' = {}
    BY <1>6, <2>1 DEF apiExportDatasetCSV, TypeOK, Rows
  <2> QED BY <1>6, <2>2, <2>3 DEF apiExportDatasetCSV, TypeOK, tableVars
<1>7. CASE Continue
  <2>1. request' \in Request
    <3>1. cursor # None => cursor \in Envelope
      BY DEF TypeOK
    <3>2. CASE \E g \in Ranges :
                 /\ decodeCursor(cursor, "snapshot", g)
                 /\ request' = [kind |-> "snapshot", scope |-> g, key |-> cursor.key, watermark |-> cursor.watermark]
      BY <3>1, <3>2, CursorShape DEF decodeCursor, Request
    <3>3. CASE /\ decodeCursor(cursor, "changes", range)
               /\ request' = [kind |-> "changes", key |-> cursor.key]
      BY <3>1, <3>3, CursorShape DEF decodeCursor, Request
    <3> QED BY <1>7, <3>2, <3>3 DEF Continue
  <2> QED BY <1>7, <2>1 DEF Continue, TypeOK, tableVars, projectVars
<1>8. CASE ExportCSV
  <2>1. request \in Request /\ request.kind = "export"
    BY <1>8 DEF ExportCSV, TypeOK
  <2>2. request' \in Request \cup {None}
    <3>1. CASE HasMore(table, request)
      <4>1. NextKey(table, request) \in Place
        BY <1>0, <2>1, <3>1, KeyShape, MoreRows
      <4>2. request' = [request EXCEPT !.key = NextKey(table, request)]
        BY <1>8, <3>1 DEF ExportCSV
      <4>3. request' = [kind |-> "export", scope |-> request.scope, key |-> NextKey(table, request)]
        BY <2>1, <4>2, RequestShape
      <4>4. request.scope \in Ranges
        BY <2>1, RequestShape
      <4> QED BY <4>1, <4>3, <4>4 DEF Request
    <3>2. CASE ~HasMore(table, request)
      BY <1>8, <3>2 DEF ExportCSV
    <3> QED BY <3>1, <3>2
  <2>3. cursor' \in Envelope \cup {None}
    BY <1>8 DEF ExportCSV, TypeOK, Envelope
  <2>4. copy' \in [Key -> 0..MaxWrites]
    BY <1>8, ReceivedType DEF ExportCSV
  <2> QED BY <1>8, <2>2, <2>3, <2>4 DEF ExportCSV, TypeOK, tableVars
<1>9. CASE Answer
  <2>1. request \in Request /\ request.kind \in {"snapshot", "changes"}
    BY <1>9, RequestShape DEF Answer, TypeOK
  <2>2. cursor' \in Envelope
    <3>1. CASE request.kind = "changes"
      <4>1. request.key \in Place
        BY <2>1, <3>1, RequestShape
      <4>2. NextKey(table, request) \in Place
        BY <1>0, <4>1, NextShape
      <4> QED BY <1>9, <3>1, <4>2 DEF Answer, response, Envelope
    <3>2. CASE request.kind = "snapshot" /\ HasMore(table, request)
      <4>1. NextKey(table, request) \in Place
        BY <1>0, <2>1, <3>2, KeyShape, MoreRows
      <4>2. request.scope \in Ranges /\ request.watermark \in Place
        BY <2>1, <3>2, RequestShape
      <4> QED BY <1>9, <3>2, <4>1, <4>2 DEF Answer, response, Envelope
    <3>3. CASE request.kind = "snapshot" /\ ~HasMore(table, request)
      <4>1. request.watermark \in Place
        BY <2>1, <3>3, RequestShape
      <4> QED BY <1>9, <3>3, <4>1 DEF Answer, response, Envelope
    <3> QED BY <2>1, <3>1, <3>2, <3>3
  <2>3. copy' \in [Key -> 0..MaxWrites]
    BY <1>9, ReceivedType DEF Answer
  <2> QED BY <1>9, <2>2, <2>3 DEF Answer, TypeOK, tableVars
<1>10. CASE AnswerLost
  BY <1>10 DEF AnswerLost, TypeOK, tableVars, projectVars
<1>11. CASE UNCHANGED vars
  BY <1>11 DEF vars, TypeOK, tableVars, projectVars
<1> QED
  BY <1>1, <1>2, <1>3, <1>4, <1>5, <1>6, <1>7, <1>8, <1>9, <1>10, <1>11 DEF Next

-----------------------------------------------------------------------------
(* The tables *)

LEMMA StatementShape ==
  ASSUME TypeOK, NEW w \in Writers, Statement(w)
  PROVE  \E s \in Sources, items \in SUBSET Key, row \in Row :
           /\ row.stamp = now
           /\ \A v \in Writers : v # w => open'[v] = open[v] /\ \A k \in s : open[v][k] = NoWrite
           /\ \A k \in Key : open'[w][k] = IF k \notin s THEN open[w][k] ELSE IF k \in items THEN row ELSE None
<1> DEFINE row == [stamp |-> now, ver |-> writes']
<1>1. PICK s \in Sources, items \in SUBSET Key :
        /\ \A v \in Writers \ {w}, k \in s : open[v][k] = NoWrite
        /\ open' = [open EXCEPT ![w] = Rewritten(open[w], s, items, row)]
  BY DEF Statement
<1>2. row \in Row /\ row.stamp = now
  BY FeedAssumption DEF Statement, TypeOK, Row
<1>3. \A v \in Writers : v # w => open'[v] = open[v] /\ \A k \in s : open[v][k] = NoWrite
  BY <1>1 DEF TypeOK
<1>4. open'[w] = Rewritten(open[w], s, items, row)
  BY <1>1 DEF TypeOK
<1> HIDE DEF row
<1>5. \A k \in Key : open'[w][k] = IF k \notin s THEN open[w][k] ELSE IF k \in items THEN row ELSE None
  BY <1>4 DEF Rewritten
<1> QED BY <1>2, <1>3, <1>5

LEMMA EndShape ==
  ASSUME TypeOK, NEW w \in Writers, open' = [open EXCEPT ![w] = Untouched]
  PROVE  /\ \A k \in Key : open'[w][k] = NoWrite
         /\ \A v \in Writers : v # w => open'[v] = open[v]
BY DEF TypeOK, Untouched

LEMMA CommitShape ==
  ASSUME TypeOK, NEW w \in Writers, Commit(w)
  PROVE  /\ \A k \in Key : table'[k] = IF open[w][k] # NoWrite THEN open[w][k] ELSE table[k]
         /\ \A k \in Key : open'[w][k] = NoWrite
         /\ \A v \in Writers : v # w => open'[v] = open[v]
         /\ now' = now
<1>1. open' = [open EXCEPT ![w] = Untouched]
  BY DEF Commit
<1> QED BY <1>1, EndShape DEF Commit, Written

\* The steps of the requests leave the tables alone.
LEMMA OtherSteps ==
  ASSUME [Next]_vars
  PROVE  \/ Tick
         \/ \E w \in Writers : Statement(w) \/ Commit(w) \/ Rollback(w)
         \/ UNCHANGED <<now, table, open>>
BY DEF Next, vars, tableVars, BeginSnapshot, Continue, Answer, AnswerLost, apiExportDatasetCSV, ExportCSV

LEMMA LocksStep ==
  ASSUME TypeOK, Locks, [Next]_vars
  PROVE  Locks'
<1>1. CASE UNCHANGED open
  BY <1>1 DEF Locks
<1>2. ASSUME NEW w \in Writers, Statement(w) PROVE Locks'
  BY <1>2, StatementShape DEF Locks
<1>3. ASSUME NEW w \in Writers, Commit(w) \/ Rollback(w) PROVE Locks'
  <2>1. open' = [open EXCEPT ![w] = Untouched]
    BY <1>3 DEF Commit, Rollback
  <2>2. /\ \A k \in Key : open'[w][k] = NoWrite
        /\ \A v \in Writers : v # w => open'[v] = open[v]
    BY <2>1, EndShape
  <2>3. ASSUME NEW u \in Writers, NEW v \in Writers, u # v, NEW k \in Key
        PROVE  open'[u][k] = NoWrite \/ open'[v][k] = NoWrite
    BY <2>2, <2>3 DEF Locks
  <2> QED BY <2>3 DEF Locks
<1> QED BY <1>1, <1>2, <1>3, OtherSteps DEF Tick

LEMMA StampsStep ==
  ASSUME TypeOK, Locks, Stamps, [Next]_vars
  PROVE  Stamps'
<1> USE FeedAssumption, NoneAssumption
<1>0. /\ now \in Nat
      /\ \A k \in Key : table[k] # None => table[k].stamp \in Nat
      /\ \A w \in Writers, k \in Key : open[w][k] \notin {None, NoWrite} => open[w][k].stamp \in Nat
  BY DEF TypeOK, Row
<1>1. CASE Tick
  BY <1>0, <1>1 DEF Tick, Stamps
<1>2. CASE UNCHANGED <<now, table, open>>
  BY <1>2 DEF Stamps
<1>3. ASSUME NEW w \in Writers, Statement(w) PROVE Stamps'
  <2>1. now' = now /\ table' = table
    BY <1>3 DEF Statement
  <2>2. PICK s \in Sources, items \in SUBSET Key, row \in Row :
          /\ row.stamp = now
          /\ \A v \in Writers : v # w => open'[v] = open[v] /\ \A k \in s : open[v][k] = NoWrite
          /\ \A k \in Key : open'[w][k] = IF k \notin s THEN open[w][k] ELSE IF k \in items THEN row ELSE None
    BY <1>3, StatementShape
  <2>3. ASSUME NEW k \in Key, NEW v \in Writers, open'[v][k] \notin {None, NoWrite}
        PROVE  open'[v][k] = open[v][k] \/ open'[v][k].stamp = now
    BY <2>2, <2>3
  <2>4. ASSUME NEW k \in Key, NEW v \in Writers, open'[v][k] \notin {None, NoWrite}
        PROVE  open'[v][k].stamp <= now /\ (table[k] # None => table[k].stamp <= open'[v][k].stamp)
    <3>1. CASE open'[v][k] = open[v][k]
      BY <2>4, <3>1 DEF Stamps
    <3>2. CASE open'[v][k].stamp = now
      BY <1>0, <3>2 DEF Stamps
    <3> QED BY <2>3, <2>4, <3>1, <3>2
  <2> QED BY <2>1, <2>4 DEF Stamps
<1>4. ASSUME NEW w \in Writers, Commit(w) PROVE Stamps'
  <2>1. ASSUME NEW k \in Key, table'[k] # None
        PROVE  table'[k].stamp <= now
    <3>1. table'[k] = IF open[w][k] # NoWrite THEN open[w][k] ELSE table[k]
      BY <1>4, CommitShape
    <3> QED BY <2>1, <3>1 DEF Stamps
  <2>2. ASSUME NEW k \in Key, NEW v \in Writers, open'[v][k] \notin {None, NoWrite}
        PROVE  /\ open'[v][k].stamp <= now
               /\ table'[k] # None => table'[k].stamp <= open'[v][k].stamp
    <3>1. v # w /\ open'[v][k] = open[v][k]
      BY <1>4, <2>2, CommitShape
    <3>2. open[w][k] = NoWrite
      BY <2>2, <3>1 DEF Locks
    <3>3. table'[k] = table[k]
      BY <1>4, <3>2, CommitShape
    <3> QED BY <2>2, <3>1, <3>3 DEF Stamps
  <2> QED BY <1>4, <2>1, <2>2, CommitShape DEF Stamps
<1>5. ASSUME NEW w \in Writers, Rollback(w) PROVE Stamps'
  <2>1. now' = now /\ table' = table /\ open' = [open EXCEPT ![w] = Untouched]
    BY <1>5 DEF Rollback
  <2>2. /\ \A k \in Key : open'[w][k] = NoWrite
        /\ \A v \in Writers : v # w => open'[v] = open[v]
    BY <2>1, EndShape
  <2> QED BY <2>1, <2>2 DEF Stamps
<1> QED BY <1>1, <1>2, <1>3, <1>4, <1>5, OtherSteps

LEMMA JointStep ==
  ASSUME TypeOK, Joint, [Next]_vars
  PROVE  Joint'
<1> USE NoneAssumption
<1>1. CASE UNCHANGED <<table, open>>
  BY <1>1 DEF Joint, Together
<1>2. ASSUME NEW w \in Writers, Statement(w) PROVE Joint'
  <2>1. table' = table
    BY <1>2 DEF Statement
  <2>2. PICK z \in Sources, items \in SUBSET Key, row \in Row :
          /\ row.stamp = now
          /\ \A v \in Writers : v # w => open'[v] = open[v] /\ \A k \in z : open[v][k] = NoWrite
          /\ \A k \in Key : open'[w][k] = IF k \notin z THEN open[w][k] ELSE IF k \in items THEN row ELSE None
    BY <1>2, StatementShape
  <2>3. ASSUME NEW s \in Sources, NEW j \in s, NEW k \in s
        PROVE  /\ open'[w][j] \notin {None, NoWrite} /\ open'[w][k] \notin {None, NoWrite} =>
                    open'[w][j].stamp = open'[w][k].stamp
               /\ open'[w][j] = NoWrite => open'[w][k] = NoWrite
    <3>1. j \in Key /\ k \in Key
      BY Sourced
    <3>2. CASE s = z
      BY <2>2, <3>1, <3>2
    <3>3. CASE s # z
      <4>1. j \notin z /\ k \notin z
        BY <3>3, FeedAssumption
      <4>2. open'[w][j] = open[w][j] /\ open'[w][k] = open[w][k]
        BY <2>2, <3>1, <4>1
      <4> QED BY <4>2 DEF Joint, Together
    <3> QED BY <3>2, <3>3
  <2>4. ASSUME NEW v \in Writers, v # w
        PROVE  open'[v] = open[v]
    BY <2>2, <2>4
  <2> QED BY <2>1, <2>3, <2>4 DEF Joint, Together
<1>3. ASSUME NEW w \in Writers, Commit(w) PROVE Joint'
  <2>1. ASSUME NEW s \in Sources, NEW j \in s, NEW k \in s,
               table'[j] \notin {None, NoWrite}, table'[k] \notin {None, NoWrite}
        PROVE  table'[j].stamp = table'[k].stamp
    <3>1. j \in Key /\ k \in Key
      BY Sourced
    <3>2. open[w][j] = NoWrite <=> open[w][k] = NoWrite
      BY DEF Joint
    <3>3. CASE open[w][j] = NoWrite
      <4>1. table'[j] = table[j] /\ table'[k] = table[k]
        BY <1>3, <3>1, <3>2, <3>3, CommitShape
      <4> QED BY <2>1, <4>1 DEF Joint, Together
    <3>4. CASE open[w][j] # NoWrite
      <4>1. table'[j] = open[w][j] /\ table'[k] = open[w][k]
        BY <1>3, <3>1, <3>2, <3>4, CommitShape
      <4> QED BY <2>1, <4>1 DEF Joint, Together
    <3> QED BY <3>3, <3>4
  <2>2. /\ \A k \in Key : open'[w][k] = NoWrite
        /\ \A v \in Writers : v # w => open'[v] = open[v]
    BY <1>3, CommitShape
  <2>3. \A s \in Sources : \A k \in s : open'[w][k] = NoWrite
    BY <2>2, Sourced
  <2> QED BY <2>1, <2>2, <2>3 DEF Joint, Together
<1>4. ASSUME NEW w \in Writers, Rollback(w) PROVE Joint'
  <2>1. table' = table /\ open' = [open EXCEPT ![w] = Untouched]
    BY <1>4 DEF Rollback
  <2>2. /\ \A k \in Key : open'[w][k] = NoWrite
        /\ \A v \in Writers : v # w => open'[v] = open[v]
    BY <2>1, EndShape
  <2>3. \A s \in Sources : \A k \in s : open'[w][k] = NoWrite
    BY <2>2, Sourced
  <2> QED BY <2>1, <2>2, <2>3 DEF Joint, Together
<1> QED BY <1>1, <1>2, <1>3, <1>4, OtherSteps DEF Tick

-----------------------------------------------------------------------------
(* The requests *)

LEMMA CursorsStep ==
  ASSUME TypeOK, Cursors, [Next]_vars
  PROVE  Cursors'
<1> USE NoneAssumption
<1>1. CASE UNCHANGED <<cursor, request, range>>
  BY <1>1 DEF Cursors
<1>2. CASE BeginSnapshot
  <2>1. PICK g \in Ranges, k \in {0, Top} :
          /\ range' = g
          /\ request' = [kind |-> "snapshot", scope |-> g, key |-> None, watermark |-> [stamp |-> now, key |-> k]]
    BY <1>2 DEF BeginSnapshot
  <2>2. cursor' = None
    BY <1>2 DEF BeginSnapshot
  <2> QED BY <2>1, <2>2 DEF Cursors
<1>3. CASE apiExportDatasetCSV
  <2>1. PICK g \in Ranges : range' = g /\ request' = [kind |-> "export", scope |-> g, key |-> None]
    BY <1>3 DEF apiExportDatasetCSV
  <2>2. cursor' = None
    BY <1>3 DEF apiExportDatasetCSV
  <2> QED BY <2>1, <2>2 DEF Cursors
<1>4. CASE Continue
  <2>1. cursor' = cursor /\ range' = range
    BY <1>4 DEF Continue, projectVars
  <2>2. CASE \E g \in Ranges :
               /\ decodeCursor(cursor, "snapshot", g)
               /\ request' = [kind |-> "snapshot", scope |-> g, key |-> cursor.key, watermark |-> cursor.watermark]
    BY <2>1, <2>2 DEF Cursors, decodeCursor
  <2>3. CASE /\ decodeCursor(cursor, "changes", range)
             /\ request' = [kind |-> "changes", key |-> cursor.key]
    BY <2>1, <2>3 DEF Cursors, decodeCursor
  <2> QED BY <1>4, <2>2, <2>3 DEF Continue
<1>5. CASE ExportCSV
  <2>1. request \in Request /\ request.kind = "export" /\ range' = range /\ cursor = None /\ request.scope = range
    BY <1>5 DEF ExportCSV, TypeOK, Cursors
  <2>2. CASE HasMore(table, request)
    <3>1. request' = [request EXCEPT !.key = NextKey(table, request)] /\ cursor' = cursor
      BY <1>5, <2>2 DEF ExportCSV
    <3>2. request' = [kind |-> "export", scope |-> request.scope, key |-> NextKey(table, request)]
      BY <2>1, <3>1, RequestShape
    <3> QED BY <2>1, <3>1, <3>2 DEF Cursors
  <2>3. CASE ~HasMore(table, request)
    BY <1>5, <2>3 DEF ExportCSV, Cursors
  <2> QED BY <2>2, <2>3
<1>6. CASE Answer
  <2>1. request' = None /\ range' = range /\ cursor' = response(table, request) /\ request # None
    BY <1>6 DEF Answer
  <2>2. request.kind = "snapshot" => request.scope = range
    BY <2>1 DEF Cursors
  <2>3. request \in Request /\ request.kind \in {"snapshot", "changes"}
    BY <1>6, RequestShape DEF Answer, TypeOK
  <2>4. cursor'.kind = "snapshot" => cursor'.scope = range
    BY <2>1, <2>2, <2>3 DEF response
  <2> QED BY <2>1, <2>4 DEF Cursors
<1>7. CASE AnswerLost
  BY <1>7 DEF AnswerLost, Cursors, projectVars
<1> QED
  BY <1>1, <1>2, <1>3, <1>4, <1>5, <1>6, <1>7
  DEF Next, vars, Tick, Statement, Commit, Rollback, projectVars

-----------------------------------------------------------------------------
(* What a request reads *)

\* A row that is still to come is on this page or after it.
LEMMA PageStep ==
  ASSUME TypeOK, Joint, request # None, NEW k \in Key, table[k] # None,
         k \in Selected(request), request.key # None => After(At(table, k), request.key)
  PROVE  \/ Received[k] = table[k].ver
         \/ HasMore(table, request) /\ After(At(table, k), NextKey(table, request))
<1> DEFINE found == Found(table, request)
<1>1. table \in Tables /\ Together(table) /\ request \in Request
  BY DEF TypeOK, Tables, Joint
<1>2. k \in found
  BY <1>1, KeyShape, FoundShape DEF Rows
<1>3. CASE k \in PageOf(table, found)
  BY <1>3 DEF Received
<1>4. CASE k \notin PageOf(table, found)
  <2>1. HasMore(table, request)
    BY <1>2, <1>4 DEF HasMore
  <2>2. After(At(table, k), NextKey(table, request))
    BY <1>1, <1>2, <1>4, KeyShape, NextShape
  <2> QED BY <2>1, <2>2
<1> QED BY <1>3, <1>4

\* What the project holds it only replaces by what the tables hold.
LEMMA ReceivedKeeps ==
  ASSUME TypeOK, NEW k \in Key, table[k] # None
  PROVE  /\ table[k].ver # 0
         /\ Received[k] = table[k].ver \/ Received[k] = copy[k]
BY FeedAssumption DEF Received, TypeOK, Row

LEMMA PageQuiet ==
  ASSUME ExportCSV \/ Answer
  PROVE  /\ request # None /\ copy' = Received
         /\ UNCHANGED <<table, range, before, late>>
BY DEF ExportCSV, Answer, tableVars

\* The page after this one.
LEMMA NextPage ==
  ASSUME TypeOK, Joint, Cursors, ExportCSV \/ Answer, HasMore(table, request)
  PROVE  \/ /\ request.kind = "export"
            /\ request' = [kind |-> "export", scope |-> range, key |-> NextKey(table, request)]
            /\ cursor' = cursor
         \/ /\ request.kind = "snapshot" /\ request' = None
            /\ cursor' = [kind |-> "snapshot", scope |-> range, key |-> NextKey(table, request),
                          watermark |-> request.watermark]
         \/ /\ request.kind = "changes" /\ request' = None
            /\ cursor' = [kind |-> "changes", key |-> NextKey(table, request)]
<1>1. request # None /\ request \in Request /\ request.kind \in {"snapshot", "changes", "export"}
  BY PageQuiet, RequestShape DEF TypeOK
<1>2. request.kind \in {"snapshot", "export"} => request.scope = range
  BY <1>1 DEF Cursors
<1>3. CASE ExportCSV
  <2>1. request.kind = "export" /\ request' = [request EXCEPT !.key = NextKey(table, request)] /\ cursor' = cursor
    BY <1>3 DEF ExportCSV
  <2>2. request' = [kind |-> "export", scope |-> request.scope, key |-> NextKey(table, request)]
    BY <1>1, <2>1, RequestShape
  <2> QED BY <1>2, <2>1, <2>2
<1>4. CASE Answer
  <2>1. request.kind # "export" /\ request' = None /\ cursor' = response(table, request)
    BY <1>4 DEF Answer
  <2> QED BY <1>1, <1>2, <2>1 DEF response
<1> QED BY <1>3, <1>4

LEMMA NextPlace ==
  ASSUME TypeOK, Joint, request # None, HasMore(table, request)
  PROVE  NextKey(table, request) \in Place /\ NextKey(table, request) # None
<1>1. table \in Tables /\ Together(table) /\ request \in Request
  BY DEF TypeOK, Tables, Joint
<1> QED BY <1>1, KeyShape, MoreRows, NoneAssumption

-----------------------------------------------------------------------------
(* Complete snapshots *)

LEMMA BegunStep ==
  ASSUME TypeOK, Locks, Stamps, Joint, Cursors, Begun, [Next]_vars
  PROVE  Begun'
<1> USE NoneAssumption
<1>1. CASE UNCHANGED <<table, request, projectVars>>
  BY <1>1 DEF Begun, Unread, At, projectVars
<1>2. ASSUME NEW w \in Writers, Commit(w) PROVE Begun'
  <2>1. UNCHANGED <<cursor, copy, range, request>>
    BY <1>2 DEF Commit
  <2>2. SUFFICES ASSUME NEW k \in before'
                 PROVE  k \in range /\ table'[k] # None /\ (copy[k] # 0 \/ Unread(At(table, k))')
    BY <2>1 DEF Begun
  <2>3. k \in before /\ k \in Key /\ (k \in Written(w) => table'[k] # None)
    BY <1>2, <2>2 DEF Commit, TypeOK
  <2>4. k \in range /\ table[k] # None /\ (copy[k] # 0 \/ Unread(At(table, k)))
    BY <2>3 DEF Begun
  <2>5. table'[k] = IF open[w][k] # NoWrite THEN open[w][k] ELSE table[k]
    BY <1>2, <2>3, CommitShape
  <2>6. table'[k] # None
    BY <2>3, <2>4, <2>5 DEF Written
  <2>7. table[k].stamp <= table'[k].stamp /\ table[k].stamp \in Nat /\ table'[k].stamp \in Nat
    <3>1. table[k] \in Row /\ table'[k] \in Row
      BY <2>3, <2>4, <2>5, <2>6 DEF TypeOK
    <3>2. CASE open[w][k] # NoWrite
      BY <2>3, <2>4, <2>5, <2>6, <3>1, <3>2, FeedAssumption DEF Stamps, Row
    <3>3. CASE open[w][k] = NoWrite
      BY <2>5, <3>1, <3>3, FeedAssumption DEF Row
    <3> QED BY <3>2, <3>3
  <2>8. ASSUME NEW y \in Place, After(At(table, k), y)
        PROVE  After(At(table', k), y)
    <3>1. y.stamp \in Nat /\ y.key \in Nat
      BY FeedAssumption DEF Place
    <3> QED BY <2>7, <2>8, <3>1 DEF After, At
  <2>9. Unread(At(table, k)) => Unread(At(table, k))'
    <3>1. request # None => request \in Request /\ request.key \in Place \cup {None}
      BY KeyShape DEF TypeOK
    <3>2. cursor # None /\ cursor.kind = "snapshot" => cursor.key \in Place
      BY CursorShape DEF TypeOK
    <3>3. At(table, k)' = At(table', k)
      BY DEF At
    <3> QED BY <2>1, <2>8, <3>1, <3>2, <3>3 DEF Unread
  <2> QED BY <2>4, <2>6, <2>9
<1>3. CASE BeginSnapshot \/ apiExportDatasetCSV
  <2>1. /\ request' # None /\ request'.kind \in {"snapshot", "export"} /\ request'.key = None
        /\ before' = range' \cap Rows(table) /\ table' = table
    <3>1. CASE BeginSnapshot
      <4>1. PICK g \in Ranges, k \in {0, Top} :
              /\ range' = g /\ before' = g \cap Rows(table)
              /\ request' = [kind |-> "snapshot", scope |-> g, key |-> None, watermark |-> [stamp |-> now, key |-> k]]
        BY <3>1 DEF BeginSnapshot
      <4>2. [stamp |-> now, key |-> k] \in Place
        BY FeedAssumption DEF Place, TypeOK
      <4>3. request' \in Request
        BY <4>1, <4>2 DEF Request
      <4> QED BY <3>1, <4>1, <4>3 DEF BeginSnapshot, tableVars
    <3>2. CASE apiExportDatasetCSV
      <4>1. PICK g \in Ranges :
              /\ range' = g /\ before' = g \cap Rows(table)
              /\ request' = [kind |-> "export", scope |-> g, key |-> None]
        BY <3>2 DEF apiExportDatasetCSV
      <4>2. request' \in Request
        BY <4>1 DEF Request
      <4> QED BY <3>2, <4>1, <4>2 DEF apiExportDatasetCSV, tableVars
    <3> QED BY <1>3, <3>1, <3>2
  <2> QED BY <2>1 DEF Begun, Unread, Rows
<1>4. CASE Continue
  <2>1. request = None /\ UNCHANGED <<table, cursor, copy, range, before>>
    BY <1>4 DEF Continue, tableVars, projectVars
  <2>2. ASSUME cursor # None, cursor.kind = "snapshot"
        PROVE  /\ request' # None /\ request'.kind = "snapshot" /\ request'.key = cursor.key
    <3>1. \E g \in Ranges : request' = [kind |-> "snapshot", scope |-> g, key |-> cursor.key, watermark |-> cursor.watermark]
      BY <1>4, <2>2 DEF Continue, decodeCursor
    <3>2. request' \in Request
      BY <3>1, <2>2, CursorShape DEF Request, TypeOK
    <3> QED BY <3>1, <3>2
  <2>3. \A x : Unread(x) => Unread(x)'
    BY <2>1, <2>2 DEF Unread
  <2> QED BY <2>1, <2>3 DEF Begun, At
<1>5. CASE ExportCSV \/ Answer
  <2>1. request # None /\ copy' = Received /\ UNCHANGED <<table, range, before>>
    BY <1>5, PageQuiet
  <2>2. SUFFICES ASSUME NEW k \in before
                 PROVE  k \in range /\ table[k] # None /\ (Received[k] # 0 \/ Unread(At(table, k))')
    BY <2>1 DEF Begun
  <2>3. k \in Key /\ k \in range /\ table[k] # None /\ (copy[k] # 0 \/ Unread(At(table, k)))
    BY DEF Begun, TypeOK
  <2>4. CASE copy[k] # 0
    BY <2>3, <2>4, ReceivedKeeps
  <2>5. CASE Unread(At(table, k)) /\ Received[k] # table[k].ver
    <3>1. /\ request.kind \in {"snapshot", "export"}
          /\ request.key # None => After(At(table, k), request.key)
      BY <2>1, <2>5 DEF Unread
    <3>2. k \in Selected(request)
      BY <2>1, <2>3, <3>1 DEF Selected, Cursors
    <3>3. HasMore(table, request) /\ After(At(table, k), NextKey(table, request))
      BY <2>1, <2>3, <2>5, <3>1, <3>2, PageStep
    <3>4. NextKey(table, request) \in Place /\ NextKey(table, request) # None
      BY <2>1, <3>3, NextPlace
    <3>5. At(table, k)' = At(table, k)
      BY <2>1 DEF At
    <3>6. CASE /\ request.kind = "export"
               /\ request' = [kind |-> "export", scope |-> range, key |-> NextKey(table, request)]
      <4>1. request' \in Request
        BY <2>1, <3>4, <3>6 DEF Request, TypeOK
      <4> QED BY <2>3, <3>3, <3>5, <3>6, <4>1 DEF Unread
    <3>7. CASE /\ request.kind = "snapshot" /\ request' = None
               /\ cursor' = [kind |-> "snapshot", scope |-> range, key |-> NextKey(table, request),
                             watermark |-> request.watermark]
      <4>1. cursor' \in Envelope
        BY <2>1, <3>4, <3>7, RequestShape DEF Envelope, TypeOK
      <4> QED BY <2>3, <3>3, <3>5, <3>7, <4>1 DEF Unread
    <3> QED BY <1>5, <3>1, <3>3, <3>6, <3>7, NextPage
  <2> QED BY <2>3, <2>4, <2>5, ReceivedKeeps
<1>6. CASE AnswerLost
  <2>1. request # None /\ cursor # None /\ request' = None /\ UNCHANGED <<table, cursor, copy, range, before>>
    BY <1>6 DEF AnswerLost, tableVars, projectVars
  <2>2. ASSUME request.kind = "snapshot"
        PROVE  cursor.kind = "snapshot" /\ cursor.key = request.key /\ request.key # None
    <3>1. cursor.kind = "snapshot" /\ cursor.key = request.key
      BY <2>1, <2>2 DEF Cursors
    <3>2. cursor.key \in Place
      BY <2>1, <3>1, CursorShape DEF TypeOK
    <3> QED BY <3>1, <3>2
  <2>3. request.kind # "export"
    BY <2>1 DEF Cursors
  <2>4. \A x : Unread(x) => Unread(x)'
    BY <2>1, <2>2, <2>3 DEF Unread
  <2> QED BY <2>1, <2>4 DEF Begun, At
<1> QED
  BY <1>1, <1>2, <1>3, <1>4, <1>5, <1>6
  DEF Next, vars, tableVars, Tick, Statement, Rollback, projectVars

-----------------------------------------------------------------------------
(* Current copies *)

\* A row that the page, or the export, leaves behind is held in its newest version.
LEMMA PageCurrent ==
  ASSUME TypeOK, Joint, Cursors, CopyIsCurrent, ExportCSV \/ Answer,
         NEW k \in range, table[k] # None, k \notin late,
         ~Ahead(At(table, k), cursor', request', range)
  PROVE  Received[k] = table[k].ver
<1> USE NoneAssumption
<1>1. /\ request # None /\ request \in Request /\ request.kind \in {"snapshot", "changes", "export"}
      /\ k \in Key /\ At(table, k).key = k
  BY PageQuiet, RequestShape, FeedAssumption DEF TypeOK, At
<1>2. SUFFICES ASSUME Received[k] # table[k].ver PROVE FALSE
  OBVIOUS
<1>3. Coming(At(table, k))
  BY <1>1, <1>2, ReceivedKeeps DEF CopyIsCurrent
<1>4. k \in Selected(request) /\ (request.key # None => After(At(table, k), request.key))
        => HasMore(table, request) /\ After(At(table, k), NextKey(table, request))
  BY <1>1, <1>2, PageStep
<1>5. HasMore(table, request) => NextKey(table, request) \in Place /\ NextKey(table, request) # None
  BY <1>1, NextPlace
<1>6. CASE request.kind = "export"
  <2>1. k \in Selected(request) /\ (request.key # None => After(At(table, k), request.key))
    BY <1>1, <1>3, <1>6 DEF Coming, Ahead, Selected, Cursors
  <2>2. request' = [kind |-> "export", scope |-> range, key |-> NextKey(table, request)]
    BY <1>4, <1>6, <2>1, NextPage
  <2>3. request' \in Request
    BY <1>4, <1>5, <2>1, <2>2 DEF Request, TypeOK
  <2> QED BY <1>1, <1>4, <2>1, <2>2, <2>3 DEF Ahead
<1>7. CASE request.kind = "snapshot"
  <2>1. \/ After(At(table, k), request.watermark)
        \/ k \in Selected(request) /\ (request.key # None => After(At(table, k), request.key))
    BY <1>1, <1>3, <1>7 DEF Coming, Ahead, Selected, Cursors
  <2>2. request' = None /\ cursor' = response(table, request) /\ request.watermark \in Place /\ range \in Ranges
    BY <1>1, <1>7, RequestShape DEF ExportCSV, Answer, TypeOK
  <2>3. CASE HasMore(table, request)
    <3>1. cursor' = [kind |-> "snapshot", scope |-> range, key |-> NextKey(table, request),
                     watermark |-> request.watermark]
      BY <1>7, <2>3, NextPage
    <3>2. cursor' \in Envelope
      BY <1>5, <2>2, <2>3, <3>1 DEF Envelope
    <3> QED BY <1>1, <1>4, <2>1, <2>2, <3>1, <3>2 DEF Ahead
  <2>4. CASE ~HasMore(table, request)
    <3>1. cursor' = [kind |-> "changes", key |-> request.watermark]
      BY <1>7, <2>2, <2>4 DEF response
    <3>2. cursor' \in Envelope
      BY <2>2, <3>1 DEF Envelope
    <3> QED BY <1>4, <2>1, <2>2, <2>4, <3>1, <3>2 DEF Ahead
  <2> QED BY <2>3, <2>4
<1>8. CASE request.kind = "changes"
  <2>1. k \in Selected(request) /\ After(At(table, k), request.key)
    BY <1>1, <1>3, <1>8 DEF Coming, Ahead, Selected, Cursors
  <2>2. request' = None /\ cursor' = [kind |-> "changes", key |-> NextKey(table, request)]
    BY <1>4, <1>8, <2>1, NextPage
  <2>3. cursor' \in Envelope
    BY <1>4, <1>5, <2>1, <2>2 DEF Envelope
  <2> QED BY <1>4, <2>1, <2>2, <2>3 DEF Ahead
<1> QED BY <1>1, <1>6, <1>7, <1>8

\* A request stands for the same rows as the cursor it came with.
LEMMA SameAhead ==
  ASSUME TypeOK, Cursors, Continue \/ AnswerLost, NEW k \in range
  PROVE  Ahead(At(table, k), cursor', request', range) <=> Coming(At(table, k))
<1> USE NoneAssumption
<1>1. cursor' = cursor /\ cursor # None /\ cursor \in Envelope
  BY DEF Continue, AnswerLost, decodeCursor, projectVars, TypeOK
<1>2. CASE Continue
  <2>1. request = None
    BY <1>2 DEF Continue
  <2>2. CASE \E g \in Ranges :
               /\ decodeCursor(cursor, "snapshot", g)
               /\ request' = [kind |-> "snapshot", scope |-> g, key |-> cursor.key, watermark |-> cursor.watermark]
    <3>1. cursor.kind = "snapshot" /\ cursor.key \in Place /\ cursor.watermark \in Place
      BY <1>1, <2>2, CursorShape DEF decodeCursor
    <3>2. /\ request' \in Request /\ request'.kind = "snapshot"
          /\ request'.key = cursor.key /\ request'.watermark = cursor.watermark
      BY <2>2, <3>1 DEF Request
    <3> QED BY <1>1, <2>1, <3>1, <3>2 DEF Coming, Ahead
  <2>3. CASE /\ decodeCursor(cursor, "changes", range)
             /\ request' = [kind |-> "changes", key |-> cursor.key]
    <3>1. cursor.kind = "changes" /\ request'.kind = "changes"
      BY <2>3 DEF decodeCursor
    <3> QED BY <1>1, <2>1, <3>1 DEF Coming, Ahead
  <2> QED BY <1>2, <2>2, <2>3 DEF Continue
<1>3. CASE AnswerLost
  <2>1. request # None /\ request' = None /\ request \in Request
    BY <1>3 DEF AnswerLost, TypeOK
  <2>2. CASE request.kind = "snapshot"
    <3>1. /\ cursor.kind = "snapshot" /\ cursor.key = request.key /\ cursor.watermark = request.watermark
          /\ request.key # None
      BY <1>1, <2>1, <2>2, CursorShape DEF Cursors
    <3> QED BY <1>1, <2>1, <2>2, <3>1 DEF Coming, Ahead
  <2>3. CASE request.kind = "changes"
    BY <1>1, <2>1, <2>3 DEF Coming, Ahead
  <2>4. request.kind # "export"
    BY <1>1, <2>1 DEF Cursors
  <2> QED BY <2>1, <2>2, <2>3, <2>4, RequestShape
<1> QED BY <1>2, <1>3

LEMMA CurrentStep ==
  ASSUME TypeOK, Joint, Cursors, CopyIsCurrent, [Next]_vars
  PROVE  CopyIsCurrent'
<1> USE NoneAssumption
<1>1. CASE UNCHANGED <<table, request, projectVars, late>>
  BY <1>1 DEF CopyIsCurrent, Coming, At, projectVars
<1>2. ASSUME NEW w \in Writers, Commit(w) PROVE CopyIsCurrent'
  <2>1. UNCHANGED <<cursor, copy, range, request>>
    BY <1>2 DEF Commit
  <2>2. SUFFICES ASSUME NEW k \in range, table'[k] # None, k \notin late',
                        ~Ahead(At(table', k), cursor, request, range)
                 PROVE  copy[k] = table'[k].ver
    BY <2>1 DEF CopyIsCurrent, Coming, At
  <2>3. k \in Key
    BY FeedAssumption DEF TypeOK
  <2>4. k \notin Written(w) /\ k \notin late
    BY <1>2, <2>2 DEF Commit, Coming
  <2>5. table'[k] = table[k]
    BY <1>2, <2>3, <2>4 DEF Commit
  <2>6. At(table', k) = At(table, k)
    BY <2>5 DEF At
  <2> QED BY <2>2, <2>4, <2>5, <2>6 DEF CopyIsCurrent, Coming
<1>3. CASE BeginSnapshot \/ apiExportDatasetCSV
  <2>1. /\ request' # None /\ request'.kind \in {"snapshot", "export"} /\ request'.key = None
        /\ range' \in Ranges
    <3>1. CASE BeginSnapshot
      <4>1. PICK g \in Ranges, k \in {0, Top} :
              /\ range' = g
              /\ request' = [kind |-> "snapshot", scope |-> g, key |-> None, watermark |-> [stamp |-> now, key |-> k]]
        BY <3>1 DEF BeginSnapshot
      <4>2. [stamp |-> now, key |-> k] \in Place
        BY FeedAssumption DEF Place, TypeOK
      <4>3. request' \in Request
        BY <4>1, <4>2 DEF Request
      <4> QED BY <4>1, <4>3
    <3>2. CASE apiExportDatasetCSV
      <4>1. PICK g \in Ranges : range' = g /\ request' = [kind |-> "export", scope |-> g, key |-> None]
        BY <3>2 DEF apiExportDatasetCSV
      <4>2. request' \in Request
        BY <4>1 DEF Request
      <4> QED BY <4>1, <4>2
    <3> QED BY <1>3, <3>1, <3>2
  <2>2. \A k \in range' : Ahead(At(table', k), cursor', request', range')
    BY <2>1 DEF Ahead, At
  <2> QED BY <2>2 DEF CopyIsCurrent, Coming, At
<1>4. CASE ExportCSV \/ Answer
  <2>1. copy' = Received /\ UNCHANGED <<table, range, late>>
    BY <1>4, PageQuiet
  <2>2. ASSUME NEW k \in range, table[k] # None, k \notin late,
               ~Ahead(At(table, k), cursor', request', range)
        PROVE  Received[k] = table[k].ver
    BY <1>4, <2>2, PageCurrent
  <2> QED BY <2>1, <2>2 DEF CopyIsCurrent, Coming, At
<1>5. CASE Continue \/ AnswerLost
  <2>1. UNCHANGED <<table, copy, range, late>>
    BY <1>5 DEF Continue, AnswerLost, tableVars, projectVars
  <2>2. \A k \in range : Ahead(At(table, k), cursor', request', range) <=> Coming(At(table, k))
    BY <1>5, SameAhead
  <2> QED BY <2>1, <2>2 DEF CopyIsCurrent, Coming, At
<1> QED
  BY <1>1, <1>2, <1>3, <1>4, <1>5
  DEF Next, vars, tableVars, Tick, Statement, Rollback, projectVars

-----------------------------------------------------------------------------
(* Theorems *)

LEMMA StepInv ==
  IInv /\ [Next]_vars => IInv'
BY TypeStep, LocksStep, StampsStep, JointStep, CursorsStep, BegunStep, CurrentStep DEF IInv

LEMMA InvHolds ==
  Spec => []IInv
BY InitInv, StepInv, PTL DEF Spec

\* Cursors and requests of the dataset API, and the versions handed out, are well formed
\* at every page.
THEOREM TypeCorrect ==
  Spec => []TypeOK
<1>1. IInv => TypeOK
  BY DEF IInv
<1> QED BY <1>1, InvHolds, PTL

\* Reading behind a keyset cursor never leaves an old version behind, but for rows that
\* were committed behind the cursor.
THEOREM CopyStaysCurrent ==
  Spec => []CopyIsCurrent
<1>1. IInv => CopyIsCurrent
  BY DEF IInv
<1> QED BY <1>1, InvHolds, PTL

\* A snapshot read to its end, or an exported file, misses no row that was there when it
\* began, although rows are written, moved and deleted between its pages.
THEOREM SnapshotsStayComplete ==
  Spec => []SnapshotIsComplete
<1>1. IInv => SnapshotIsComplete
  <2>1. SUFFICES ASSUME IInv, cursor # None, cursor.kind \in {"changes", "file"}, NEW k \in before
                 PROVE  copy[k] # 0
    BY DEF SnapshotIsComplete
  <2>2. ~Unread(At(table, k))
    BY <2>1 DEF IInv, Cursors, Unread
  <2> QED BY <2>1, <2>2 DEF IInv, Begun
<1> QED BY <1>1, InvHolds, PTL
=============================================================================
