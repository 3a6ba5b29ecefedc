---------------------------- MODULE PageFetchProofs ----------------------------
(***************************************************************************)
(* Proofs about PageFetch, for rows, page sizes and numbers of pages of    *)
(* any kind, and any number of fetches, changes and false answers.         *)
(***************************************************************************)
EXTENDS PageFetch, SequenceTheorems, TLAPS

-----------------------------------------------------------------------------
(* The inductive invariant *)

Loop  == {"head", "wait", "call", "backoff"}
Pages == {"plain", "inventory", "ad"}

\* The clock stands still during a task; the counters have room where they are used.
Counts ==
  /\ now = started /\ now > 0
  /\ pc \in Loop => pages < MaxPages
  /\ pc = "backoff" => attempt < 5
  /\ pc = "replace" => mode = "ad"
  /\ pc = "capture" => mode = "inventory"

\* The buffer is as long as the offset.  As long as no answer was false, a change of the
\* upstream since the first page shows in its length, unless rows came and went; and
\* without a change the buffer is the beginning of the upstream.
Buffered ==
  mode = "ad" /\ pc \in Loop \cup {"replace"} =>
    /\ Len(buffer) = offset
    /\ pages > 0 => expected # None
    /\ expected = None => offset = 0 /\ ~shrank /\ ~grew
    /\ pc = "replace" => expected = offset
    /\ lies = 0 /\ ~shrank /\ ~grew =>
         /\ offset <= Len(upstream)
         /\ \A i \in 1..offset : buffer[i] = upstream[i]
         /\ expected # None => expected = Len(upstream)
    /\ lies = 0 /\ shrank /\ ~grew => pc # "replace" /\ Len(upstream) < expected
    /\ lies = 0 /\ ~shrank /\ grew => pc # "replace" /\ expected < Len(upstream)

\* Where a row with this key has to be once it was fetched.
Stored(k) == IF mode = "ad" THEN k \in Keys(buffer) ELSE table[k] >= started

Wanted(row) == mode = "inventory" => row.kind = "good"

Rows(seq) == {seq[i] : i \in 1..Len(seq)}

\* As long as no answer was false and no row went away, the rows of the beginning are
\* all still there, and those up to the offset are stored: a row that comes in moves
\* the others only away from the beginning.
Covered ==
  mode \in Pages /\ pc \in Loop \cup {"replace", "capture"} /\ lies = 0 /\ ~shrank =>
    /\ Rows(base) \subseteq Rows(upstream)
    /\ \A p \in 1..Len(upstream) :
         p <= offset /\ upstream[p] \in Rows(base) /\ Wanted(upstream[p]) => Stored(upstream[p].key)
    /\ pc \in {"replace", "capture"} /\ signals # {} => \A k \in Kept(base) : Stored(k)

\* The orders up to the offset have their details.
Detailed ==
  mode \in Details /\ pc \in Loop => \A i \in 1..Len(base) : i <= offset => table[base[i].key] >= started

\* What was written since the task began was written by it.
Stamped ==
  mode = "inventory" /\ pc \in Active /\ fresh => {k \in Key : table[k] >= started} = got

DataInv == Buffered /\ Covered /\ Detailed /\ Stamped /\ SuccessIsComplete

IInv == TypeOK /\ Counts /\ DataInv

-----------------------------------------------------------------------------
(* Answers *)

LEMMA SubSeqShape ==
  ASSUME NEW u \in Seq(Row), NEW i \in 0..Len(u), NEW j \in 0..Len(u)
  PROVE  /\ SubSeq(u, i + 1, j) \in Seq(Row)
         /\ Len(SubSeq(u, i + 1, j)) = IF i < j THEN j - i ELSE 0
         /\ \A x \in 1..(j - i) : SubSeq(u, i + 1, j)[x] = u[i + x]
<1>1. \A x \in (i + 1)..j : u[x] \in Row
  BY ElementOfSeq, LenProperties
<1> QED BY <1>1, SubSeqProperties, LenProperties

LEMMA AnswerShape ==
  ASSUME TypeOK, NEW a \in Answers
  PROVE  /\ a.rows \in Seq(Row) /\ Len(a.rows) \in Nat
         /\ a.rows = <<>> <=> Len(a.rows) = 0
         /\ a.total \in Nat \cup {None} /\ a.more \in BOOLEAN \cup {None}
         /\ "total" \in signals => a.total # None
         /\ "more" \in signals => a.more # None
<1>1. PICK i \in 0..Len(upstream), j \in 0..Len(upstream),
           t \in IF "total" \in signals THEN 0..Len(upstream) + 1 ELSE {None},
           m \in IF "more" \in signals THEN BOOLEAN ELSE {None} :
        a = [rows |-> SubSeq(upstream, i + 1, j), total |-> t, more |-> m]
  BY DEF Answers
<1>2. upstream \in Seq(Row) /\ Len(upstream) \in Nat
  BY LenProperties DEF TypeOK
<1>3. a.rows \in Seq(Row) /\ Len(a.rows) \in Nat
  BY <1>1, <1>2, SubSeqShape, LenProperties
<1>4. a.rows = <<>> <=> Len(a.rows) = 0
  BY <1>3, EmptySeq
<1>5. /\ a.total \in Nat \cup {None}
      /\ "total" \in signals => a.total # None
  BY <1>1, <1>2, FetchAssumption
<1>6. a.more \in BOOLEAN \cup {None}
  BY <1>1
<1>7. "more" \in signals => a.more # None
  BY <1>1, FetchAssumption
<1> QED BY <1>3, <1>4, <1>5, <1>6, <1>7

LEMMA HonestRows ==
  ASSUME TypeOK, NEW a \in Answers, Honest(a)
  PROVE  /\ a.rows # <<>> => offset + Len(a.rows) <= Len(upstream)
         /\ \A x \in 1..Len(a.rows) : a.rows[x] = upstream[offset + x]
<1>0. /\ upstream \in Seq(Row) /\ Len(upstream) \in Nat /\ offset \in Nat /\ Len(a.rows) \in Nat
      /\ a.rows = <<>> <=> Len(a.rows) = 0
  BY LenProperties, AnswerShape DEF TypeOK
<1>1. CASE a.rows = <<>>
  BY <1>0, <1>1
<1>2. CASE a.rows # <<>>
  <2>1. /\ offset + Len(a.rows) <= Len(upstream)
        /\ a.rows = SubSeq(upstream, offset + 1, offset + Len(a.rows))
    BY <1>2 DEF Honest
  <2>2. /\ offset \in 0..Len(upstream) /\ offset + Len(a.rows) \in 0..Len(upstream)
        /\ (offset + Len(a.rows)) - offset = Len(a.rows)
    BY <1>0, <2>1
  <2>3. \A x \in 1..((offset + Len(a.rows)) - offset) :
          SubSeq(upstream, offset + 1, offset + Len(a.rows))[x] = upstream[offset + x]
    BY <1>0, <2>2, SubSeqShape
  <2> QED BY <2>1, <2>2, <2>3
<1> QED BY <1>1, <1>2

\* Where a true answer ends the paging, nothing is left.
LEMMA LastPage ==
  ASSUME TypeOK, NEW a \in Answers, Honest(a), signals # {},
         ~shouldContinuePaging(a, offset + Len(a.rows))
  PROVE  Len(upstream) <= offset + Len(a.rows)
<1>0. /\ Len(upstream) \in Nat /\ offset \in Nat /\ Len(a.rows) \in Nat
      /\ signals \subseteq {"total", "more"} /\ upstream \in Seq(Row)
  BY LenProperties, AnswerShape DEF TypeOK
<1>1. CASE a.rows = <<>>
  BY <1>0, <1>1 DEF Honest
<1>2. CASE a.rows # <<>> /\ a.more # None
  BY <1>0, <1>2 DEF Honest, shouldContinuePaging
<1>3. CASE a.rows # <<>> /\ a.more = None
  <2>1. a.total # None /\ a.total \in Nat
    BY <1>0, <1>3, AnswerShape
  <2>2. a.total = Len(upstream) /\ ~(a.total > 0 /\ offset + Len(a.rows) < a.total)
    BY <1>3, <2>1 DEF Honest, shouldContinuePaging
  <2> QED BY <1>0, <2>2
<1> QED BY <1>1, <1>2, <1>3

\* Where a valid page of an advertising partition ends the paging, the total is there.
LEMMA LastAdPage ==
  ASSUME TypeOK, NEW a \in Answers, NEW fetched \in Nat, NEW total \in Nat,
         validateAdPage(a, fetched, total), ~shouldContinuePaging(a, fetched)
  PROVE  fetched = total
<1>0. a.total = total /\ a.more \in BOOLEAN \cup {None} /\ None \notin BOOLEAN /\ None \notin Nat
  BY AnswerShape, FetchAssumption DEF validateAdPage
<1>1. CASE total = 0
  BY <1>0, <1>1 DEF validateAdPage
<1>2. CASE total # 0 /\ a.rows = <<>>
  BY <1>0, <1>2 DEF validateAdPage
<1>3. CASE total # 0 /\ a.rows # <<>> /\ a.more = None
  BY <1>0, <1>3 DEF validateAdPage, shouldContinuePaging
<1>4. CASE total # 0 /\ a.rows # <<>> /\ a.more # None
  BY <1>0, <1>4 DEF validateAdPage, shouldContinuePaging
<1> QED BY <1>1, <1>2, <1>3, <1>4

\* A row that goes, and one that comes.
LEMMA WithoutShape ==
  ASSUME upstream \in Seq(Row), NEW i \in 1..Len(upstream)
  PROVE  Without(i) \in Seq(Row) /\ Len(Without(i)) = Len(upstream) - 1
<1> DEFINE n == Len(upstream)
           s == SubSeq(upstream, 1, i - 1)
           t == SubSeq(upstream, i + 1, n)
<1>1. n \in Nat /\ i \in Nat /\ 1 <= i /\ i <= n
  BY LenProperties
<1>2. s \in Seq(Row) /\ Len(s) = i - 1
  <2>1. 0 \in 0..n /\ i - 1 \in 0..n
    BY <1>1
  <2>2. /\ SubSeq(upstream, 0 + 1, i - 1) \in Seq(Row)
        /\ Len(SubSeq(upstream, 0 + 1, i - 1)) = IF 0 < i - 1 THEN (i - 1) - 0 ELSE 0
    BY <2>1, SubSeqShape
  <2> QED BY <1>1, <2>2
<1>3. t \in Seq(Row) /\ Len(t) = n - i
  <2>1. i \in 0..n /\ n \in 0..n
    BY <1>1
  <2>2. t \in Seq(Row) /\ Len(t) = IF i < n THEN n - i ELSE 0
    BY <2>1, SubSeqShape
  <2> QED BY <1>1, <2>2
<1>4. s \o t \in Seq(Row) /\ Len(s \o t) = Len(s) + Len(t)
  BY <1>2, <1>3, ConcatProperties
<1>5. Without(i) = s \o t
  BY DEF Without
<1> HIDE DEF s, t
<1>6. Len(s \o t) = (i - 1) + (n - i)
  BY <1>2, <1>3, <1>4
<1>7. (i - 1) + (n - i) = n - 1
  BY <1>1
<1> QED BY <1>4, <1>5, <1>6, <1>7

LEMMA WithShape ==
  ASSUME upstream \in Seq(Row), NEW i \in 0..Len(upstream), NEW k \in Key
  PROVE  LET w == With(i, k)
         IN /\ w \in Seq(Row) /\ Len(w) = Len(upstream) + 1
            /\ \A p \in 1..Len(w) : w[p] = IF p <= i THEN upstream[p]
                                          ELSE IF p = i + 1 THEN [key |-> k, kind |-> "good"]
                                          ELSE upstream[p - 1]
<1> DEFINE n == Len(upstream)
           s == SubSeq(upstream, 1, i)
           m == <<[key |-> k, kind |-> "good"]>>
           t == SubSeq(upstream, i + 1, n)
<1>1. n \in Nat /\ i \in Nat /\ i <= n
  BY LenProperties
<1>2. s \in Seq(Row) /\ Len(s) = i /\ \A x \in 1..i : s[x] = upstream[x]
  <2>1. 0 \in 0..n /\ i \in 0..n
    BY <1>1
  <2>2. /\ SubSeq(upstream, 0 + 1, i) \in Seq(Row)
        /\ Len(SubSeq(upstream, 0 + 1, i)) = IF 0 < i THEN i - 0 ELSE 0
        /\ \A x \in 1..(i - 0) : SubSeq(upstream, 0 + 1, i)[x] = upstream[0 + x]
    BY <2>1, SubSeqShape
  <2> QED BY <1>1, <2>2
<1>3. t \in Seq(Row) /\ Len(t) = n - i /\ \A x \in 1..(n - i) : t[x] = upstream[i + x]
  <2>1. i \in 0..n /\ n \in 0..n
    BY <1>1
  <2>2. /\ t \in Seq(Row) /\ Len(t) = IF i < n THEN n - i ELSE 0
        /\ \A x \in 1..(n - i) : t[x] = upstream[i + x]
    BY <2>1, SubSeqShape
  <2> QED BY <1>1, <2>2
<1>4. m \in Seq(Row) /\ Len(m) = 1 /\ m[1] = [key |-> k, kind |-> "good"]
  BY DEF Row
<1> HIDE DEF s, m, t
<1>5. s \o m \in Seq(Row) /\ Len(s \o m) = i + 1
      /\ \A x \in 1..(i + 1) : (s \o m)[x] = IF x <= i THEN s[x] ELSE m[x - i]
  <2>1. /\ s \o m \in Seq(Row) /\ Len(s \o m) = Len(s) + Len(m)
        /\ \A x \in 1..(Len(s) + Len(m)) : (s \o m)[x] = IF x <= Len(s) THEN s[x] ELSE m[x - Len(s)]
    BY <1>2, <1>4, ConcatProperties
  <2> QED BY <1>1, <1>2, <1>4, <2>1
<1>6. (s \o m) \o t \in Seq(Row) /\ Len((s \o m) \o t) = n + 1
      /\ \A x \in 1..(n + 1) : ((s \o m) \o t)[x] = IF x <= i + 1 THEN (s \o m)[x] ELSE t[x - (i + 1)]
  <2>1. /\ (s \o m) \o t \in Seq(Row) /\ Len((s \o m) \o t) = Len(s \o m) + Len(t)
        /\ \A x \in 1..(Len(s \o m) + Len(t)) :
             ((s \o m) \o t)[x] = IF x <= Len(s \o m) THEN (s \o m)[x] ELSE t[x - Len(s \o m)]
    BY <1>3, <1>5, ConcatProperties
  <2> QED BY <1>1, <1>3, <1>5, <2>1
<1>7. With(i, k) = (s \o m) \o t
  BY DEF With, s, m, t
<1>8. ASSUME NEW p \in 1..(n + 1)
      PROVE  With(i, k)[p] = IF p <= i THEN upstream[p]
                             ELSE IF p = i + 1 THEN [key |-> k, kind |-> "good"]
                             ELSE upstream[p - 1]
  <2>1. CASE p <= i
    BY <1>1, <1>2, <1>5, <1>6, <1>7, <2>1
  <2>2. CASE p = i + 1
    <3>0. p \in 1..(i + 1) /\ ~(p <= i) /\ p - i = 1 /\ p <= i + 1
      BY <1>1, <2>2
    <3>1. With(i, k)[p] = (s \o m)[p] /\ (s \o m)[p] = m[1]
      <4>1. (s \o m)[p] = m[p - i]
        BY <1>5, <3>0
      <4> QED BY <1>6, <1>7, <3>0, <4>1
    <3> QED BY <1>1, <1>4, <2>2, <3>1
  <2>3. CASE i + 1 < p
    <3>1. With(i, k)[p] = t[p - (i + 1)] /\ p - (i + 1) \in 1..(n - i)
      BY <1>1, <1>6, <1>7, <2>3
    <3>2. t[p - (i + 1)] = upstream[i + (p - (i + 1))] /\ i + (p - (i + 1)) = p - 1
      BY <1>1, <1>3, <3>1
    <3> QED BY <1>1, <2>3, <3>1, <3>2
  <2> QED BY <1>1, <2>1, <2>2, <2>3
<1> QED BY <1>1, <1>6, <1>7, <1>8

-----------------------------------------------------------------------------
(* Types and counters *)

LEMMA InitInv ==
  Init => IInv
<1> SUFFICES ASSUME Init PROVE IInv
  OBVIOUS
<1>1. TypeOK
  <2>1. upstream \in Seq(Row) /\ base \in Seq(Row) /\ buffer \in Seq(Row)
    BY FetchAssumption, EmptySeq DEF Init
  <2>2. signals \subseteq {"total", "more"}
    BY DEF Init
  <2>3. /\ mode \in Modes /\ pc \in Active \cup Ended
        /\ offset \in Nat /\ pages \in 0..MaxPages /\ attempt \in 0..5 /\ expected \in Nat \cup {None}
        /\ now \in Nat /\ started \in Nat /\ lies \in Nat /\ runs \in Nat /\ changes \in Nat
    BY FetchAssumption DEF Init, Ended
  <2>4. table \in [Key -> Nat] /\ snapshot \subseteq Key /\ got \subseteq Key
    BY DEF Init
  <2>5. cancelled \in BOOLEAN /\ shrank \in BOOLEAN /\ grew \in BOOLEAN /\ fresh \in BOOLEAN
    BY Zenon DEF Init
  <2> QED BY <2>1, <2>2, <2>3, <2>4, <2>5 DEF TypeOK
<1>2. Counts /\ DataInv
  BY DEF Init, Counts, DataInv, Loop, Pages, Active, Buffered, Covered, Detailed, Stamped, SuccessIsComplete
<1> QED BY <1>1, <1>2 DEF IInv

\* A step that only moves the program counter.
LEMMA StopsType ==
  ASSUME TypeOK, Counts, NEW how, Stops(how), how \in Active \cup Ended,
         how \in Loop => pc \in Loop,
         how = "backoff" => attempt < 5,
         how \notin {"replace", "capture"}
  PROVE  TypeOK' /\ Counts'
<1> USE DEF Stops, taskVars, loopVars, dataVars, noteVars
<1>1. TypeOK'
  BY DEF TypeOK
<1>2. Counts'
  BY DEF Counts
<1> QED BY <1>1, <1>2

LEMMA TypeStep ==
  ASSUME TypeOK, Counts, [Next]_vars
  PROVE  TypeOK' /\ Counts'
<1> USE FetchAssumption
<1>1. CASE Start
  <2>0. /\ fresh' \in BOOLEAN /\ shrank' \in BOOLEAN /\ grew' \in BOOLEAN /\ cancelled' \in BOOLEAN
        /\ buffer' \in Seq(Row)
    BY <1>1, EmptySeq, Zenon DEF Start
  <2>1. TypeOK'
    <3>1. /\ pc' \in Active \cup Ended /\ now' \in Nat /\ started' \in Nat /\ runs' \in Nat
          /\ pages' \in 0..MaxPages /\ attempt' \in 0..5 /\ offset' \in Nat /\ expected' \in Nat \cup {None}
          /\ lies' \in Nat /\ got' \subseteq Key /\ base' \in Seq(Row)
      BY <1>1 DEF Start, TypeOK, Active
    <3>2. UNCHANGED <<mode, signals, upstream, table, snapshot, changes>>
      BY <1>1 DEF Start
    <3> QED BY <2>0, <3>1, <3>2 DEF TypeOK
  <2>2. Counts'
    BY <1>1 DEF Start, TypeOK, Counts, Loop
  <2> QED BY <2>1, <2>2
<1>2. CASE CandidatesFail
  BY <1>2, StopsType DEF CandidatesFail, Ended, Loop
<1>3. CASE LoopHead
  BY <1>3, StopsType DEF LoopHead, Active, Ended, Loop
<1>4. CASE Admit
  BY <1>4, StopsType DEF Admit, Active, Ended, Loop
<1>5. CASE CallFails
  <2>1. PICK kind \in Failures : Stops(IF ~cancelled /\ attempt < RetryLimit[kind] THEN "backoff" ELSE "failed")
    BY <1>5 DEF CallFails
  <2>2. RetryLimit[kind] \in 0..5
    BY DEF Failures, RetryLimit
  <2>3. attempt \in 0..5 /\ (attempt < RetryLimit[kind] => attempt < 5)
    BY <2>2 DEF TypeOK
  <2>4. CASE ~cancelled /\ attempt < RetryLimit[kind]
    BY <1>5, <2>1, <2>3, <2>4, StopsType DEF CallFails, Active, Loop
  <2>5. CASE ~(~cancelled /\ attempt < RetryLimit[kind])
    BY <1>5, <2>1, <2>5, StopsType DEF CallFails, Ended, Loop
  <2> QED BY <2>4, <2>5
<1>6. CASE Backoff
  <2>1. CASE Stops("failed")
    BY <2>1, StopsType DEF Ended, Loop
  <2>2. CASE ~Stops("failed")
    <3>1. pc = "backoff" /\ pc' = "wait" /\ attempt' = attempt + 1 /\ attempt \in 0..5 /\ attempt < 5
      BY <1>6, <2>2 DEF Backoff, Counts, TypeOK
    <3>2. TypeOK'
      <4>1. attempt' \in 0..5 /\ pc' \in Active \cup Ended
        BY <3>1 DEF Active
      <4>2. UNCHANGED <<taskVars, upstream, offset, pages, expected, buffer, cancelled, dataVars, snapshot, noteVars>>
        BY <1>6, <2>2 DEF Backoff
      <4> QED BY <4>1, <4>2 DEF TypeOK, taskVars, dataVars, noteVars
    <3>3. Counts'
      BY <1>6, <2>2, <3>1 DEF Backoff, Counts, taskVars, Loop
    <3> QED BY <3>2, <3>3
  <2> QED BY <2>1, <2>2
<1>7. CASE ProbeAnswered
  <2>1. lies' \in Nat /\ pc' = "done" /\ pages' = pages + 1
    BY <1>7 DEF ProbeAnswered, Answered, TypeOK
  <2>2. pages' \in 0..MaxPages
    BY <1>7, <2>1 DEF ProbeAnswered, Counts, Loop, TypeOK
  <2>3. TypeOK'
    BY <1>7, <2>1, <2>2 DEF ProbeAnswered, TypeOK, taskVars, dataVars, Active, Ended
  <2>4. Counts'
    BY <1>7, <2>1 DEF ProbeAnswered, Counts, taskVars, Loop
  <2> QED BY <2>3, <2>4
<1>8. CASE PageFails
  <2>1. lies' \in Nat /\ pc' = "failed"
    BY <1>8 DEF PageFails, Answered, TypeOK
  <2>2. TypeOK'
    BY <1>8, <2>1 DEF PageFails, TypeOK, taskVars, loopVars, dataVars, Active, Ended
  <2>3. Counts'
    BY <1>8, <2>1 DEF PageFails, Counts, taskVars, Loop
  <2> QED BY <2>2, <2>3
<1>9. CASE PageKept
  <2>1. PICK a \in Answers :
          /\ Answered(a) /\ ~PageRefused(a)
          /\ IF mode = "ad"
             THEN /\ buffer' = buffer \o a.rows
                  /\ expected' = IF expected = None THEN a.total ELSE expected
                  /\ UNCHANGED dataVars
             ELSE UpsertRows(a.rows) /\ UNCHANGED <<buffer, expected>>
          /\ pc' = AfterPage(a)
          /\ offset' = offset + Len(a.rows)
    BY <1>9 DEF PageKept
  <2>2. /\ pages' = pages + 1 /\ attempt' = 0 /\ pc = "call" /\ mode \in {"plain", "inventory", "ad"}
        /\ UNCHANGED <<taskVars, upstream, cancelled, snapshot, shrank, grew, fresh, runs, changes>>
    BY <1>9 DEF PageKept
  <2>3. /\ a.rows \in Seq(Row) /\ Len(a.rows) \in Nat /\ a.total \in Nat \cup {None}
        /\ buffer \o a.rows \in Seq(Row)
    BY AnswerShape, ConcatProperties DEF TypeOK
  <2>4. lies' \in Nat
    BY <2>1 DEF Answered, TypeOK
  <2>5. pages < MaxPages /\ pages \in Nat
    BY <2>2 DEF Counts, Loop, TypeOK
  <2>6. /\ pc' \in {"replace", "capture", "done", "failed", "head"}
        /\ pc' = "head" => pages + 1 < MaxPages
        /\ pc' = "replace" => mode = "ad"
        /\ pc' = "capture" => mode = "inventory"
    <3>1. CASE ~shouldContinuePaging(a, offset + Len(a.rows))
      BY <2>1, <2>2, <3>1 DEF AfterPage
    <3>2. CASE shouldContinuePaging(a, offset + Len(a.rows))
      BY <2>1, <2>5, <3>2 DEF AfterPage
    <3> QED BY <3>1, <3>2
  <2>7. buffer' \in Seq(Row) /\ expected' \in Nat \cup {None}
    BY <2>1, <2>3 DEF TypeOK
  <2>8. table' \in [Key -> Nat] /\ got' \subseteq Key
    <3>1. CASE mode = "ad"
      BY <2>1, <3>1 DEF dataVars, TypeOK
    <3>2. CASE mode # "ad"
      <4>1. Kept(a.rows) \subseteq Key
        <5>1. \A i \in 1..Len(a.rows) : a.rows[i] \in Row
          BY <2>3, ElementOfSeq
        <5> QED BY <5>1 DEF Kept, Row
      <4> QED BY <2>1, <3>2, <4>1 DEF UpsertRows, TypeOK
    <3> QED BY <3>1, <3>2
  <2>9. pages' \in 0..MaxPages /\ offset' \in Nat
    BY <2>1, <2>2, <2>3, <2>5 DEF TypeOK
  <2>10. TypeOK'
    BY <2>2, <2>4, <2>6, <2>7, <2>8, <2>9 DEF TypeOK, taskVars, Active, Ended
  <2>11. Counts'
    BY <2>2, <2>6 DEF Counts, taskVars, Loop
  <2> QED BY <2>10, <2>11
<1>10. CASE ReplaceFails
  BY <1>10, StopsType DEF ReplaceFails, Ended, Loop
<1>11. CASE ReplaceAdPartition
  <2>1. Keys(buffer) \subseteq Key
    <3>1. \A i \in 1..Len(buffer) : buffer[i] \in Row
      BY ElementOfSeq DEF TypeOK
    <3> QED BY <3>1 DEF Keys, Row
  <2>2. table' \in [Key -> Nat] /\ got' \subseteq Key
    BY <1>11, <2>1 DEF ReplaceAdPartition, TypeOK
  <2>3. TypeOK'
    BY <1>11, <2>2 DEF ReplaceAdPartition, TypeOK, taskVars, loopVars, noteVars, Active, Ended
  <2>4. Counts'
    BY <1>11 DEF ReplaceAdPartition, Counts, taskVars, Loop
  <2> QED BY <2>3, <2>4
<1>12. CASE CaptureFBAInventorySnapshots
  <2>1. TypeOK'
    BY <1>12 DEF CaptureFBAInventorySnapshots, TypeOK, taskVars, loopVars, dataVars, noteVars, Active, Ended
  <2>2. Counts'
    BY <1>12 DEF CaptureFBAInventorySnapshots, Counts, taskVars, Loop
  <2> QED BY <2>1, <2>2
<1>13. CASE CaptureFails
  BY <1>13, StopsType DEF CaptureFails, Ended, Loop
<1>14. CASE DetailsFail
  BY <1>14, StopsType DEF DetailsFail, Ended, Loop
<1>15. CASE DetailsKept
  <2>1. PICK answered \in SUBSET Key :
          /\ table' = [k \in Key |-> IF k \in answered THEN now ELSE table[k]]
          /\ got' = got \cup answered
    BY <1>15 DEF DetailsKept
  <2>2. table' \in [Key -> Nat] /\ got' \subseteq Key
    BY <2>1 DEF TypeOK
  <2>3. offset' \in Nat
    BY <1>15 DEF DetailsKept, BatchSize, TypeOK
  <2>4. TypeOK'
    BY <1>15, <2>2, <2>3 DEF DetailsKept, TypeOK, taskVars, noteVars, Active, Ended
  <2>5. Counts'
    BY <1>15 DEF DetailsKept, Counts, taskVars, Loop
  <2> QED BY <2>4, <2>5
<1>16. CASE Cancel
  <2>1. TypeOK'
    BY <1>16 DEF Cancel, TypeOK, taskVars, loopVars, dataVars, noteVars
  <2>2. Counts'
    BY <1>16 DEF Cancel, Counts, taskVars, loopVars
  <2> QED BY <2>1, <2>2
<1>17. CASE Die
  <2>1. TypeOK'
    <3>1. /\ pc' \in Active \cup Ended /\ offset' \in Nat /\ pages' \in 0..MaxPages /\ attempt' \in 0..5
          /\ expected' \in Nat \cup {None} /\ got' \subseteq Key /\ lies' \in Nat
      BY <1>17 DEF Die, Ended
    <3>2. buffer' \in Seq(Row) /\ cancelled' \in BOOLEAN /\ shrank' \in BOOLEAN /\ grew' \in BOOLEAN
      BY <1>17, EmptySeq, Zenon DEF Die
    <3>3. UNCHANGED <<taskVars, upstream, table, snapshot, fresh, runs, changes>>
      BY <1>17 DEF Die
    <3> QED BY <3>1, <3>2, <3>3 DEF TypeOK, taskVars
  <2>2. Counts'
    BY <1>17 DEF Die, Counts, taskVars, Loop
  <2> QED BY <2>1, <2>2
<1>18. CASE ChangeUpstream
  <2>1. upstream' \in Seq(Row)
    <3>1. CASE \E i \in 1..Len(upstream) : upstream' = Without(i)
      BY <3>1, WithoutShape DEF TypeOK
    <3>2. CASE \E i \in 0..Len(upstream), k \in Key \ Keys(upstream) : upstream' = With(i, k)
      BY <3>2, WithShape DEF TypeOK
    <3> QED BY <1>18, <3>1, <3>2 DEF ChangeUpstream
  <2>2. shrank' \in BOOLEAN /\ grew' \in BOOLEAN
    BY <1>18 DEF ChangeUpstream, TypeOK
  <2>3. TypeOK'
    BY <1>18, <2>1, <2>2 DEF ChangeUpstream, TypeOK, taskVars, loopVars, dataVars
  <2>4. Counts'
    BY <1>18 DEF ChangeUpstream, Counts, taskVars, loopVars
  <2> QED BY <2>3, <2>4
<1>19. CASE UNCHANGED vars
  <2>1. TypeOK'
    BY <1>19 DEF TypeOK, vars, taskVars, loopVars, dataVars, noteVars
  <2>2. Counts'
    BY <1>19 DEF Counts, vars, taskVars, loopVars
  <2> QED BY <2>1, <2>2
<1> QED
  BY <1>1, <1>2, <1>3, <1>4, <1>5, <1>6, <1>7, <1>8, <1>9, <1>10, <1>11, <1>12, <1>13, <1>14,
     <1>15, <1>16, <1>17, <1>18, <1>19 DEF Next, Work

-----------------------------------------------------------------------------
(* What was fetched: steps that store nothing *)

\* A step inside the loop, or beside it, that leaves the fetch alone.
LEMMA Moving ==
  ASSUME DataInv,
         UNCHANGED <<taskVars, upstream, offset, pages, expected, buffer, dataVars, lies, shrank, grew, fresh>>,
         pc' = pc \/ (pc \in Loop /\ pc' \in Loop \cup {"failed"})
  PROVE  DataInv'
<1> USE DEF DataInv, taskVars, dataVars
<1>1. Buffered'
  BY DEF Buffered, Loop
<1>2. Covered'
  <2>1. /\ Rows(base)' = Rows(base) /\ Rows(upstream)' = Rows(upstream) /\ Kept(base)' = Kept(base)
        /\ \A k : Stored(k)' <=> Stored(k)
        /\ \A row : Wanted(row)' <=> Wanted(row)
    BY DEF Rows, Kept, Stored, Wanted, Keys
  <2>2. CASE pc' = pc \/ (pc \in Loop /\ pc' \in Loop)
    <3>1. pc' \in {"replace", "capture"} => pc' = pc
      BY <2>2 DEF Loop
    <3> QED BY <2>1, <2>2, <3>1 DEF Covered
  <2>3. CASE pc' = "failed"
    BY <2>3 DEF Covered, Loop
  <2> QED BY <2>2, <2>3
<1>3. Detailed'
  BY DEF Detailed, Loop
<1>4. Stamped'
  BY DEF Stamped, Active, Loop
<1>5. SuccessIsComplete'
  BY DEF SuccessIsComplete, Loop, Kept, Keys
<1> QED BY <1>1, <1>2, <1>3, <1>4, <1>5

\* Nothing is promised of a fetch that failed or was lost.
LEMMA Ending ==
  ASSUME pc' \in {"idle", "failed"}
  PROVE  DataInv'
BY DEF DataInv, Buffered, Covered, Detailed, Stamped, SuccessIsComplete, Loop, Active, Pages

\* The last step of an inventory fetch.
LEMMA Captured ==
  ASSUME TypeOK, Counts, DataInv, pc = "capture", pc' = "done",
         UNCHANGED <<taskVars, dataVars, lies, shrank>>
  PROVE  DataInv'
<1>1. mode = "inventory" /\ mode' = mode
  BY DEF Counts, taskVars
<1>2. SuccessIsComplete'
  BY <1>1 DEF DataInv, SuccessIsComplete, Kept, Details, taskVars, dataVars
<1> QED
  BY <1>1, <1>2 DEF DataInv, Buffered, Covered, Detailed, Stamped, Loop, Active, Details

LEMMA StartKeeps ==
  ASSUME TypeOK, DataInv, Start
  PROVE  DataInv'
<1>1. /\ pc' = "head" /\ offset' = 0 /\ pages' = 0 /\ expected' = None /\ buffer' = <<>> /\ got' = {}
      /\ lies' = 0 /\ ~shrank' /\ ~grew' /\ base' = upstream
      /\ UNCHANGED <<mode, signals, upstream, table>>
      /\ started' = now' /\ started' \in Nat
  BY DEF Start, TypeOK
<1>2. Buffered'
  <2>1. Len(upstream') \in Nat /\ Len(buffer') = 0
    BY <1>1, LenProperties, EmptySeq DEF TypeOK
  <2> QED BY <1>1, <2>1 DEF Buffered
<1>3. Covered'
  <2>1. Len(upstream') \in Nat
    BY <1>1, LenProperties DEF TypeOK
  <2>2. Rows(base)' \subseteq Rows(upstream)'
    BY <1>1 DEF Rows
  <2>3. \A p \in 1..Len(upstream') : ~(p <= offset')
    BY <1>1, <2>1
  <2> QED BY <1>1, <2>2, <2>3 DEF Covered
<1>4. Detailed'
  <2>1. Len(base') \in Nat
    BY <1>1, LenProperties DEF TypeOK
  <2>2. \A i \in 1..Len(base') : ~(i <= offset')
    BY <1>1, <2>1
  <2> QED BY <2>2 DEF Detailed
<1>5. Stamped'
  <2>1. SUFFICES ASSUME fresh' PROVE {k \in Key : table'[k] >= started'} = got'
    BY DEF Stamped
  <2>2. \A k \in Key : table'[k] < started' /\ table'[k] \in Nat
    BY <1>1, <2>1 DEF Start, TypeOK
  <2>3. \A k \in Key : ~(table'[k] >= started')
    BY <1>1, <2>2
  <2> QED BY <1>1, <2>3
<1>6. SuccessIsComplete'
  BY <1>1 DEF SuccessIsComplete
<1> QED BY <1>2, <1>3, <1>4, <1>5, <1>6 DEF DataInv

\* All candidates have their details: the fetch succeeds.
LEMMA HeadKeeps ==
  ASSUME TypeOK, DataInv, LoopHead
  PROVE  DataInv'
<1>1. CASE AllDetails /\ Stops("done")
  <2>1. /\ mode \in Details /\ mode' = mode /\ base' = base /\ table' = table /\ started' = started
        /\ pc = "head" /\ pc' = "done" /\ offset >= Len(base)
    BY <1>1 DEF LoopHead, AllDetails, Stops, taskVars, dataVars
  <2>2. Len(base) \in Nat /\ offset \in Nat
    BY LenProperties DEF TypeOK
  <2>3. \A i \in 1..Len(base) : table[base[i].key] >= started
    BY <2>1, <2>2 DEF DataInv, Detailed, Loop
  <2>4. SuccessIsComplete'
    BY <2>1, <2>3 DEF SuccessIsComplete, Keys, Details
  <2> QED
    BY <2>1, <2>4 DEF DataInv, Buffered, Covered, Detailed, Stamped, Loop, Active, Details
<1>2. CASE Stops("failed") \/ Stops("wait")
  <2>1. pc \in Loop /\ pc' \in Loop \cup {"failed"}
    BY <1>2 DEF LoopHead, Stops, Loop
  <2> QED BY <1>2, <2>1, Moving DEF Stops, loopVars, noteVars
<1> QED BY <1>1, <1>2 DEF LoopHead

LEMMA ProbeKeeps ==
  ASSUME ProbeAnswered
  PROVE  DataInv'
<1>1. pc' = "done" /\ mode' = "probe"
  BY DEF ProbeAnswered, taskVars
<1> QED
  BY <1>1 DEF DataInv, Buffered, Covered, Detailed, Stamped, SuccessIsComplete, Loop, Active, Pages, Details

-----------------------------------------------------------------------------
(* What was fetched: steps that store *)

LEMMA KeptKeys ==
  ASSUME TypeOK, NEW rows \in Seq(Row)
  PROVE  Kept(rows) \subseteq Key /\ Keys(rows) \subseteq Key
<1>1. \A i \in 1..Len(rows) : rows[i] \in Row
  BY ElementOfSeq
<1> QED BY <1>1 DEF Kept, Keys, Row

LEMMA ReplaceKeeps ==
  ASSUME TypeOK, Counts, DataInv, ReplaceAdPartition
  PROVE  DataInv'
<1>1. /\ mode = "ad" /\ pc = "replace" /\ now = started /\ started \in Nat
      /\ pc' \in {"done", "failed"}
      /\ table' = [k \in Key |-> IF k \in Keys(buffer) THEN now ELSE 0]
      /\ UNCHANGED <<mode, signals, base, started, lies, shrank>>
  BY DEF ReplaceAdPartition, Counts, TypeOK, taskVars, noteVars
<1>2. CASE pc' = "failed"
  BY <1>2, Ending
<1>3. CASE pc' = "done"
  <2>1. Kept(base) \subseteq Key
    BY KeptKeys DEF TypeOK
  <2>2. signals # {} /\ lies = 0 /\ ~shrank => \A k \in Kept(base) : k \in Keys(buffer)
    BY <1>1 DEF DataInv, Covered, Stored, Pages
  <2>3. signals # {} /\ lies = 0 /\ ~shrank => \A k \in Kept(base) : table'[k] >= started
    BY <1>1, <2>1, <2>2
  <2>4. Kept(base)' = Kept(base)
    BY <1>1 DEF Kept
  <2>5. SuccessIsComplete'
    BY <1>1, <2>3, <2>4 DEF SuccessIsComplete, Details
  <2> QED
    BY <1>1, <1>3, <2>5 DEF DataInv, Buffered, Covered, Detailed, Stamped, Loop, Active, Details
<1> QED BY <1>1, <1>2, <1>3

LEMMA DetailsKeeps ==
  ASSUME TypeOK, Counts, DataInv, DetailsKept
  PROVE  DataInv'
<1> DEFINE last == IF offset + BatchSize <= Len(base) THEN offset + BatchSize ELSE Len(base)
<1>1. /\ mode \in Details /\ pc = "call" /\ pc' = "head" /\ offset' = offset + BatchSize
      /\ UNCHANGED <<mode, base, started>>
      /\ table' = [k \in Key |-> IF k \in Batch THEN now ELSE table[k]]
  BY DEF DetailsKept, DetailsMatch, taskVars
<1>2. /\ now = started /\ started \in Nat /\ offset \in Nat /\ Len(base) \in Nat
      /\ BatchSize \in Nat /\ table \in [Key -> Nat] /\ base \in Seq(Row)
  BY FetchAssumption, LenProperties DEF Counts, TypeOK, BatchSize
<1>3. Keys(base) \subseteq Key
  BY <1>2, KeptKeys
<1>4. ASSUME NEW i \in 1..Len(base), i <= offset + BatchSize
      PROVE  table'[base[i].key] >= started
  <2>1. base[i].key \in Key
    BY <1>3 DEF Keys
  <2>2. CASE i <= offset
    <3>1. table[base[i].key] >= started
      BY <1>1, <2>2 DEF DataInv, Detailed, Loop
    <3> QED BY <1>1, <1>2, <2>1, <3>1
  <2>3. CASE offset < i
    <3>1. offset \in 0..Len(base) /\ last \in 0..Len(base) /\ offset < last /\ i - offset \in 1..(last - offset)
      BY <1>2, <1>4, <2>3
    <3>2. /\ Len(SubSeq(base, offset + 1, last)) = last - offset
          /\ SubSeq(base, offset + 1, last)[i - offset] = base[offset + (i - offset)]
      BY <1>2, <3>1, SubSeqShape
    <3>3. offset + (i - offset) = i
      BY <1>2
    <3>4. base[i].key \in Keys(SubSeq(base, offset + 1, last))
      BY <3>1, <3>2, <3>3 DEF Keys
    <3>5. base[i].key \in Batch
      BY <3>4 DEF Batch
    <3> QED BY <1>1, <1>2, <2>1, <3>5
  <2> QED BY <1>2, <2>2, <2>3
<1>5. Detailed'
  BY <1>1, <1>4 DEF Detailed
<1> QED
  BY <1>1, <1>5 DEF DataInv, Buffered, Covered, Stamped, SuccessIsComplete, Details, Pages

\* What a page that is kept does.
PageWith(a) ==
  /\ pc = "call" /\ mode \in Pages
  /\ Answered(a) /\ ~PageRefused(a)
  /\ IF mode = "ad"
     THEN /\ buffer' = buffer \o a.rows
          /\ expected' = IF expected = None THEN a.total ELSE expected
          /\ UNCHANGED dataVars
     ELSE UpsertRows(a.rows) /\ UNCHANGED <<buffer, expected>>
  /\ pc' = AfterPage(a)
  /\ offset' = offset + Len(a.rows)
  /\ pages' = pages + 1
  /\ UNCHANGED <<taskVars, upstream, shrank, grew, fresh>>

\* Where the paging goes on from there.
LEMMA PageEnds ==
  ASSUME NEW a, PageWith(a)
  PROVE  /\ pc' \in {"head", "failed", "replace", "capture", "done"}
         /\ pc' \in {"replace", "capture", "done"} => ~shouldContinuePaging(a, offset + Len(a.rows))
         /\ pc' = "replace" <=> mode = "ad" /\ ~shouldContinuePaging(a, offset + Len(a.rows))
         /\ pc' = "done" => mode = "plain"
         /\ pc' = "capture" => mode = "inventory"
<1>1. CASE shouldContinuePaging(a, offset + Len(a.rows))
  BY <1>1 DEF PageWith, AfterPage, Pages
<1>2. CASE ~shouldContinuePaging(a, offset + Len(a.rows))
  BY <1>2 DEF PageWith, AfterPage, Pages
<1> QED BY <1>1, <1>2

LEMMA TruePage ==
  ASSUME TypeOK, NEW a \in Answers, PageWith(a), lies' = 0
  PROVE  lies = 0 /\ Honest(a)
BY DEF PageWith, Answered, TypeOK

LEMMA PageSame ==
  ASSUME NEW a, PageWith(a)
  PROVE  UNCHANGED <<mode, signals, base, now, started, upstream, shrank, grew, fresh>>
BY DEF PageWith, taskVars

LEMMA PageBuffers ==
  ASSUME TypeOK, Buffered, NEW a \in Answers, PageWith(a)
  PROVE  Buffered'
<1> DEFINE total == IF expected = None THEN a.total ELSE expected
           fetched == offset + Len(a.rows)
<1>1. SUFFICES ASSUME mode = "ad", pc' \in Loop \cup {"replace"}
      PROVE  Buffered'
  BY DEF PageWith, Buffered, taskVars
<1>2. /\ mode' = mode /\ upstream' = upstream /\ shrank' = shrank /\ grew' = grew
      /\ buffer' = buffer \o a.rows /\ expected' = total /\ offset' = fetched
      /\ validateAdPage(a, fetched, total)
  BY <1>1 DEF PageWith, taskVars, PageRefused
<1>3. /\ Len(buffer) = offset
      /\ expected = None => offset = 0 /\ ~shrank /\ ~grew
      /\ lies = 0 /\ ~shrank /\ ~grew =>
           /\ offset <= Len(upstream)
           /\ \A i \in 1..offset : buffer[i] = upstream[i]
           /\ expected # None => expected = Len(upstream)
      /\ lies = 0 /\ shrank /\ ~grew => Len(upstream) < expected
      /\ lies = 0 /\ ~shrank /\ grew => expected < Len(upstream)
  BY <1>1 DEF PageWith, Buffered, Loop
<1>4. /\ buffer \in Seq(Row) /\ a.rows \in Seq(Row) /\ Len(a.rows) \in Nat /\ offset \in Nat
      /\ Len(upstream) \in Nat
      /\ a.rows = <<>> <=> Len(a.rows) = 0
  BY AnswerShape, LenProperties DEF TypeOK
<1>5. total \in Nat /\ a.total = total /\ a.total # None /\ fetched \in Nat /\ None \notin Nat
  BY <1>2, <1>4, AnswerShape, FetchAssumption DEF validateAdPage
<1>6. /\ Len(buffer') = fetched
      /\ \A i \in 1..fetched : buffer'[i] = IF i <= offset THEN buffer[i] ELSE a.rows[i - offset]
  <2>1. /\ Len(buffer \o a.rows) = Len(buffer) + Len(a.rows)
        /\ \A i \in 1..(Len(buffer) + Len(a.rows)) :
             (buffer \o a.rows)[i] = IF i <= Len(buffer) THEN buffer[i] ELSE a.rows[i - Len(buffer)]
    BY <1>4, ConcatProperties
  <2> QED BY <1>2, <1>3, <2>1
<1>7. pc' = "replace" => expected' = offset'
  BY <1>2, <1>5, PageEnds, LastAdPage
<1>8. ASSUME lies' = 0
      PROVE  /\ total = Len(upstream)
             /\ ~shrank /\ ~grew =>
                  /\ fetched <= Len(upstream)
                  /\ \A i \in 1..fetched : buffer'[i] = upstream[i]
  <2>1. lies = 0 /\ Honest(a)
    BY <1>8, TruePage
  <2>2. total = Len(upstream)
    BY <1>5, <2>1 DEF Honest
  <2>3. ASSUME ~shrank, ~grew
        PROVE  fetched <= Len(upstream)
    BY <1>3, <1>4, <2>1, <2>3, HonestRows
  <2>4. ASSUME ~shrank, ~grew, NEW i \in 1..fetched
        PROVE  buffer'[i] = upstream[i]
    <3>1. CASE i <= offset
      BY <1>3, <1>4, <1>6, <2>1, <2>4, <3>1
    <3>2. CASE offset < i
      <4>1. i - offset \in 1..Len(a.rows) /\ offset + (i - offset) = i
        BY <1>4, <3>2
      <4>2. a.rows[i - offset] = upstream[offset + (i - offset)]
        BY <2>1, <4>1, HonestRows
      <4>3. buffer'[i] = a.rows[i - offset]
        BY <1>4, <1>6, <3>2
      <4> QED BY <4>1, <4>2, <4>3
    <3> QED BY <1>4, <3>1, <3>2
  <2> QED BY <2>2, <2>3, <2>4
<1>9. ASSUME lies' = 0
      PROVE  shrank <=> grew
  <2>1. lies = 0 /\ total = Len(upstream)
    BY <1>8, <1>9, TruePage
  <2>2. CASE expected = None
    BY <1>3, <2>2
  <2>3. CASE expected # None
    <3>1. expected = Len(upstream)
      BY <2>1, <2>3
    <3> QED BY <1>3, <1>4, <2>1, <3>1
  <2> QED BY <2>2, <2>3
<1> HIDE DEF total, fetched
<1> QED BY <1>2, <1>5, <1>6, <1>7, <1>8, <1>9 DEF Buffered

\* A row of the page, or of an earlier one, is stored with it.
LEMMA PageStores ==
  ASSUME TypeOK, Counts, Buffered, Covered, NEW a \in Answers, PageWith(a), lies' = 0, ~shrank,
         NEW p \in 1..Len(upstream), p <= offset + Len(a.rows), upstream[p] \in Rows(base), Wanted(upstream[p])
  PROVE  Stored(upstream[p].key)'
<1>1. /\ lies = 0 /\ Honest(a)
      /\ pc = "call" /\ mode \in Pages /\ mode' = mode /\ now = started /\ started' = started
  BY TruePage DEF PageWith, Counts, taskVars
<1>2. /\ buffer \in Seq(Row) /\ a.rows \in Seq(Row) /\ Len(a.rows) \in Nat /\ offset \in Nat
      /\ upstream \in Seq(Row) /\ Len(upstream) \in Nat /\ started \in Nat /\ table \in [Key -> Nat]
  BY AnswerShape, LenProperties DEF TypeOK
<1>3. upstream[p].key \in Key
  BY <1>2, KeptKeys DEF Keys
<1>4. p <= offset => Stored(upstream[p].key)
  BY <1>1 DEF Covered, Loop
<1>5. offset < p => /\ p - offset \in 1..Len(a.rows)
                    /\ a.rows[p - offset] = upstream[p]
  <2>1. SUFFICES ASSUME offset < p
                 PROVE  p - offset \in 1..Len(a.rows) /\ a.rows[p - offset] = upstream[p]
    OBVIOUS
  <2>2. p - offset \in 1..Len(a.rows) /\ offset + (p - offset) = p
    BY <1>2, <2>1
  <2>3. a.rows[p - offset] = upstream[offset + (p - offset)]
    BY <1>1, <2>2, HonestRows
  <2> QED BY <2>2, <2>3
<1>6. CASE mode = "ad"
  <2>1. buffer' = buffer \o a.rows /\ Len(buffer) = offset
    BY <1>1, <1>6 DEF PageWith, Buffered, Loop
  <2>2. /\ Len(buffer') = offset + Len(a.rows)
        /\ \A i \in 1..(offset + Len(a.rows)) :
             buffer'[i] = IF i <= offset THEN buffer[i] ELSE a.rows[i - offset]
    BY <1>2, <2>1, ConcatProperties
  <2>3. CASE p <= offset
    <3>1. PICK i \in 1..offset : buffer[i].key = upstream[p].key
      BY <1>4, <1>6, <2>1, <2>3 DEF Stored, Keys
    <3>2. i \in 1..(offset + Len(a.rows)) /\ buffer'[i] = buffer[i]
      BY <1>2, <2>2
    <3>3. upstream[p].key \in Keys(buffer')
      BY <2>2, <3>1, <3>2 DEF Keys
    <3> QED BY <1>1, <1>6, <3>3, PageSame DEF Stored, Keys
  <2>4. CASE offset < p
    <3>1. p \in 1..Len(buffer') /\ buffer'[p] = upstream[p]
      BY <1>2, <1>5, <2>2, <2>4
    <3>2. upstream[p].key \in Keys(buffer')
      BY <3>1 DEF Keys
    <3> QED BY <1>1, <1>6, <3>2, PageSame DEF Stored, Keys
  <2> QED BY <1>2, <2>3, <2>4
<1>7. CASE mode # "ad"
  <2>1. table' = [k \in Key |-> IF k \in Kept(a.rows) THEN now ELSE table[k]]
    BY <1>7 DEF PageWith, UpsertRows
  <2>2. CASE p <= offset
    <3>1. table[upstream[p].key] >= started
      BY <1>4, <1>7, <2>2 DEF Stored
    <3>2. table'[upstream[p].key] >= started
      BY <1>1, <1>2, <1>3, <2>1, <3>1
    <3> QED BY <1>1, <1>7, <3>2, PageSame DEF Stored
  <2>3. CASE offset < p
    <3>1. upstream[p].key \in Kept(a.rows)
      BY <1>5, <2>3 DEF Kept, Wanted
    <3>2. table'[upstream[p].key] >= started
      BY <1>1, <1>2, <1>3, <2>1, <3>1
    <3> QED BY <1>1, <1>7, <3>2, PageSame DEF Stored
  <2> QED BY <1>2, <2>2, <2>3
<1> QED BY <1>6, <1>7

\* Where the paging ends, every row of the beginning is stored.
LEMMA PageCompletes ==
  ASSUME TypeOK, Counts, Buffered, Covered, NEW a \in Answers, PageWith(a), lies' = 0, ~shrank,
         signals # {}, ~shouldContinuePaging(a, offset + Len(a.rows)), NEW k \in Kept(base)
  PROVE  Stored(k)'
<1>1. PICK j \in 1..Len(base) : base[j].key = k /\ Wanted(base[j])
  BY DEF Kept, Wanted
<1>2. lies = 0 /\ Honest(a) /\ Rows(base) \subseteq Rows(upstream)
  BY TruePage DEF Covered, PageWith, Loop
<1>3. PICK p \in 1..Len(upstream) : upstream[p] = base[j]
  BY <1>2 DEF Rows
<1>4. Len(upstream) <= offset + Len(a.rows)
  BY <1>2, LastPage
<1>5. p <= offset + Len(a.rows)
  BY <1>3, <1>4, AnswerShape, LenProperties DEF TypeOK
<1>6. upstream[p] \in Rows(base) /\ Wanted(upstream[p])
  BY <1>1, <1>3 DEF Rows
<1>7. Stored(upstream[p].key)'
  BY <1>5, <1>6, PageStores
<1>8. upstream[p].key = k
  BY <1>1, <1>3
<1> QED BY <1>7, <1>8, PageSame DEF Stored

LEMMA PageCovers ==
  ASSUME TypeOK, Counts, Buffered, Covered, NEW a \in Answers, PageWith(a)
  PROVE  Covered'
<1>1. SUFFICES ASSUME lies' = 0, ~shrank PROVE Covered'
  BY PageSame DEF Covered
<1>2. /\ Rows(base)' = Rows(base) /\ Rows(upstream)' = Rows(upstream) /\ Kept(base)' = Kept(base)
      /\ \A row : Wanted(row)' <=> Wanted(row)
      /\ signals' = signals /\ upstream' = upstream /\ offset' = offset + Len(a.rows)
  BY PageSame DEF Rows, Kept, Wanted, PageWith
<1>3. Rows(base) \subseteq Rows(upstream)
  BY <1>1, TruePage DEF Covered, PageWith, Loop
<1>4. ASSUME NEW p \in 1..Len(upstream), p <= offset', upstream[p] \in Rows(base), Wanted(upstream[p])
      PROVE  Stored(upstream[p].key)'
  BY <1>1, <1>2, <1>4, PageStores
<1>5. ASSUME pc' \in {"replace", "capture"}, signals # {}, NEW k \in Kept(base)
      PROVE  Stored(k)'
  BY <1>1, <1>5, PageEnds, PageCompletes
<1> QED BY <1>2, <1>3, <1>4, <1>5 DEF Covered

LEMMA PageStamps ==
  ASSUME TypeOK, Counts, Stamped, NEW a \in Answers, PageWith(a)
  PROVE  Stamped'
<1>1. SUFFICES ASSUME mode = "inventory", fresh
      PROVE  {k \in Key : table'[k] >= started} = got'
  BY PageSame DEF Stamped
<1>2. {k \in Key : table[k] >= started} = got
  BY <1>1 DEF Stamped, PageWith, Active
<1>3. /\ table' = [k \in Key |-> IF k \in Kept(a.rows) THEN now ELSE table[k]]
      /\ got' = got \cup Kept(a.rows)
  BY <1>1 DEF PageWith, UpsertRows
<1>4. now = started /\ started \in Nat /\ table \in [Key -> Nat] /\ Kept(a.rows) \subseteq Key
  BY AnswerShape, KeptKeys DEF Counts, TypeOK
<1>5. \A k \in Key : table'[k] >= started <=> k \in Kept(a.rows) \/ table[k] >= started
  BY <1>3, <1>4
<1> QED BY <1>2, <1>3, <1>4, <1>5

LEMMA PageKeeps ==
  ASSUME TypeOK, Counts, DataInv, PageKept
  PROVE  DataInv'
<1>1. PICK a \in Answers : PageWith(a)
  <2>1. PICK a \in Answers :
          /\ Answered(a) /\ ~PageRefused(a)
          /\ IF mode = "ad"
             THEN /\ buffer' = buffer \o a.rows
                  /\ expected' = IF expected = None THEN a.total ELSE expected
                  /\ UNCHANGED dataVars
             ELSE UpsertRows(a.rows) /\ UNCHANGED <<buffer, expected>>
          /\ pc' = AfterPage(a)
          /\ offset' = offset + Len(a.rows)
    BY DEF PageKept
  <2> QED BY <2>1 DEF PageKept, PageWith, Pages
<1>2. Buffered' /\ Covered' /\ Stamped'
  BY <1>1, PageBuffers, PageCovers, PageStamps DEF DataInv
<1>3. mode' = mode /\ mode \in Pages
  BY <1>1, PageSame DEF PageWith
<1>4. Detailed'
  BY <1>3 DEF Detailed, Details, Pages
<1>5. SuccessIsComplete'
  <2>1. SUFFICES ASSUME pc' \in {"done", "capture"}, mode \in {"plain", "inventory", "ad"},
                        signals # {}, lies' = 0, ~shrank, NEW k \in Kept(base)
                 PROVE  table'[k] >= started
    <3>1. Kept(base)' = Kept(base)
      BY <1>1, PageSame DEF Kept
    <3> QED BY <1>1, <1>3, <3>1, PageSame DEF SuccessIsComplete, Details, Pages
  <2>2. Stored(k)' /\ mode # "ad"
    BY <1>1, <2>1, PageEnds, PageCompletes DEF DataInv
  <2> QED BY <1>1, <1>3, <2>2, PageSame DEF Stored
<1> QED BY <1>2, <1>4, <1>5 DEF DataInv

-----------------------------------------------------------------------------
(* What was fetched: changes of the upstream *)

\* One row less or one row more shows in the total.
LEMMA ChangeBuffers ==
  ASSUME TypeOK, Buffered, ChangeUpstream
  PROVE  Buffered'
<1>1. SUFFICES ASSUME mode = "ad", pc \in Loop \cup {"replace"} PROVE Buffered'
  BY DEF Buffered, ChangeUpstream, taskVars
<1>2. /\ pc = "call" /\ pages > 0 /\ expected # None /\ expected \in Nat /\ Len(upstream) \in Nat
      /\ pc' = pc /\ mode' = mode /\ UNCHANGED <<offset, pages, expected, buffer, lies>>
  BY <1>1, LenProperties DEF ChangeUpstream, Buffered, Loop, Ended, TypeOK, taskVars, loopVars
<1>3. /\ Len(buffer) = offset
      /\ lies = 0 /\ ~shrank /\ ~grew => expected = Len(upstream)
      /\ lies = 0 /\ shrank /\ ~grew => Len(upstream) < expected
      /\ lies = 0 /\ ~shrank /\ grew => expected < Len(upstream)
  BY <1>1, <1>2 DEF Buffered, Loop
<1>4. CASE (\E i \in 1..Len(upstream) : upstream' = Without(i)) /\ shrank' = TRUE /\ UNCHANGED grew
  <2>1. Len(upstream') = Len(upstream) - 1
    BY <1>4, WithoutShape DEF TypeOK
  <2>2. lies = 0 /\ ~grew => Len(upstream') < expected
    BY <1>2, <1>3, <2>1
  <2> QED BY <1>2, <1>3, <1>4, <2>2 DEF Buffered, Loop
<1>5. CASE /\ \E i \in 0..Len(upstream), k \in Key \ Keys(upstream) : upstream' = With(i, k)
           /\ grew' = TRUE /\ UNCHANGED shrank
  <2>1. Len(upstream') = Len(upstream) + 1
    BY <1>5, WithShape DEF TypeOK
  <2>2. lies = 0 /\ ~shrank => expected < Len(upstream')
    BY <1>2, <1>3, <2>1
  <2> QED BY <1>2, <1>3, <1>5, <2>2 DEF Buffered, Loop
<1> QED BY <1>4, <1>5 DEF ChangeUpstream

\* A row that comes in was not there at the beginning, and moves no row towards it.
LEMMA ChangeCovers ==
  ASSUME TypeOK, Covered, ChangeUpstream
  PROVE  Covered'
<1>1. SUFFICES ASSUME mode \in Pages, pc \in Loop \cup {"replace", "capture"}, lies = 0, ~shrank, ~shrank'
      PROVE  Covered'
  BY DEF Covered, ChangeUpstream, taskVars
<1>2. /\ pc = "call" /\ pc' = "call"
      /\ UNCHANGED <<mode, signals, base, started, table, offset, buffer>>
  BY <1>1 DEF ChangeUpstream, Loop, Ended, taskVars, loopVars, dataVars
<1>3. /\ Rows(base) \subseteq Rows(upstream)
      /\ \A p \in 1..Len(upstream) :
           p <= offset /\ upstream[p] \in Rows(base) /\ Wanted(upstream[p]) => Stored(upstream[p].key)
  BY <1>1 DEF Covered
<1>4. /\ Rows(base)' = Rows(base)
      /\ \A k : Stored(k)' <=> Stored(k)
      /\ \A row : Wanted(row)' <=> Wanted(row)
  BY <1>2 DEF Rows, Stored, Wanted, Keys
<1>5. PICK i \in 0..Len(upstream), k \in Key \ Keys(upstream) : upstream' = With(i, k)
  BY <1>1 DEF ChangeUpstream
<1>6. /\ Len(upstream) \in Nat /\ offset \in Nat /\ i \in Nat /\ i <= Len(upstream)
      /\ Len(upstream') = Len(upstream) + 1
      /\ \A p \in 1..Len(upstream') : upstream'[p] = IF p <= i THEN upstream[p]
                                                     ELSE IF p = i + 1 THEN [key |-> k, kind |-> "good"]
                                                     ELSE upstream[p - 1]
  BY <1>5, WithShape, LenProperties DEF TypeOK
<1>7. ASSUME NEW q \in 1..Len(upstream)
      PROVE  upstream[q] \in Rows(upstream')
  <2>1. CASE q <= i
    <3>1. q \in 1..Len(upstream') /\ upstream'[q] = upstream[q]
      BY <1>6, <2>1
    <3> QED BY <3>1 DEF Rows
  <2>2. CASE i < q
    <3>1. q + 1 \in 1..Len(upstream') /\ ~(q + 1 <= i) /\ q + 1 # i + 1 /\ (q + 1) - 1 = q
      BY <1>6, <2>2
    <3>2. upstream'[q + 1] = upstream[q]
      BY <1>6, <3>1
    <3> QED BY <3>1, <3>2 DEF Rows
  <2> QED BY <1>6, <2>1, <2>2
<1>8. Rows(base) \subseteq Rows(upstream')
  BY <1>3, <1>7 DEF Rows
<1>9. ASSUME NEW p \in 1..Len(upstream'), p <= offset, upstream'[p] \in Rows(base), Wanted(upstream'[p])
      PROVE  Stored(upstream'[p].key)
  <2>1. CASE p <= i
    BY <1>3, <1>6, <1>9, <2>1
  <2>2. CASE p = i + 1
    <3>1. upstream'[p].key = k
      BY <1>6, <2>2
    <3>2. upstream'[p].key \in Keys(upstream)
      BY <1>3, <1>9 DEF Rows, Keys
    <3> QED BY <3>1, <3>2
  <2>3. CASE i + 1 < p
    <3>1. upstream'[p] = upstream[p - 1] /\ p - 1 \in 1..Len(upstream) /\ p - 1 <= offset
      BY <1>6, <1>9, <2>3
    <3> QED BY <1>3, <1>9, <3>1
  <2> QED BY <1>6, <2>1, <2>2, <2>3
<1>10. Rows(upstream)' = Rows(upstream')
  BY DEF Rows
<1> QED BY <1>2, <1>4, <1>8, <1>9, <1>10 DEF Covered

LEMMA ChangeKeeps ==
  ASSUME TypeOK, DataInv, ChangeUpstream
  PROVE  DataInv'
<1>1. Buffered' /\ Covered'
  BY ChangeBuffers, ChangeCovers DEF DataInv
<1>2. /\ UNCHANGED <<mode, signals, base, started, pc, offset, table, got, lies, fresh>>
      /\ shrank => shrank'
  BY DEF ChangeUpstream, taskVars, loopVars, dataVars
<1>3. Kept(base)' = Kept(base) /\ Keys(base)' = Keys(base)
  BY <1>2 DEF Kept, Keys
<1>4. Detailed' /\ Stamped'
  BY <1>2 DEF DataInv, Detailed, Stamped
<1>5. SuccessIsComplete'
  BY <1>2, <1>3 DEF DataInv, SuccessIsComplete
<1> QED BY <1>1, <1>4, <1>5 DEF DataInv

-----------------------------------------------------------------------------
(* The invariant *)

LEMMA DataStep ==
  ASSUME TypeOK, Counts, DataInv, [Next]_vars
  PROVE  DataInv'
<1> USE DEF Stops, taskVars, loopVars, dataVars, noteVars
<1>1. CASE Start
  BY <1>1, StartKeeps
<1>2. CASE LoopHead
  BY <1>2, HeadKeeps
<1>3. CASE Admit
  <2>1. pc \in Loop /\ pc' \in Loop \cup {"failed"}
    BY <1>3 DEF Admit, Loop
  <2> QED BY <1>3, <2>1, Moving DEF Admit
<1>4. CASE CallFails
  <2>1. pc \in Loop /\ pc' \in Loop \cup {"failed"}
    BY <1>4 DEF CallFails, Loop
  <2> QED BY <1>4, <2>1, Moving DEF CallFails
<1>5. CASE Backoff
  <2>1. pc \in Loop /\ pc' \in Loop \cup {"failed"}
    BY <1>5 DEF Backoff, Loop
  <2> QED BY <1>5, <2>1, Moving DEF Backoff
<1>6. CASE CandidatesFail \/ PageFails \/ ReplaceFails \/ DetailsFail \/ Die
  <2>1. pc' \in {"idle", "failed"}
    BY <1>6 DEF CandidatesFail, PageFails, ReplaceFails, DetailsFail, Die
  <2> QED BY <2>1, Ending
<1>7. CASE ProbeAnswered
  BY <1>7, ProbeKeeps
<1>8. CASE PageKept
  BY <1>8, PageKeeps
<1>9. CASE ReplaceAdPartition
  BY <1>9, ReplaceKeeps
<1>10. CASE CaptureFBAInventorySnapshots \/ CaptureFails
  BY <1>10, Captured DEF CaptureFBAInventorySnapshots, CaptureFails
<1>11. CASE DetailsKept
  BY <1>11, DetailsKeeps
<1>12. CASE Cancel
  BY <1>12, Moving DEF Cancel
<1>13. CASE ChangeUpstream
  BY <1>13, ChangeKeeps
<1>14. CASE UNCHANGED vars
  BY <1>14, Moving DEF vars
<1> QED
  BY <1>1, <1>2, <1>3, <1>4, <1>5, <1>6, <1>7, <1>8, <1>9, <1>10, <1>11, <1>12, <1>13, <1>14
  DEF Next, Work

LEMMA StepInv ==
  IInv /\ [Next]_vars => IInv'
BY TypeStep, DataStep DEF IInv

LEMMA InvHolds ==
  Spec => []IInv
BY InitInv, StepInv, PTL DEF Spec

-----------------------------------------------------------------------------
(* Theorems *)

\* The loop of fetchAndStoreParamSet keeps its counters within their bounds: no more
\* than MaxPages pages, no more than five retries of one request.
THEOREM TypeCorrect ==
  Spec => []TypeOK
<1>1. IInv => TypeOK
  BY DEF IInv
<1> QED BY <1>1, InvHolds, PTL

\* A fetch that fetchAndStoreParamSet reports as done has stored every row that was there
\* when it began, whatever came in between, if the answers were true.
THEOREM SuccessMeansAll ==
  Spec => []SuccessIsComplete
<1>1. IInv => SuccessIsComplete
  BY DEF IInv, DataInv
<1> QED BY <1>1, InvHolds, PTL

LEMMA OnlyReplace ==
  ASSUME [Next]_vars, mode = "ad", table' # table
  PROVE  ReplaceAdPartition
<1> USE DEF Stops, taskVars, loopVars, dataVars, noteVars
<1>1. ~(Start \/ CandidatesFail \/ LoopHead \/ Admit \/ CallFails \/ Backoff \/ ProbeAnswered \/ PageFails)
  BY DEF Start, CandidatesFail, LoopHead, Admit, CallFails, Backoff, ProbeAnswered, PageFails
<1>2. ~(ReplaceFails \/ CaptureFBAInventorySnapshots \/ CaptureFails \/ Cancel \/ Die \/ ChangeUpstream)
  BY DEF ReplaceFails, CaptureFBAInventorySnapshots, CaptureFails, Cancel, Die, ChangeUpstream
<1>3. ~(DetailsFail \/ DetailsKept)
  BY DEF DetailsFail, DetailsKept, Details
<1>4. ~PageKept
  BY DEF PageKept
<1>5. ~UNCHANGED vars
  BY DEF vars
<1> QED BY <1>1, <1>2, <1>3, <1>4, <1>5 DEF Next, Work

LEMMA ReplaceIsWhole ==
  ASSUME IInv, ReplaceAdPartition
  PROVE  LET held == {k \in Key : table'[k] # 0}
         IN /\ Cardinality(held) = expected
            /\ lies = 0 /\ ~(shrank /\ grew) => held = Keys(upstream)
<1>1. /\ TypeOK /\ pc = "replace" /\ mode = "ad" /\ now > 0 /\ validateAdRows(buffer)
      /\ table' = [k \in Key |-> IF k \in Keys(buffer) THEN now ELSE 0]
  BY DEF ReplaceAdPartition, IInv, Counts
<1>2. Keys(buffer) \subseteq Key
  BY <1>1, KeptKeys DEF TypeOK
<1>3. {k \in Key : table'[k] # 0} = Keys(buffer)
  BY <1>1, <1>2 DEF TypeOK
<1>4. /\ Len(buffer) = offset /\ expected = offset /\ offset \in Nat
      /\ lies = 0 /\ ~shrank /\ ~grew =>
           /\ \A i \in 1..offset : buffer[i] = upstream[i]
           /\ expected # None => expected = Len(upstream)
      /\ lies = 0 => (shrank <=> grew)
  BY <1>1 DEF IInv, DataInv, Buffered, TypeOK
<1>5. Cardinality(Keys(buffer)) = expected
  BY <1>1, <1>4 DEF validateAdRows
<1>6. ASSUME lies = 0, ~(shrank /\ grew)
      PROVE  Keys(buffer) = Keys(upstream)
  <2>1. expected # None
    BY <1>4, FetchAssumption
  <2>2. Len(upstream) = offset /\ \A i \in 1..offset : buffer[i] = upstream[i]
    BY <1>4, <1>6, <2>1
  <2> QED BY <1>4, <2>2 DEF Keys
<1> QED BY <1>3, <1>5, <1>6

\* ReplaceAdPartition replaces the partition of a day by as many distinct rows as every
\* page stated, and nothing else of an advertising fetch touches it.
THEOREM PartitionStaysWhole ==
  Spec => PartitionIsWhole
<1>1. ASSUME IInv, [Next]_vars
      PROVE  [mode = "ad" /\ table' # table =>
                LET held == {k \in Key : table'[k] # 0}
                IN /\ Cardinality(held) = expected
                   /\ lies = 0 /\ ~(shrank /\ grew) => held = Keys(upstream)]_vars
  BY <1>1, OnlyReplace, ReplaceIsWhole
<1> QED BY <1>1, InvHolds, PTL DEF Spec, PartitionIsWhole

LEMMA OnlyCapture ==
  ASSUME [Next]_vars, snapshot' # snapshot
  PROVE  CaptureFBAInventorySnapshots
<1> USE DEF Stops, taskVars, loopVars, dataVars, noteVars
<1>1. ~(Start \/ CandidatesFail \/ LoopHead \/ Admit \/ CallFails \/ Backoff \/ ProbeAnswered \/ PageFails)
  BY DEF Start, CandidatesFail, LoopHead, Admit, CallFails, Backoff, ProbeAnswered, PageFails
<1>2. ~(PageKept \/ ReplaceFails \/ ReplaceAdPartition \/ CaptureFails \/ Cancel \/ Die \/ ChangeUpstream)
  BY DEF PageKept, ReplaceFails, ReplaceAdPartition, CaptureFails, Cancel, Die, ChangeUpstream
<1>3. ~(DetailsFail \/ DetailsKept)
  BY DEF DetailsFail, DetailsKept
<1>4. ~UNCHANGED vars
  BY DEF vars
<1> QED BY <1>1, <1>2, <1>3, <1>4 DEF Next, Work

\* CaptureFBAInventorySnapshots takes the rows of the fetch before it and no older ones.
THEOREM SnapshotStaysPure ==
  Spec => SnapshotIsOneFetch
<1>1. ASSUME IInv, [Next]_vars
      PROVE  [snapshot' # snapshot /\ fresh => snapshot' = got]_vars
  <2>1. SUFFICES ASSUME snapshot' # snapshot, fresh PROVE snapshot' = got
    OBVIOUS
  <2>2. pc = "capture" /\ snapshot' = {k \in Key : table[k] >= started}
    BY <1>1, <2>1, OnlyCapture DEF CaptureFBAInventorySnapshots
  <2> QED BY <1>1, <2>1, <2>2 DEF IInv, Counts, DataInv, Stamped, Active
<1> QED BY <1>1, InvHolds, PTL DEF Spec, SnapshotIsOneFetch

-----------------------------------------------------------------------------
(* Fetches run out of steps *)

\* Pages, or orders without their details, that may still be asked for.
Rounds == IF mode \in Details THEN (IF offset < Len(base) THEN Len(base) - offset ELSE 0)
          ELSE MaxPages - pages

\* Steps that may still be made about one page: three for every attempt.
Within ==
  CASE pc = "head"    -> 19
    [] pc = "wait"    -> 3 * (5 - attempt) + 3
    [] pc = "call"    -> 3 * (5 - attempt) + 2
    [] pc = "backoff" -> 3 * (5 - attempt) + 1
    [] OTHER          -> 1

Effort == IF pc \in Active THEN 20 * Rounds + Within ELSE 0

\* A request is only made for a detail that is not there yet.
AskedFor == pc \in {"wait", "call", "backoff"} => ~AllDetails

\* Every step of a fetch brings its end nearer, and nothing around it moves the end away.
EffortRunsOut ==
  [][/\ Effort' \in Nat
     /\ Work => Effort' < Effort
     /\ Effort' > Effort => Start]_vars

LEMMA AskedForStep ==
  ASSUME AskedFor, [Next]_vars
  PROVE  AskedFor'
<1> USE DEF AskedFor, AllDetails, Stops, taskVars, loopVars, dataVars, noteVars
<1>1. CASE Start \/ DetailsKept \/ Die
  BY <1>1 DEF Start, DetailsKept, Die
<1>2. CASE LoopHead
  BY <1>2 DEF LoopHead
<1>3. CASE Admit \/ Backoff
  BY <1>3 DEF Admit, Backoff
<1>4. CASE CallFails
  BY <1>4 DEF CallFails
<1>5. CASE CandidatesFail \/ ProbeAnswered \/ PageFails \/ ReplaceFails \/ ReplaceAdPartition
           \/ CaptureFBAInventorySnapshots \/ CaptureFails \/ DetailsFail
  <2>1. pc' \in {"done", "failed"}
    BY <1>5 DEF CandidatesFail, ProbeAnswered, PageFails, ReplaceFails, ReplaceAdPartition,
                CaptureFBAInventorySnapshots, CaptureFails, DetailsFail
  <2> QED BY <2>1
<1>6. CASE PageKept
  BY <1>6 DEF PageKept, Details
<1>7. CASE Cancel \/ ChangeUpstream
  BY <1>7 DEF Cancel, ChangeUpstream
<1>8. CASE UNCHANGED vars
  BY <1>8 DEF vars
<1> QED BY <1>1, <1>2, <1>3, <1>4, <1>5, <1>6, <1>7, <1>8 DEF Next, Work

LEMMA AskedForHolds ==
  Spec => []AskedFor
<1>1. Init => AskedFor
  BY DEF Init, AskedFor
<1>2. AskedFor /\ [Next]_vars => AskedFor'
  BY AskedForStep
<1> QED BY <1>1, <1>2, PTL DEF Spec

\* What the effort is made of.
LEMMA EffortShape ==
  ASSUME TypeOK, Counts, AskedFor
  PROVE  /\ Rounds \in Nat
         /\ pc \in Active => Within \in 1..19 /\ Effort = 20 * Rounds + Within
         /\ pc \notin Active => Effort = 0
         /\ Effort \in Nat
         /\ pc = "call" => Rounds > 0
<1>1. Rounds \in Nat
  BY FetchAssumption, LenProperties DEF Rounds, TypeOK
<1>2. pc \in Active => Within \in 1..19
  <2>1. attempt \in 0..5 /\ (pc = "backoff" => attempt < 5)
    BY DEF TypeOK, Counts
  <2>2. 3 * (5 - attempt) \in 0..15 /\ (pc = "backoff" => 3 * (5 - attempt) + 1 \in 1..16)
    BY <2>1
  <2> QED BY <2>2 DEF Within
<1>3. pc = "call" => Rounds > 0
  BY FetchAssumption, LenProperties DEF Rounds, TypeOK, AskedFor, AllDetails, Counts, Loop
<1>4. Effort = IF pc \in Active THEN 20 * Rounds + Within ELSE 0
  BY DEF Effort
<1> QED BY <1>1, <1>2, <1>3, <1>4

\* The page after this one, and the details after these, are asked for with less to come.
LEMMA RoundEnds ==
  ASSUME TypeOK, Counts, AskedFor, PageKept \/ DetailsKept
  PROVE  Rounds' = Rounds - 1 \/ (Rounds' \in Nat /\ Rounds' < Rounds)
<1>1. CASE PageKept
  <2>1. mode \notin Details /\ mode' = mode /\ pages' = pages + 1
    BY <1>1 DEF PageKept, Details, taskVars
  <2> QED BY <2>1, FetchAssumption DEF Rounds, TypeOK
<1>2. CASE DetailsKept
  <2>1. /\ mode \in Details /\ mode' = mode /\ base' = base /\ offset' = offset + BatchSize
        /\ ~(offset >= Len(base))
    BY <1>2 DEF DetailsKept, taskVars, AskedFor, AllDetails
  <2>2. BatchSize \in Nat /\ BatchSize > 0 /\ Len(base) \in Nat /\ offset \in Nat /\ offset < Len(base)
    BY <2>1, FetchAssumption, LenProperties DEF BatchSize, TypeOK
  <2>3. Rounds = Len(base) - offset
    BY <2>1, <2>2 DEF Rounds
  <2>4. Rounds' = IF offset + BatchSize < Len(base) THEN Len(base) - (offset + BatchSize) ELSE 0
    BY <2>1 DEF Rounds
  <2> QED BY <2>1, <2>2, <2>3, <2>4
<1> QED BY <1>1, <1>2

LEMMA WorkSpends ==
  ASSUME TypeOK, Counts, AskedFor, Work,
         Effort' = IF pc' \in Active THEN 20 * Rounds' + Within' ELSE 0
  PROVE  Effort' < Effort
<1> USE DEF Stops, taskVars, loopVars, dataVars, noteVars
<1>0. /\ Rounds \in Nat
      /\ pc \in Active => Within \in 1..19 /\ Effort = 20 * Rounds + Within
      /\ attempt \in 0..5
  BY EffortShape DEF TypeOK
<1>1. ASSUME pc \in Active, pc' \notin Active PROVE Effort' < Effort
  BY <1>0, <1>1
<1>2. ASSUME pc \in Active, pc' \in Active, UNCHANGED <<mode, base, offset, pages>>, Within' \in Nat, Within' < Within
      PROVE  Effort' < Effort
  <2>1. Rounds' = Rounds
    BY <1>2 DEF Rounds
  <2> QED BY <1>0, <1>2, <2>1
<1>3. CASE LoopHead
  <2>1. CASE pc' = "wait"
    <3>1. /\ pc = "head" /\ UNCHANGED <<mode, base, offset, pages, attempt>>
          /\ Within = 19 /\ Within' = 3 * (5 - attempt) + 3
      BY <1>3, <2>1 DEF LoopHead, Within
    <3> QED BY <1>0, <1>2, <2>1, <3>1 DEF Active
  <2>2. CASE pc' # "wait"
    BY <1>1, <1>3, <2>2 DEF LoopHead, Active
  <2> QED BY <2>1, <2>2
<1>4. CASE Admit
  <2>1. CASE pc' = "call"
    <3>1. /\ pc = "wait" /\ UNCHANGED <<mode, base, offset, pages, attempt>>
          /\ Within = 3 * (5 - attempt) + 3 /\ Within' = 3 * (5 - attempt) + 2
      BY <1>4, <2>1 DEF Admit, Within
    <3> QED BY <1>0, <1>2, <2>1, <3>1 DEF Active
  <2>2. CASE pc' # "call"
    BY <1>1, <1>4, <2>2 DEF Admit, Active
  <2> QED BY <2>1, <2>2
<1>5. CASE CallFails
  <2>1. CASE pc' = "backoff"
    <3>1. /\ pc = "call" /\ UNCHANGED <<mode, base, offset, pages, attempt>>
          /\ Within = 3 * (5 - attempt) + 2 /\ Within' = 3 * (5 - attempt) + 1
      BY <1>5, <2>1 DEF CallFails, Within
    <3> QED BY <1>0, <1>2, <2>1, <3>1 DEF Active
  <2>2. CASE pc' # "backoff"
    BY <1>1, <1>5, <2>2 DEF CallFails, Active
  <2> QED BY <2>1, <2>2
<1>6. CASE Backoff
  <2>1. CASE pc' = "wait"
    <3>1. /\ pc = "backoff" /\ UNCHANGED <<mode, base, offset, pages>> /\ attempt' = attempt + 1
      BY <1>6, <2>1 DEF Backoff
    <3>2. Within = 3 * (5 - attempt) + 1 /\ Within' = 3 * (5 - attempt') + 3 /\ attempt < 5
      BY <2>1, <3>1 DEF Within, Counts
    <3> QED BY <1>0, <1>2, <2>1, <3>1, <3>2 DEF Active
  <2>2. CASE pc' # "wait"
    BY <1>1, <1>6, <2>2 DEF Backoff, Active
  <2> QED BY <2>1, <2>2
<1>7. CASE PageKept \/ DetailsKept
  <2>1. Rounds' \in Nat /\ Rounds' < Rounds
    <3>1. Rounds > 0
      BY <1>7, EffortShape DEF PageKept, DetailsKept
    <3> QED BY <1>0, <1>7, <3>1, RoundEnds
  <2>2. pc = "call" /\ pc' \in {"head", "replace", "capture", "done", "failed"}
    BY <1>7 DEF PageKept, DetailsKept, AfterPage
  <2>3. pc' \in Active => Within' \in 1..19
    BY <2>2 DEF Within, Active
  <2> QED BY <1>0, <2>1, <2>2, <2>3 DEF Active
<1>8. CASE CandidatesFail \/ ProbeAnswered \/ PageFails \/ ReplaceFails \/ ReplaceAdPartition
           \/ CaptureFBAInventorySnapshots \/ CaptureFails \/ DetailsFail
  <2>1. pc \in Active /\ pc' \in {"done", "failed"}
    BY <1>8 DEF CandidatesFail, ProbeAnswered, PageFails, ReplaceFails, ReplaceAdPartition,
                CaptureFBAInventorySnapshots, CaptureFails, DetailsFail, Active
  <2> QED BY <1>1, <2>1 DEF Active
<1> QED BY <1>3, <1>4, <1>5, <1>6, <1>7, <1>8 DEF Work

\* Cancellation, changes of the upstream and the end of the process cost no step more.
LEMMA OthersAddNothing ==
  ASSUME TypeOK, Counts, AskedFor, Cancel \/ Die \/ ChangeUpstream \/ UNCHANGED vars,
         Effort' = IF pc' \in Active THEN 20 * Rounds' + Within' ELSE 0
  PROVE  Effort' <= Effort
<1> USE DEF taskVars, loopVars, dataVars, noteVars
<1>0. Effort \in Nat /\ Effort = IF pc \in Active THEN 20 * Rounds + Within ELSE 0
  BY EffortShape DEF Effort
<1>1. CASE Die
  BY <1>0, <1>1 DEF Die, Active
<1>2. CASE Cancel \/ ChangeUpstream \/ UNCHANGED vars
  <2>1. UNCHANGED <<mode, base, offset, pages, attempt, pc>>
    BY <1>2 DEF Cancel, ChangeUpstream, vars
  <2>2. Rounds' = Rounds /\ Within' = Within
    BY <2>1 DEF Rounds, Within
  <2> QED BY <1>0, <2>1, <2>2
<1> QED BY <1>1, <1>2

\* The paging loop of fetchAndStoreParamSet, its retries and its batches of details cannot
\* go on for ever: twenty steps a page are the most, whatever the upstream answers and
\* however often it changes.  With Work under weak fairness this is why FetchEnds holds.
THEOREM FetchesRunOut ==
  Spec => EffortRunsOut
<1>1. ASSUME IInv, AskedFor, (Effort \in Nat)', [Next]_vars
      PROVE  [/\ Effort' \in Nat
              /\ Work => Effort' < Effort
              /\ Effort' > Effort => Start]_vars
  <2>1. Effort' = IF pc' \in Active THEN 20 * Rounds' + Within' ELSE 0
    BY DEF Effort
  <2>2. Effort' \in Nat
    BY <1>1
  <2>3. Work => Effort' < Effort
    BY <1>1, <2>1, WorkSpends DEF IInv
  <2>4. ASSUME ~Start PROVE ~(Effort' > Effort)
    <3>1. Effort \in Nat
      BY <1>1, EffortShape DEF IInv
    <3>2. Work \/ Cancel \/ Die \/ ChangeUpstream \/ UNCHANGED vars
      BY <1>1, <2>4 DEF Next
    <3>3. Effort' <= Effort
      BY <1>1, <2>1, <2>2, <2>3, <3>1, <3>2, OthersAddNothing DEF IInv
    <3> QED BY <2>2, <3>1, <3>3
  <2> QED BY <2>2, <2>3, <2>4
<1>2. Spec => [](Effort \in Nat)
  <2>1. IInv /\ AskedFor => Effort \in Nat
    BY EffortShape DEF IInv
  <2> QED BY <2>1, InvHolds, AskedForHolds, PTL
<1> QED BY <1>1, <1>2, InvHolds, AskedForHolds, PTL DEF Spec, EffortRunsOut
=============================================================================
