----------------------------- MODULE ReportLedger -----------------------------
(***************************************************************************)
(* What the audit rows of a report scope promise to the calls that share   *)
(* them: one row at a time holds the scope, and a row that comes to an end *)
(* gives it up for good; a row gets one upstream task, and is imported     *)
(* only with one.  A slow call may bring a finished row back among the     *)
(* unfinished ones: it does not get the scope back with it.                *)
(***************************************************************************)
CONSTANTS Rows, Tasks, None

VARIABLES opened,    \* the rows there are
          holder,    \* those that hold the scope
          over,      \* those that are finished
          madeFor,   \* task -> the row it was created for, or None
          imported   \* the rows whose report is in the raw tables

ledger == <<opened, holder, over, madeFor, imported>>

Open(id) ==
  /\ holder = {} /\ id \notin opened
  /\ opened' = opened \cup {id}
  /\ holder' = {id}
  /\ UNCHANGED <<over, madeFor, imported>>

Order(id, t) ==
  /\ id \in opened /\ madeFor[t] = None
  /\ \A u \in Tasks : madeFor[u] # id
  /\ madeFor' = [madeFor EXCEPT ![t] = id]
  /\ UNCHANGED <<opened, holder, over, imported>>

Finish(id) ==
  /\ id \in opened
  /\ over' = over \cup {id}
  /\ holder' = holder \ {id}
  /\ \/ imported' = imported
     \/ imported' = imported \cup {id} /\ \E t \in Tasks : madeFor[t] = id
  /\ UNCHANGED <<opened, madeFor>>

Revive(id) ==
  /\ id \in over
  /\ over' = over \ {id}
  /\ UNCHANGED <<opened, holder, madeFor, imported>>

\* Rows from before there was a key hold no scope.
Init ==
  /\ opened \subseteq Rows
  /\ holder = {} /\ over = {} /\ imported = {}
  /\ madeFor = [t \in Tasks |-> None]

Next ==
  \E id \in Rows : Open(id) \/ Finish(id) \/ Revive(id) \/ \E t \in Tasks : Order(id, t)

Spec == Init /\ [][Next]_ledger
===============================================================================
