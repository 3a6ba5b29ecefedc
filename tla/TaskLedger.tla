------------------------------ MODULE TaskLedger ------------------------------
(***************************************************************************)
(* What the rows of sync_tasks promise to whoever reads them: a run opens  *)
(* one row and has one say in how it ends; everybody else (a cancel, the   *)
(* stale sweep) may only end a row that still says running.  A run that is *)
(* over, by its own end or with its process, has no say any more.          *)
(***************************************************************************)
CONSTANTS Tasks, Final

VARIABLES rows,   \* what each row says
          live    \* the rows whose run has not had its say yet

ledger == <<rows, live>>

Open(t) ==
  /\ rows[t] = "absent"
  /\ rows' = [rows EXCEPT ![t] = "running"]
  /\ live' = live \cup {t}

\* The run may find its row ended by others and overwrites that.
Close(t, s) ==
  /\ t \in live
  /\ rows' = [rows EXCEPT ![t] = s]
  /\ live' = live \ {t}

Interrupt(s) ==
  /\ \E T \in SUBSET {t \in Tasks : rows[t] = "running"} :
       rows' = [t \in Tasks |-> IF t \in T THEN s ELSE rows[t]]
  /\ UNCHANGED live

Abandon == live' \in SUBSET live /\ UNCHANGED rows

Init == rows = [t \in Tasks |-> "absent"] /\ live = {}

Next == \/ \E t \in Tasks : Open(t)
        \/ \E t \in Tasks, s \in Final : Close(t, s)
        \/ \E s \in Final : Interrupt(s)
        \/ Abandon

Spec == Init /\ [][Next]_ledger
===============================================================================
