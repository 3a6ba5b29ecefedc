----------------------------- MODULE SettingsCell -----------------------------
(***************************************************************************)
(* What the configuration store promises to the handlers that edit it: one *)
(* value, replaced as a whole, and only by a request that read exactly the *)
(* value it replaces (SaveIfCurrent).  A restart may bring back another    *)
(* value, the one on disk, and forgets what every request had read.        *)
(***************************************************************************)
CONSTANTS Requests, None

VARIABLES value,   \* the configuration in force for the next reader
          seen     \* what each open request read, None when it read nothing

cell == <<value, seen>>

Read(r) == seen' = [seen EXCEPT ![r] = value] /\ UNCHANGED value

Leave(r) == seen' = [seen EXCEPT ![r] = None] /\ UNCHANGED value

CompareAndSwap(r) == seen[r] = value /\ UNCHANGED seen

Reopen == seen' = [r \in Requests |-> None]

Init == seen = [r \in Requests |-> None]

Next == \/ \E r \in Requests : Read(r) \/ Leave(r) \/ CompareAndSwap(r)
        \/ Reopen

Spec == Init /\ [][Next]_cell
===============================================================================
