--------------------------- MODULE ReportExportProofs ---------------------------
(***************************************************************************)
(* Proofs, for every set of callers and every bound, of the safety         *)
(* properties of ReportExport.                                             *)
(*                                                                         *)
(* The argument: a row is claimed by a compare-and-set on PENDING and is   *)
(* never PENDING again (Claims), so a creator is alone with its row until  *)
(* the task id is stored (Creators); every other call that writes a row    *)
(* has a stored task id in hand (PollsItsOwnTask, Sharers).  Two creators  *)
(* would need two unfinished rows without a task, and such a row holds the *)
(* key of the scope, or is a legacy row that every call finds (Untasked).  *)
(***************************************************************************)
EXTENDS ReportExport, TLAPS

\* Where a call has no audit row yet.
Blank == {"idle", "find", "insert", "refind"}

\* Where a call works with the task of its row.
Polling == {"query", "progress", "pause", "save"}

\* A call before EnsureReport returned knows nothing; after it, it has an issued row.
CallLocals ==
  \A c \in Callers :
    /\ pc[c] \in Blank => /\ task[c] = None /\ read[c] = "absent"
                          /\ c \notin owner /\ c \notin resuming
    /\ pc[c] \notin Blank => audit[c] \in Ids /\ audit[c] <= issued
    /\ pc[c] = "progress" => reply[c] \in Replies

\* Ids that were never issued are blank.
RowsIssued ==
  /\ \A id \in Ids : id > issued => status[id] = "absent" /\ taskId[id] = None /\ id \notin keyed
  /\ \A t \in Tasks : madeFor[t] <= issued

\* Stored ids name tasks made for the row, and a task that was made has a state.
TaskNames ==
  /\ \A id \in Ids : taskId[id] # None => madeFor[taskId[id]] = id
  /\ \A t \in Tasks : madeFor[t] # None => upstream[t] \in Replies

\* A row that shows an upstream status has a task.
TaskedRows ==
  \A id \in Ids : status[id] \in Replies => taskId[id] # None

\* A claim is for good, and one call owns it.
Claims ==
  /\ \A c \in owner : status[audit[c]] # "PENDING"
  /\ \A c, d \in owner : audit[c] = audit[d] => c = d

\* Nothing was created for a PENDING row.
PendingIsBlank ==
  \A id \in Ids : status[id] = "PENDING" =>
    taskId[id] = None /\ \A t \in Tasks : madeFor[t] # id

\* A call between its claim and the recording of the task.
Creators ==
  \A c \in Callers :
    /\ pc[c] \in {"create", "record"} =>
         c \in owner /\ status[audit[c]] = "CREATING" /\ taskId[audit[c]] = None
    /\ pc[c] = "create" => \A t \in Tasks : madeFor[t] # audit[c]
    /\ pc[c] = "record" => task[c] \in Tasks /\ madeFor[task[c]] = audit[c]

\* A call that may write a row without having claimed it found a stored task.
Sharers ==
  \A c \in Callers : pc[c] \notin Blank =>
    /\ (c \in resuming \/ read[c] = "DONE") => taskId[audit[c]] # None
    /\ (pc[c] \in {"claim", "wait"} /\ task[c] # None) => taskId[audit[c]] = task[c]

\* An unfinished row without a task holds the key, or nobody is about to insert.
Untasked ==
  \A id \in Ids : (status[id] \in Active /\ taskId[id] = None) =>
    id \in keyed \/ \A c \in Callers : pc[c] # "insert"

\* There is at most one unfinished row without a task.
OneUntasked ==
  \A id, other \in Ids :
    (/\ status[id] \in Active /\ taskId[id] = None
     /\ status[other] \in Active /\ taskId[other] = None) => id = other

\* The inductive invariant.
IInv ==
  /\ TypeOK /\ CallLocals /\ RowsIssued /\ TaskNames /\ TaskedRows
  /\ Claims /\ PendingIsBlank /\ Creators /\ Sharers /\ Untasked /\ OneUntasked
  /\ PollsItsOwnTask /\ KeyHolderIsActive /\ SuccessIsSaved /\ CreateOnce

-----------------------------------------------------------------------------
USE ReportAssumption DEF rowVars, upVars, localVars, histVars, Goto, Return, ReturnError,
  Continue, LoadAudit, Ids, Tasks, None, Labels, Replies, RowStatus, Blank, Polling, Active, TypeOK

\* A call at work has an issued row.
LEMMA AuditOfCall ==
  ASSUME IInv, NEW c \in Callers, pc[c] \notin Blank
  PROVE  audit[c] \in Ids /\ audit[c] <= issued /\ status[audit[c]] \in RowStatus
BY DEF IInv, CallLocals

\* A polling call has a task that upstream knows, made for its row.
LEMMA PolledTask ==
  ASSUME IInv, NEW c \in Callers, pc[c] \in Polling
  PROVE  /\ task[c] \in Tasks /\ upstream[task[c]] \in Replies
         /\ taskId[audit[c]] = task[c] /\ madeFor[task[c]] = audit[c]
         /\ audit[c] \in Ids /\ audit[c] <= issued
<1>1. task[c] \in Tasks /\ taskId[audit[c]] = task[c] /\ madeFor[task[c]] = audit[c]
      BY DEF IInv, PollsItsOwnTask
<1>2. audit[c] \in Ids /\ audit[c] <= issued BY DEF IInv, CallLocals
<1>3. madeFor[task[c]] # None BY <1>1, <1>2
<1>4. upstream[task[c]] \in Replies BY <1>1, <1>3 DEF IInv, TaskNames
<1> QED BY <1>1, <1>2, <1>4

\* The row findActiveReport returns is an issued, unfinished one.
LEMMA ActiveRow ==
  ASSUME IInv, NEW c \in Callers, FindActive(c)
  PROVE  \E id \in Ids :
           /\ status[id] \in Active /\ id <= issued
           /\ audit' = [audit EXCEPT ![c] = id]
           /\ read' = [read EXCEPT ![c] = status[id]]
           /\ task' = [task EXCEPT ![c] = taskId[id]]
<1>1. PICK id \in ActiveIds : LoadAudit(c, id) BY DEF FindActive
<1>2. id \in Ids /\ status[id] \in Active BY <1>1 DEF ActiveIds
<1>3. id <= issued BY <1>2 DEF IInv, RowsIssued
<1> QED BY <1>1, <1>2, <1>3

\* A row that some call may mark as failed is not the row of a creator, unless
\* the call is that creator.
LEMMA MarkedRow ==
  ASSUME IInv, NEW c \in Callers, NEW d \in Callers, c # d,
         pc[c] = "fail", MayMarkError(c), pc[d] \in {"create", "record"}
  PROVE  audit[c] # audit[d]
<1>1. d \in owner /\ taskId[audit[d]] = None BY DEF IInv, Creators
<1>2. CASE c \in owner BY <1>1, <1>2 DEF IInv, Claims
<1>3. CASE c \in resuming \/ read[c] = "DONE"
      BY <1>1, <1>3 DEF IInv, Sharers
<1> QED BY <1>2, <1>3 DEF MayMarkError

-----------------------------------------------------------------------------
\* The types are kept by every step.
LEMMA TypeOKStep == ASSUME IInv, [Next]_vars PROVE TypeOK'
<1>1. ASSUME NEW c \in Callers,
             Run(c) \/ InsertDuplicate(c) \/
             CreateFails(c) \/ PollAgain(c) \/ PollTimesOut(c) \/ StepFails(c)
      PROVE  TypeOK'
      BY <1>1 DEF IInv, Run, InsertDuplicate, CreateFails, PollAgain, PollTimesOut,
             StepFails
<1>2. ASSUME NEW c \in Callers, EnsureFails(c) PROVE TypeOK'
      BY <1>2 DEF IInv, EnsureFails
<1>3. ASSUME NEW c \in Callers, WaitFails(c) PROVE TypeOK'
      BY <1>3 DEF IInv, WaitFails
<1>4. ASSUME NEW c \in Callers, FailQuietly(c) PROVE TypeOK'
      BY <1>4 DEF IInv, FailQuietly
<1>5. ASSUME NEW c \in Callers, Die(c) PROVE TypeOK'
      BY <1>5 DEF IInv, Die
<1>6. ASSUME NEW c \in Callers, FindActive(c) PROVE TypeOK'
      BY <1>6 DEF IInv, FindActive, ActiveIds
<1>7. ASSUME NEW c \in Callers, Insert(c) PROVE TypeOK'
      BY <1>7 DEF IInv, Insert
<1>8. ASSUME NEW c \in Callers, Claim(c) PROVE TypeOK'
      BY <1>8 DEF IInv, Claim
<1>9. ASSUME NEW c \in Callers, Record(c) PROVE TypeOK'
      BY <1>9 DEF IInv, Record
<1>10. ASSUME NEW c \in Callers, Progress(c) PROVE TypeOK'
      BY <1>10 DEF IInv, Progress
<1>11. ASSUME NEW c \in Callers, MarkError(c) PROVE TypeOK'
      BY <1>11 DEF IInv, MarkError, MayMarkError
<1>12. ASSUME NEW c \in Callers, FindNothing(c) PROVE TypeOK'
  <2>1. TypeOK BY DEF IInv
  <2>2. Continue(c, "insert") \/ ReturnError(c) BY <1>12 DEF FindNothing
  <2>3. CASE Continue(c, "insert") BY <2>1, <2>3
  <2>4. CASE ReturnError(c) BY <2>1, <2>4
  <2> QED BY <2>2, <2>3, <2>4
<1>13. ASSUME NEW c \in Callers, ClaimLost(c) PROVE TypeOK'
  <2>1. TypeOK BY DEF IInv
  <2>2. ReturnError(c) \/ Continue(c, "wait") \/ Continue(c, "query")
        BY <1>13 DEF ClaimLost
  <2>3. CASE ReturnError(c) BY <2>1, <2>3
  <2>4. CASE Continue(c, "wait") BY <2>1, <2>4
  <2>5. CASE Continue(c, "query") BY <2>1, <2>5
  <2> QED BY <2>2, <2>3, <2>4, <2>5
<1>14. ASSUME NEW c \in Callers, WaitForTask(c) PROVE TypeOK'
  <2>1. audit[c] \in Ids BY <1>14, AuditOfCall DEF WaitForTask
  <2>2. CASE status[audit[c]] = "SUCCESS"
    <3>1. promised' = promised \cup {audit[c]} /\ Return(c) /\ UNCHANGED <<rowVars, upVars, deaths>>
          BY <1>14, <2>2 DEF WaitForTask
    <3> QED BY <2>1, <3>1 DEF IInv
  <2>3. CASE status[audit[c]] # "SUCCESS"
    <3>1. /\ LoadAudit(c, audit[c]) /\ Goto(c, "query")
          /\ UNCHANGED <<rowVars, upVars, reply, owner, fresh, resuming, histVars>>
          BY <1>14, <2>3 DEF WaitForTask
    <3> QED BY <2>1, <3>1 DEF IInv
  <2> QED BY <2>2, <2>3
<1>15. ASSUME NEW c \in Callers, Create(c) PROVE TypeOK'
  <2>1. audit[c] \in Ids BY <1>15, AuditOfCall DEF Create
  <2>2. PICK t \in Tasks :
          /\ upstream' = [upstream EXCEPT ![t] = "IN_PROGRESS"]
          /\ madeFor' = [madeFor EXCEPT ![t] = audit[c]]
          /\ \/ task' = [task EXCEPT ![c] = t] /\ Goto(c, "record")
             \/ UNCHANGED task /\ Goto(c, "fail")
        BY <1>15 DEF Create
  <2>3. pc' \in [Callers -> Labels] /\ task' \in [Callers -> Tasks \cup {None}]
        BY <2>2 DEF IInv
  <2>4. upstream' \in [Tasks -> Replies \cup {"absent"}]
        BY <2>2 DEF IInv
  <2>5. madeFor' \in [Tasks -> Ids \cup {None}]
        BY <2>1, <2>2 DEF IInv
  <2> QED BY <1>15, <2>3, <2>4, <2>5 DEF IInv, Create
<1>16. ASSUME NEW c \in Callers, Query(c) PROVE TypeOK'
  <2>1. upstream[task[c]] \in Replies BY <1>16, PolledTask DEF Query
  <2> QED BY <1>16, <2>1 DEF IInv, Query
<1>17. ASSUME NEW c \in Callers, Save(c) PROVE TypeOK'
  <2>1. audit[c] \in Ids BY <1>17, AuditOfCall DEF Save
  <2> QED BY <1>17, <2>1 DEF IInv, Save
<1>18. ASSUME NEW c \in Callers, NEW id \in Ids, Resume(c, id) PROVE TypeOK'
      BY <1>18 DEF IInv, Resume
<1>19. ASSUME NEW t \in Tasks, UpstreamEnds(t) PROVE TypeOK'
      BY <1>19 DEF IInv, UpstreamEnds
<1>20. CASE UNCHANGED vars BY <1>20 DEF IInv, vars
<1> QED BY <1>1, <1>2, <1>3, <1>4, <1>5, <1>6, <1>7, <1>8, <1>9, <1>10, <1>11, <1>12,
           <1>13, <1>14, <1>15, <1>16, <1>17, <1>18, <1>19, <1>20
        DEF Next, Ensure, Export

\* The locals of a call: an audit row from EnsureReport on, a real reply to write.
LEMMA CallLocalsStep == ASSUME IInv, [Next]_vars PROVE CallLocals'
<1>1. ASSUME NEW c \in Callers,
             Run(c) \/ InsertDuplicate(c) \/
             CreateFails(c) \/ PollAgain(c) \/ PollTimesOut(c) \/ StepFails(c)
      PROVE  CallLocals'
      BY <1>1 DEF IInv, CallLocals, Run, InsertDuplicate, CreateFails, PollAgain,
             PollTimesOut, StepFails
<1>2. ASSUME NEW c \in Callers,
             EnsureFails(c) \/ WaitFails(c) \/
             FailQuietly(c) \/ Die(c)
      PROVE  CallLocals'
      BY <1>2 DEF IInv, CallLocals, EnsureFails, WaitFails, FailQuietly, Die
<1>3. ASSUME NEW c \in Callers,
             FindNothing(c) \/ Insert(c) \/ Claim(c)
      PROVE  CallLocals'
      BY <1>3 DEF IInv, CallLocals, FindNothing, Insert, Claim, ActiveIds
<1>4. ASSUME NEW c \in Callers,
             Create(c) \/ Record(c) \/ Progress(c)
      PROVE  CallLocals'
      BY <1>4 DEF IInv, CallLocals, Create, Record, Progress
<1>5. ASSUME NEW c \in Callers,
             Save(c) \/ MarkError(c)
      PROVE  CallLocals'
      BY <1>5 DEF IInv, CallLocals, Save, MarkError, MayMarkError
<1>6. ASSUME NEW c \in Callers, FindActive(c) PROVE CallLocals'
  <2>1. PICK id \in Ids :
          /\ status[id] \in Active /\ id <= issued
          /\ audit' = [audit EXCEPT ![c] = id]
          /\ read' = [read EXCEPT ![c] = status[id]]
          /\ task' = [task EXCEPT ![c] = taskId[id]]
        BY <1>6, ActiveRow
  <2> QED BY <1>6, <2>1 DEF IInv, CallLocals, FindActive
<1>7. ASSUME NEW c \in Callers, ClaimLost(c) PROVE CallLocals'
  <2>1. CASE c \in fresh BY <1>7, <2>1 DEF IInv, CallLocals, ClaimLost
  <2>2. CASE c \notin fresh BY <1>7, <2>2 DEF IInv, CallLocals, ClaimLost
  <2> QED BY <2>1, <2>2
<1>8. ASSUME NEW c \in Callers, WaitForTask(c) PROVE CallLocals'
  <2>1. audit[c] \in Ids /\ audit[c] <= issued BY <1>8, AuditOfCall DEF WaitForTask
  <2>2. CASE status[audit[c]] = "SUCCESS" BY <1>8, <2>1, <2>2 DEF IInv, CallLocals, WaitForTask
  <2>3. CASE status[audit[c]] # "SUCCESS" BY <1>8, <2>1, <2>3 DEF IInv, CallLocals, WaitForTask
  <2> QED BY <2>2, <2>3
<1>9. ASSUME NEW c \in Callers, Query(c) PROVE CallLocals'
  <2>1. upstream[task[c]] \in Replies BY <1>9, PolledTask DEF Query
  <2> QED BY <1>9, <2>1 DEF IInv, CallLocals, Query
<1>10. ASSUME NEW c \in Callers, NEW id \in Ids, Resume(c, id) PROVE CallLocals'
  <2>1. id <= issued BY <1>10 DEF IInv, RowsIssued, Resume
  <2> QED BY <1>10, <2>1 DEF IInv, CallLocals, Resume
<1>11. ASSUME NEW t \in Tasks, UpstreamEnds(t) PROVE CallLocals'
      BY <1>11 DEF IInv, CallLocals, UpstreamEnds
<1>12. CASE UNCHANGED vars BY <1>12 DEF IInv, CallLocals, vars
<1> QED BY <1>1, <1>2, <1>3, <1>4, <1>5, <1>6, <1>7, <1>8, <1>9, <1>10, <1>11, <1>12
        DEF Next, Ensure, Export

\* Nothing refers to an id that was never issued.
LEMMA RowsIssuedStep == ASSUME IInv, [Next]_vars PROVE RowsIssued'
<1>1. ASSUME NEW c \in Callers,
             Run(c) \/ InsertDuplicate(c) \/
             CreateFails(c) \/ PollAgain(c) \/ PollTimesOut(c) \/ StepFails(c)
      PROVE  RowsIssued'
      BY <1>1 DEF IInv, RowsIssued, Run, InsertDuplicate, CreateFails, PollAgain,
             PollTimesOut, StepFails
<1>2. ASSUME NEW c \in Callers,
             EnsureFails(c) \/ WaitFails(c) \/
             FailQuietly(c) \/ Die(c)
      PROVE  RowsIssued'
      BY <1>2 DEF IInv, RowsIssued, EnsureFails, WaitFails, FailQuietly, Die
<1>3. ASSUME NEW c \in Callers,
             FindActive(c) \/ FindNothing(c) \/
             Insert(c)
      PROVE  RowsIssued'
      BY <1>3 DEF IInv, RowsIssued, FindActive, FindNothing, Insert, ActiveIds
<1>4. ASSUME NEW c \in Callers,
             Claim(c) \/ ClaimLost(c) \/
             WaitForTask(c)
      PROVE  RowsIssued'
      BY <1>4 DEF IInv, RowsIssued, Claim, ClaimLost, WaitForTask
<1>5. ASSUME NEW c \in Callers,
             Query(c) \/ Save(c)
      PROVE  RowsIssued'
      BY <1>5 DEF IInv, RowsIssued, Query, Save
<1>6. ASSUME NEW c \in Callers, Create(c) PROVE RowsIssued'
  <2>1. audit[c] \in Ids /\ audit[c] <= issued BY <1>6, AuditOfCall DEF Create
  <2>2. PICK t \in Tasks : madeFor' = [madeFor EXCEPT ![t] = audit[c]] BY <1>6 DEF Create
  <2>3. \A u \in Tasks : madeFor'[u] <= issued BY <2>1, <2>2 DEF IInv, RowsIssued
  <2> QED BY <1>6, <2>3 DEF IInv, RowsIssued, Create
<1>7. ASSUME NEW c \in Callers, Record(c) PROVE RowsIssued'
  <2>1. audit[c] \in Ids /\ audit[c] <= issued BY <1>7, AuditOfCall DEF Record
  <2> QED BY <1>7, <2>1 DEF IInv, RowsIssued, Record
<1>8. ASSUME NEW c \in Callers, Progress(c) PROVE RowsIssued'
  <2>1. audit[c] \in Ids /\ audit[c] <= issued BY <1>8, AuditOfCall DEF Progress
  <2>2. keyed' \subseteq keyed BY <1>8 DEF Progress
  <2>3. \A id \in Ids : id > issued => status'[id] = status[id] BY <1>8, <2>1 DEF IInv, Progress
  <2>4. UNCHANGED <<issued, taskId, madeFor>> BY <1>8 DEF Progress
  <2> QED BY <2>2, <2>3, <2>4 DEF IInv, RowsIssued
<1>9. ASSUME NEW c \in Callers, MarkError(c) PROVE RowsIssued'
  <2>1. audit[c] \in Ids /\ audit[c] <= issued BY <1>9, AuditOfCall DEF MarkError
  <2>2. keyed' \subseteq keyed BY <1>9 DEF MarkError
  <2>3. \A id \in Ids : id > issued => status'[id] = status[id] BY <1>9, <2>1 DEF IInv, MarkError
  <2>4. UNCHANGED <<issued, taskId, madeFor>> BY <1>9 DEF MarkError
  <2> QED BY <2>2, <2>3, <2>4 DEF IInv, RowsIssued
<1>10. ASSUME NEW c \in Callers, NEW id \in Ids, Resume(c, id) PROVE RowsIssued'
      BY <1>10 DEF IInv, RowsIssued, Resume
<1>11. ASSUME NEW t \in Tasks, UpstreamEnds(t) PROVE RowsIssued'
      BY <1>11 DEF IInv, RowsIssued, UpstreamEnds
<1>12. CASE UNCHANGED vars BY <1>12 DEF IInv, RowsIssued, vars
<1> QED BY <1>1, <1>2, <1>3, <1>4, <1>5, <1>6, <1>7, <1>8, <1>9, <1>10, <1>11, <1>12
        DEF Next, Ensure, Export

\* A stored task id names a task made for that row.
LEMMA TaskNamesStep == ASSUME IInv, [Next]_vars PROVE TaskNames'
<1>1. ASSUME NEW c \in Callers,
             Run(c) \/ InsertDuplicate(c) \/
             CreateFails(c) \/ PollAgain(c) \/ PollTimesOut(c) \/ StepFails(c)
      PROVE  TaskNames'
      BY <1>1 DEF IInv, TaskNames, Run, InsertDuplicate, CreateFails, PollAgain,
             PollTimesOut, StepFails
<1>2. ASSUME NEW c \in Callers,
             EnsureFails(c) \/ WaitFails(c) \/
             FailQuietly(c) \/ Die(c)
      PROVE  TaskNames'
      BY <1>2 DEF IInv, TaskNames, EnsureFails, WaitFails, FailQuietly, Die
<1>3. ASSUME NEW c \in Callers,
             FindActive(c) \/ FindNothing(c) \/
             Insert(c)
      PROVE  TaskNames'
      BY <1>3 DEF IInv, TaskNames, FindActive, FindNothing, Insert, ActiveIds
<1>4. ASSUME NEW c \in Callers,
             Claim(c) \/ ClaimLost(c) \/
             WaitForTask(c)
      PROVE  TaskNames'
      BY <1>4 DEF IInv, TaskNames, Claim, ClaimLost, WaitForTask
<1>5. ASSUME NEW c \in Callers,
             Create(c) \/ Query(c) \/ Progress(c)
      PROVE  TaskNames'
      BY <1>5 DEF IInv, TaskNames, Create, Query, Progress
<1>6. ASSUME NEW c \in Callers,
             Save(c) \/ MarkError(c)
      PROVE  TaskNames'
      BY <1>6 DEF IInv, TaskNames, Save, MarkError, MayMarkError
<1>7. ASSUME NEW c \in Callers, Record(c) PROVE TaskNames'
  <2>1. audit[c] \in Ids BY <1>7, AuditOfCall DEF Record
  <2>2. task[c] \in Tasks /\ madeFor[task[c]] = audit[c] BY <1>7 DEF IInv, Creators, Record
  <2> QED BY <1>7, <2>1, <2>2 DEF IInv, TaskNames, Record
<1>8. ASSUME NEW c \in Callers, NEW id \in Ids, Resume(c, id) PROVE TaskNames'
      BY <1>8 DEF IInv, TaskNames, Resume
<1>9. ASSUME NEW t \in Tasks, UpstreamEnds(t) PROVE TaskNames'
      BY <1>9 DEF IInv, TaskNames, UpstreamEnds
<1>10. CASE UNCHANGED vars BY <1>10 DEF IInv, TaskNames, vars
<1> QED BY <1>1, <1>2, <1>3, <1>4, <1>5, <1>6, <1>7, <1>8, <1>9, <1>10
        DEF Next, Ensure, Export

\* A row shows an upstream status only after its task id was stored.
LEMMA TaskedRowsStep == ASSUME IInv, [Next]_vars PROVE TaskedRows'
<1>1. ASSUME NEW c \in Callers,
             Run(c) \/ InsertDuplicate(c) \/
             CreateFails(c) \/ PollAgain(c) \/ PollTimesOut(c) \/ StepFails(c)
      PROVE  TaskedRows'
      BY <1>1 DEF IInv, TaskedRows, Run, InsertDuplicate, CreateFails, PollAgain,
             PollTimesOut, StepFails
<1>2. ASSUME NEW c \in Callers,
             EnsureFails(c) \/ WaitFails(c) \/
             FailQuietly(c) \/ Die(c)
      PROVE  TaskedRows'
      BY <1>2 DEF IInv, TaskedRows, EnsureFails, WaitFails, FailQuietly, Die
<1>3. ASSUME NEW c \in Callers,
             FindActive(c) \/ FindNothing(c) \/
             Insert(c)
      PROVE  TaskedRows'
      BY <1>3 DEF IInv, TaskedRows, FindActive, FindNothing, Insert, ActiveIds
<1>4. ASSUME NEW c \in Callers,
             Claim(c) \/ ClaimLost(c) \/
             WaitForTask(c)
      PROVE  TaskedRows'
      BY <1>4 DEF IInv, TaskedRows, Claim, ClaimLost, WaitForTask
<1>5. ASSUME NEW c \in Callers,
             Create(c) \/ Record(c) \/ Query(c)
      PROVE  TaskedRows'
      BY <1>5 DEF IInv, TaskedRows, Create, Record, Query
<1>6. ASSUME NEW c \in Callers,
             Save(c) \/ MarkError(c)
      PROVE  TaskedRows'
      BY <1>6 DEF IInv, TaskedRows, Save, MarkError, MayMarkError
<1>7. ASSUME NEW c \in Callers, Progress(c) PROVE TaskedRows'
  <2>1. audit[c] \in Ids /\ taskId[audit[c]] # None BY <1>7, PolledTask DEF Progress
  <2>2. \A id \in Ids : id # audit[c] => status'[id] = status[id] BY <1>7, <2>1 DEF Progress
  <2> QED BY <1>7, <2>1, <2>2 DEF IInv, TaskedRows, Progress
<1>8. ASSUME NEW c \in Callers, NEW id \in Ids, Resume(c, id) PROVE TaskedRows'
      BY <1>8 DEF IInv, TaskedRows, Resume
<1>9. ASSUME NEW t \in Tasks, UpstreamEnds(t) PROVE TaskedRows'
      BY <1>9 DEF IInv, TaskedRows, UpstreamEnds
<1>10. CASE UNCHANGED vars BY <1>10 DEF IInv, TaskedRows, vars
<1> QED BY <1>1, <1>2, <1>3, <1>4, <1>5, <1>6, <1>7, <1>8, <1>9, <1>10
        DEF Next, Ensure, Export

\* A claimed row never becomes PENDING again, so nobody claims it twice.
LEMMA ClaimsStep == ASSUME IInv, [Next]_vars PROVE Claims'
<1>1. ASSUME NEW c \in Callers,
             Run(c) \/ InsertDuplicate(c) \/
             CreateFails(c) \/ PollAgain(c) \/ PollTimesOut(c) \/ StepFails(c)
      PROVE  Claims'
      BY <1>1 DEF IInv, Claims, Run, InsertDuplicate, CreateFails, PollAgain,
             PollTimesOut, StepFails
<1>2. ASSUME NEW c \in Callers,
             EnsureFails(c) \/ WaitFails(c) \/
             FailQuietly(c) \/ Die(c)
      PROVE  Claims'
      BY <1>2 DEF IInv, Claims, EnsureFails, WaitFails, FailQuietly, Die
<1>3. ASSUME NEW c \in Callers, FindNothing(c) PROVE Claims'
      BY <1>3 DEF IInv, Claims, FindNothing, ActiveIds
<1>4. ASSUME NEW c \in Callers, Create(c) PROVE Claims'
      BY <1>4 DEF IInv, Claims, Create
<1>5. ASSUME NEW c \in Callers, Record(c) PROVE Claims'
      BY <1>5 DEF IInv, Claims, Record
<1>6. ASSUME NEW c \in Callers, Query(c) PROVE Claims'
      BY <1>6 DEF IInv, Claims, Query
<1>7. ASSUME NEW c \in Callers, Progress(c) PROVE Claims'
      BY <1>7 DEF IInv, Claims, Progress
<1>8. ASSUME NEW c \in Callers, Save(c) PROVE Claims'
      BY <1>8 DEF IInv, Claims, Save
<1>9. ASSUME NEW c \in Callers, FindActive(c) PROVE Claims'
  <2>1. c \notin owner BY <1>9 DEF IInv, CallLocals, FindActive
  <2>2. \A d \in owner : audit'[d] = audit[d] BY <1>9, <2>1, ActiveRow DEF IInv
  <2> QED BY <1>9, <2>2 DEF IInv, Claims, FindActive
<1>10. ASSUME NEW c \in Callers, Insert(c) PROVE Claims'
  <2>1. c \notin owner BY <1>10 DEF IInv, CallLocals, Insert
  <2>2. \A d \in owner : audit[d] \in Ids /\ audit[d] <= issued
        BY DEF IInv, CallLocals
  <2>3. \A d \in owner : audit'[d] = audit[d] /\ status'[audit[d]] = status[audit[d]]
        BY <1>10, <2>1, <2>2 DEF IInv, Insert
  <2> QED BY <1>10, <2>3 DEF IInv, Claims, Insert
<1>11. ASSUME NEW c \in Callers, Claim(c) PROVE Claims'
  <2>1. audit[c] \in Ids /\ status[audit[c]] = "PENDING" BY <1>11, AuditOfCall DEF Claim
  <2>2. \A d \in owner : audit[d] # audit[c] BY <2>1 DEF IInv, Claims
  <2>3. \A d \in owner : status'[audit[d]] # "PENDING" BY <1>11, <2>2, <2>1 DEF IInv, Claims, Claim
  <2>4. status'[audit[c]] = "CREATING" BY <1>11, <2>1 DEF IInv, Claim
  <2>5. owner' = owner \cup {c} /\ audit' = audit BY <1>11 DEF Claim
  <2> QED BY <2>2, <2>3, <2>4, <2>5 DEF IInv, Claims
<1>12. ASSUME NEW c \in Callers, ClaimLost(c) PROVE Claims'
  <2>1. owner' \subseteq owner /\ \A d \in owner' : audit'[d] = audit[d]
        BY <1>12 DEF IInv, ClaimLost
  <2>2. status' = status BY <1>12 DEF ClaimLost
  <2> QED BY <2>1, <2>2 DEF IInv, Claims
<1>13. ASSUME NEW c \in Callers, WaitForTask(c) PROVE Claims'
  <2>1. owner' \subseteq owner /\ \A d \in owner' : audit'[d] = audit[d]
        BY <1>13 DEF IInv, WaitForTask
  <2>2. status' = status BY <1>13 DEF WaitForTask
  <2> QED BY <2>1, <2>2 DEF IInv, Claims
<1>14. ASSUME NEW c \in Callers, MarkError(c) PROVE Claims'
  <2>1. owner' = owner \ {c} /\ \A d \in owner' : audit'[d] = audit[d]
        BY <1>14 DEF MarkError
  <2>2. audit[c] \in Ids BY <1>14, AuditOfCall DEF MarkError
  <2>3. \A d \in owner : audit[d] \in Ids BY DEF IInv, CallLocals
  <2>4. \A d \in owner : status'[audit[d]] # "PENDING"
        BY <1>14, <2>2, <2>3 DEF IInv, Claims, MarkError
  <2> QED BY <2>1, <2>4 DEF IInv, Claims
<1>15. ASSUME NEW c \in Callers, NEW id \in Ids, Resume(c, id) PROVE Claims'
  <2>1. c \notin owner BY <1>15 DEF IInv, CallLocals, Resume
  <2>2. \A d \in owner : audit'[d] = audit[d] BY <1>15, <2>1 DEF Resume
  <2> QED BY <1>15, <2>2 DEF IInv, Claims, Resume
<1>16. ASSUME NEW t \in Tasks, UpstreamEnds(t) PROVE Claims'
      BY <1>16 DEF IInv, Claims, UpstreamEnds
<1>17. CASE UNCHANGED vars BY <1>17 DEF IInv, Claims, vars
<1> QED BY <1>1, <1>2, <1>3, <1>4, <1>5, <1>6, <1>7, <1>8, <1>9, <1>10, <1>11, <1>12,
           <1>13, <1>14, <1>15, <1>16, <1>17
        DEF Next, Ensure, Export

\* A PENDING row has no task yet, stored or lost.
LEMMA PendingIsBlankStep == ASSUME IInv, [Next]_vars PROVE PendingIsBlank'
<1>1. ASSUME NEW c \in Callers,
             Run(c) \/ InsertDuplicate(c) \/
             CreateFails(c) \/ PollAgain(c) \/ PollTimesOut(c) \/ StepFails(c)
      PROVE  PendingIsBlank'
      BY <1>1 DEF IInv, PendingIsBlank, Run, InsertDuplicate, CreateFails, PollAgain,
             PollTimesOut, StepFails
<1>2. ASSUME NEW c \in Callers,
             EnsureFails(c) \/ WaitFails(c) \/
             FailQuietly(c) \/ Die(c)
      PROVE  PendingIsBlank'
      BY <1>2 DEF IInv, PendingIsBlank, EnsureFails, WaitFails, FailQuietly, Die
<1>3. ASSUME NEW c \in Callers,
             FindActive(c) \/ FindNothing(c) \/
             Claim(c)
      PROVE  PendingIsBlank'
      BY <1>3 DEF IInv, PendingIsBlank, FindActive, FindNothing, Claim, ActiveIds
<1>4. ASSUME NEW c \in Callers,
             ClaimLost(c) \/ WaitForTask(c) \/
             Record(c)
      PROVE  PendingIsBlank'
      BY <1>4 DEF IInv, PendingIsBlank, ClaimLost, WaitForTask, Record
<1>5. ASSUME NEW c \in Callers,
             Query(c) \/ Progress(c) \/ Save(c)
      PROVE  PendingIsBlank'
      BY <1>5 DEF IInv, PendingIsBlank, Query, Progress, Save
<1>6. ASSUME NEW c \in Callers, MarkError(c) PROVE PendingIsBlank'
      BY <1>6 DEF IInv, PendingIsBlank, MarkError, MayMarkError
<1>7. ASSUME NEW c \in Callers, Insert(c) PROVE PendingIsBlank'
  <2>1. issued + 1 \in Ids BY <1>7 DEF IInv, Insert
  <2>2. taskId[issued + 1] = None /\ \A t \in Tasks : madeFor[t] # issued + 1
        BY <2>1 DEF IInv, RowsIssued
  <2> QED BY <1>7, <2>1, <2>2 DEF IInv, PendingIsBlank, Insert
<1>8. ASSUME NEW c \in Callers, Create(c) PROVE PendingIsBlank'
  <2>1. audit[c] \in Ids /\ status[audit[c]] = "CREATING" BY <1>8, AuditOfCall DEF IInv, Creators, Create
  <2>2. PICK t \in Tasks : madeFor' = [madeFor EXCEPT ![t] = audit[c]] BY <1>8 DEF Create
  <2> QED BY <1>8, <2>1, <2>2 DEF IInv, PendingIsBlank, Create
<1>9. ASSUME NEW c \in Callers, NEW id \in Ids, Resume(c, id) PROVE PendingIsBlank'
      BY <1>9 DEF IInv, PendingIsBlank, Resume
<1>10. ASSUME NEW t \in Tasks, UpstreamEnds(t) PROVE PendingIsBlank'
      BY <1>10 DEF IInv, PendingIsBlank, UpstreamEnds
<1>11. CASE UNCHANGED vars BY <1>11 DEF IInv, PendingIsBlank, vars
<1> QED BY <1>1, <1>2, <1>3, <1>4, <1>5, <1>6, <1>7, <1>8, <1>9, <1>10, <1>11
        DEF Next, Ensure, Export

\* What holds between a claim and the recording of the task: nobody else writes the row.
LEMMA CreatorsStep == ASSUME IInv, [Next]_vars PROVE Creators'
<1>1. ASSUME NEW c \in Callers,
             Run(c) \/ InsertDuplicate(c) \/
             CreateFails(c) \/ PollAgain(c) \/ PollTimesOut(c) \/ StepFails(c)
      PROVE  Creators'
      BY <1>1 DEF IInv, Creators, Run, InsertDuplicate, CreateFails, PollAgain,
             PollTimesOut, StepFails
<1>2. ASSUME NEW c \in Callers,
             EnsureFails(c) \/ WaitFails(c) \/
             FailQuietly(c) \/ Die(c)
      PROVE  Creators'
      BY <1>2 DEF IInv, Creators, EnsureFails, WaitFails, FailQuietly, Die
<1>3. ASSUME NEW c \in Callers,
             FindActive(c) \/ FindNothing(c) \/
             ClaimLost(c)
      PROVE  Creators'
      BY <1>3 DEF IInv, Creators, FindActive, FindNothing, ClaimLost, ActiveIds
<1>4. ASSUME NEW c \in Callers, WaitForTask(c) PROVE Creators'
      BY <1>4 DEF IInv, Creators, WaitForTask
<1>5. ASSUME NEW c \in Callers, Query(c) PROVE Creators'
      BY <1>5 DEF IInv, Creators, Query
<1>6. ASSUME NEW c \in Callers, Save(c) PROVE Creators'
      BY <1>6 DEF IInv, Creators, Save
<1>7. ASSUME NEW c \in Callers, Insert(c) PROVE Creators'
  <2>1. c \notin owner BY <1>7 DEF IInv, CallLocals, Insert
  <2>2. \A d \in Callers : pc'[d] \in {"create", "record"} =>
          d # c /\ pc[d] = pc'[d] /\ audit'[d] = audit[d] /\ audit[d] <= issued /\ audit[d] \in Ids
        BY <1>7 DEF IInv, CallLocals, Insert
  <2>3. \A d \in Callers : pc'[d] \in {"create", "record"} => status'[audit[d]] = status[audit[d]]
        BY <1>7, <2>2 DEF IInv, Insert
  <2>4. UNCHANGED <<owner, taskId, madeFor, task>> BY <1>7 DEF Insert
  <2> QED BY <2>2, <2>3, <2>4 DEF IInv, Creators
<1>8. ASSUME NEW c \in Callers, Claim(c) PROVE Creators'
  <2>1. audit[c] \in Ids /\ status[audit[c]] = "PENDING" /\ taskId[audit[c]] = None
        BY <1>8, AuditOfCall DEF Claim
  <2>2. \A t \in Tasks : madeFor[t] # audit[c] BY <2>1 DEF IInv, PendingIsBlank
  <2>3. \A d \in Callers : (d # c /\ pc[d] \in {"create", "record"}) => audit[d] # audit[c]
        BY <2>1 DEF IInv, Creators
  <2>4. \A d \in Callers : (d # c /\ pc[d] \in {"create", "record"}) => status'[audit[d]] = status[audit[d]]
        BY <1>8, <2>1, <2>3 DEF Claim
  <2>5. status'[audit[c]] = "CREATING" /\ c \in owner' /\ pc'[c] = "create" BY <1>8, <2>1 DEF IInv, Claim
  <2>6. \A d \in Callers : d # c => pc'[d] = pc[d] BY <1>8 DEF Claim
  <2>7. owner \subseteq owner' /\ UNCHANGED <<taskId, madeFor, task, audit>> BY <1>8 DEF Claim
  <2> QED BY <2>1, <2>2, <2>4, <2>5, <2>6, <2>7 DEF IInv, Creators
<1>9. ASSUME NEW c \in Callers, Create(c) PROVE Creators'
  <2>1. c \in owner /\ audit[c] \in Ids BY <1>9, AuditOfCall DEF IInv, Creators, Create
  <2>2. PICK t \in Tasks :
          /\ madeFor[t] = None /\ madeFor' = [madeFor EXCEPT ![t] = audit[c]]
          /\ \/ task' = [task EXCEPT ![c] = t] /\ pc' = [pc EXCEPT ![c] = "record"]
             \/ task' = task /\ pc' = [pc EXCEPT ![c] = "fail"]
        BY <1>9 DEF Create
  <2>3. UNCHANGED <<owner, status, taskId, audit>> BY <1>9 DEF Create
  <2>4. \A d \in Callers : (d # c /\ pc[d] \in {"create", "record"}) =>
          d \in owner /\ audit[d] # audit[c]
        BY <2>1 DEF IInv, Creators, Claims
  <2>5. ASSUME NEW d \in Callers, d # c, pc[d] = "record"
        PROVE  task'[d] = task[d] /\ task[d] # t
    <3>1. audit[d] \in Ids /\ madeFor[task[d]] = audit[d] /\ task[d] \in Tasks
          BY <2>5, AuditOfCall DEF IInv, Creators
    <3>2. task'[d] = task[d] BY <2>2, <2>5 DEF IInv
    <3> QED BY <2>2, <3>1, <3>2
  <2>6. ASSUME NEW d \in Callers, d # c, pc[d] = "create", NEW u \in Tasks
        PROVE  madeFor'[u] # audit[d]
        BY <2>2, <2>4, <2>6 DEF IInv, Creators
  <2>7. pc'[c] = "record" => task'[c] = t /\ madeFor'[t] = audit[c]
        BY <2>2 DEF IInv
  <2>8. \A d \in Callers : d # c => pc'[d] = pc[d] BY <2>2 DEF IInv
  <2>9. pc'[c] \in {"record", "fail"} BY <2>2 DEF IInv
  <2>10. ASSUME NEW d \in Callers
         PROVE  /\ pc'[d] \in {"create", "record"} =>
                     d \in owner' /\ status'[audit'[d]] = "CREATING" /\ taskId'[audit'[d]] = None
                /\ pc'[d] = "create" => \A u \in Tasks : madeFor'[u] # audit'[d]
                /\ pc'[d] = "record" => task'[d] \in Tasks /\ madeFor'[task'[d]] = audit'[d]
    <3>1. CASE d = c BY <1>9, <2>1, <2>2, <2>3, <2>7, <2>9, <3>1 DEF IInv, Creators, Create
    <3>2. CASE d # c
      <4>1. pc'[d] \in {"create", "record"} =>
              d \in owner' /\ status'[audit'[d]] = "CREATING" /\ taskId'[audit'[d]] = None
            BY <2>3, <2>8, <3>2 DEF IInv, Creators
      <4>2. pc'[d] = "create" => \A u \in Tasks : madeFor'[u] # audit'[d]
            BY <2>3, <2>6, <2>8, <3>2
      <4>3. pc'[d] = "record" => task'[d] \in Tasks /\ madeFor'[task'[d]] = audit'[d]
            BY <2>2, <2>3, <2>5, <2>8, <3>2 DEF IInv, Creators
      <4> QED BY <4>1, <4>2, <4>3
    <3> QED BY <3>1, <3>2
  <2> QED BY <2>10 DEF Creators
<1>10. ASSUME NEW c \in Callers, Record(c) PROVE Creators'
  <2>1. c \in owner /\ audit[c] \in Ids BY <1>10, AuditOfCall DEF IInv, Creators, Record
  <2>2. \A d \in Callers : (d # c /\ pc[d] \in {"create", "record"}) =>
          audit[d] # audit[c]
        BY <2>1 DEF IInv, Creators, Claims
  <2>3. \A d \in Callers : pc'[d] \in {"create", "record"} => d # c /\ pc'[d] = pc[d]
        BY <1>10 DEF IInv, Record
  <2>4. \A d \in Callers : pc'[d] \in {"create", "record"} =>
          status'[audit[d]] = status[audit[d]] /\ taskId'[audit[d]] = taskId[audit[d]]
        BY <1>10, <2>1, <2>2, <2>3 DEF Record
  <2>5. UNCHANGED <<owner, madeFor, task, audit>> BY <1>10 DEF Record
  <2> QED BY <2>3, <2>4, <2>5 DEF IInv, Creators
<1>11. ASSUME NEW c \in Callers, Progress(c) PROVE Creators'
  <2>1. audit[c] \in Ids /\ taskId[audit[c]] # None BY <1>11, PolledTask DEF Progress
  <2>2. \A d \in Callers : pc'[d] \in {"create", "record"} => pc'[d] = pc[d]
        BY <1>11 DEF Progress
  <2>3. \A d \in Callers : pc'[d] \in {"create", "record"} => audit[d] # audit[c]
        BY <2>1, <2>2 DEF IInv, Creators
  <2>4. \A d \in Callers : pc'[d] \in {"create", "record"} => status'[audit[d]] = status[audit[d]]
        BY <1>11, <2>1, <2>3 DEF Progress
  <2>5. UNCHANGED <<owner, madeFor, task, taskId, audit>> BY <1>11 DEF Progress
  <2> QED BY <2>2, <2>4, <2>5 DEF IInv, Creators
<1>12. ASSUME NEW c \in Callers, MarkError(c) PROVE Creators'
  <2>1. audit[c] \in Ids /\ pc[c] = "fail" /\ MayMarkError(c) BY <1>12, AuditOfCall DEF MarkError
  <2>2. \A d \in Callers : pc'[d] \in {"create", "record"} => d # c /\ pc'[d] = pc[d]
        BY <1>12 DEF MarkError
  <2>3. \A d \in Callers : pc'[d] \in {"create", "record"} => audit[d] # audit[c]
        BY <2>1, <2>2, MarkedRow
  <2>4. \A d \in Callers : pc'[d] \in {"create", "record"} =>
          /\ status'[audit[d]] = status[audit[d]] /\ audit'[d] = audit[d] /\ task'[d] = task[d]
          /\ d \in owner => d \in owner'
    <3> SUFFICES ASSUME NEW d \in Callers, pc'[d] \in {"create", "record"}
                 PROVE  /\ status'[audit[d]] = status[audit[d]] /\ audit'[d] = audit[d]
                        /\ task'[d] = task[d] /\ (d \in owner => d \in owner')
        OBVIOUS
    <3>1. d # c /\ audit[d] # audit[c] /\ audit[d] \in Ids BY <2>2, <2>3, AuditOfCall
    <3>2. status'[audit[d]] = status[audit[d]] BY <1>12, <2>1, <3>1 DEF IInv, MarkError
    <3> QED BY <1>12, <3>1, <3>2 DEF IInv, MarkError
  <2>5. UNCHANGED <<madeFor, taskId>> BY <1>12 DEF MarkError
  <2> QED BY <2>2, <2>4, <2>5 DEF IInv, Creators
<1>13. ASSUME NEW c \in Callers, NEW id \in Ids, Resume(c, id) PROVE Creators'
      BY <1>13 DEF IInv, Creators, Resume
<1>14. ASSUME NEW t \in Tasks, UpstreamEnds(t) PROVE Creators'
      BY <1>14 DEF IInv, Creators, UpstreamEnds
<1>15. CASE UNCHANGED vars BY <1>15 DEF IInv, Creators, vars
<1> QED BY <1>1, <1>2, <1>3, <1>4, <1>5, <1>6, <1>7, <1>8, <1>9, <1>10, <1>11, <1>12,
           <1>13, <1>14, <1>15
        DEF Next, Ensure, Export

\* What a call may rely on that works on a row it did not claim.
LEMMA SharersStep == ASSUME IInv, [Next]_vars PROVE Sharers'
<1>1. ASSUME NEW c \in Callers,
             Run(c) \/ InsertDuplicate(c) \/
             CreateFails(c) \/ PollAgain(c) \/ PollTimesOut(c) \/ StepFails(c)
      PROVE  Sharers'
      BY <1>1 DEF IInv, Sharers, Run, InsertDuplicate, CreateFails, PollAgain,
             PollTimesOut, StepFails
<1>2. ASSUME NEW c \in Callers,
             EnsureFails(c) \/ WaitFails(c) \/
             FailQuietly(c) \/ Die(c)
      PROVE  Sharers'
      BY <1>2 DEF IInv, Sharers, EnsureFails, WaitFails, FailQuietly, Die
<1>3. ASSUME NEW c \in Callers, Claim(c) PROVE Sharers'
      BY <1>3 DEF IInv, Sharers, Claim
<1>4. ASSUME NEW c \in Callers, ClaimLost(c) PROVE Sharers'
      BY <1>4 DEF IInv, Sharers, ClaimLost
<1>5. ASSUME NEW c \in Callers, WaitForTask(c) PROVE Sharers'
      BY <1>5 DEF IInv, Sharers, WaitForTask
<1>6. ASSUME NEW c \in Callers, Create(c) PROVE Sharers'
      BY <1>6 DEF IInv, Sharers, Create
<1>7. ASSUME NEW c \in Callers, Query(c) PROVE Sharers'
      BY <1>7 DEF IInv, Sharers, Query
<1>8. ASSUME NEW c \in Callers, Progress(c) PROVE Sharers'
      BY <1>8 DEF IInv, Sharers, Progress
<1>9. ASSUME NEW c \in Callers,
             Save(c) \/ MarkError(c)
      PROVE  Sharers'
      BY <1>9 DEF IInv, Sharers, Save, MarkError, MayMarkError
<1>10. ASSUME NEW c \in Callers, FindActive(c) PROVE Sharers'
  <2>1. PICK id \in Ids :
          /\ status[id] \in Active /\ id <= issued
          /\ audit' = [audit EXCEPT ![c] = id]
          /\ read' = [read EXCEPT ![c] = status[id]]
          /\ task' = [task EXCEPT ![c] = taskId[id]]
        BY <1>10, ActiveRow
  <2>2. c \notin resuming BY <1>10 DEF IInv, CallLocals, FindActive
  <2>3. read'[c] = "DONE" => taskId[audit'[c]] # None BY <2>1 DEF IInv, TaskedRows
  <2>4. task'[c] = taskId[audit'[c]] BY <2>1 DEF IInv
  <2>5. \A d \in Callers : d # c =>
          pc'[d] = pc[d] /\ audit'[d] = audit[d] /\ read'[d] = read[d] /\ task'[d] = task[d]
        BY <1>10, <2>1 DEF FindActive
  <2>6. UNCHANGED <<resuming, taskId>> BY <1>10 DEF FindActive
  <2> QED BY <2>2, <2>3, <2>4, <2>5, <2>6 DEF IInv, Sharers
<1>11. ASSUME NEW c \in Callers, FindNothing(c) PROVE Sharers'
  <2>1. CASE pc[c] = "find" BY <1>11, <2>1 DEF IInv, Sharers, FindNothing
  <2>2. CASE pc[c] # "find" BY <1>11, <2>2 DEF IInv, Sharers, FindNothing
  <2> QED BY <2>1, <2>2
<1>12. ASSUME NEW c \in Callers, Insert(c) PROVE Sharers'
  <2>1. c \notin resuming /\ read[c] = "absent" /\ task[c] = None BY <1>12 DEF IInv, CallLocals, Insert
  <2>2. \A d \in Callers : d # c => pc'[d] = pc[d] /\ audit'[d] = audit[d] BY <1>12 DEF Insert
  <2>3. UNCHANGED <<resuming, taskId, read, task>> BY <1>12 DEF Insert
  <2> QED BY <2>1, <2>2, <2>3 DEF IInv, Sharers
<1>13. ASSUME NEW c \in Callers, Record(c) PROVE Sharers'
  <2>1. audit[c] \in Ids /\ task[c] \in Tasks /\ taskId[audit[c]] = None
        BY <1>13, AuditOfCall DEF IInv, Creators, Record
  <2>2. \A id \in Ids : taskId[id] # None => taskId'[id] = taskId[id] BY <1>13, <2>1 DEF Record
  <2>3. \A id \in Ids : taskId[id] # None => taskId'[id] # None BY <2>2
  <2>4. \A d \in Callers : pc'[d] \notin Blank => audit[d] \in Ids /\ pc[d] \notin Blank
        BY <1>13, AuditOfCall DEF Record
  <2>5. pc'[c] = "query" /\ \A d \in Callers : d # c => pc'[d] = pc[d] BY <1>13 DEF IInv, Record
  <2>6. UNCHANGED <<resuming, read, task, audit>> BY <1>13 DEF Record
  <2> QED BY <2>1, <2>2, <2>3, <2>4, <2>5, <2>6 DEF IInv, Sharers
<1>14. ASSUME NEW c \in Callers, NEW id \in Ids, Resume(c, id) PROVE Sharers'
      BY <1>14 DEF IInv, Sharers, Resume
<1>15. ASSUME NEW t \in Tasks, UpstreamEnds(t) PROVE Sharers'
      BY <1>15 DEF IInv, Sharers, UpstreamEnds
<1>16. CASE UNCHANGED vars BY <1>16 DEF IInv, Sharers, vars
<1> QED BY <1>1, <1>2, <1>3, <1>4, <1>5, <1>6, <1>7, <1>8, <1>9, <1>10, <1>11, <1>12,
           <1>13, <1>14, <1>15, <1>16
        DEF Next, Ensure, Export

\* An unfinished row without a task keeps new rows out.
LEMMA UntaskedStep == ASSUME IInv, [Next]_vars PROVE Untasked'
<1>1. ASSUME NEW c \in Callers,
             Run(c) \/ InsertDuplicate(c) \/
             CreateFails(c) \/ PollAgain(c) \/ PollTimesOut(c) \/ StepFails(c)
      PROVE  Untasked'
      BY <1>1 DEF IInv, Untasked, Run, InsertDuplicate, CreateFails, PollAgain,
             PollTimesOut, StepFails
<1>2. ASSUME NEW c \in Callers,
             EnsureFails(c) \/ WaitFails(c) \/
             FailQuietly(c) \/ Die(c)
      PROVE  Untasked'
      BY <1>2 DEF IInv, Untasked, EnsureFails, WaitFails, FailQuietly, Die
<1>3. ASSUME NEW c \in Callers, FindActive(c) PROVE Untasked'
      BY <1>3 DEF IInv, Untasked, FindActive, ActiveIds
<1>4. ASSUME NEW c \in Callers, FindNothing(c) PROVE Untasked'
      BY <1>4 DEF IInv, Untasked, FindNothing, ActiveIds
<1>5. ASSUME NEW c \in Callers, Insert(c) PROVE Untasked'
      BY <1>5 DEF IInv, Untasked, Insert
<1>6. ASSUME NEW c \in Callers,
             Claim(c) \/ ClaimLost(c) \/
             WaitForTask(c)
      PROVE  Untasked'
      BY <1>6 DEF IInv, Untasked, Claim, ClaimLost, WaitForTask
<1>7. ASSUME NEW c \in Callers,
             Create(c) \/ Query(c) \/ Save(c)
      PROVE  Untasked'
      BY <1>7 DEF IInv, Untasked, Create, Query, Save
<1>8. ASSUME NEW c \in Callers, MarkError(c) PROVE Untasked'
      BY <1>8 DEF IInv, Untasked, MarkError, MayMarkError
<1>9. ASSUME NEW c \in Callers, Record(c) PROVE Untasked'
  <2>1. audit[c] \in Ids /\ task[c] \in Tasks BY <1>9, AuditOfCall DEF IInv, Creators, Record
  <2>2. taskId'[audit[c]] # None BY <1>9, <2>1 DEF IInv, Record
  <2>3. \A id \in Ids : id # audit[c] => status'[id] = status[id] /\ taskId'[id] = taskId[id]
        BY <1>9, <2>1 DEF Record
  <2>4. keyed' = keyed /\ \A d \in Callers : pc'[d] = "insert" => pc[d] = "insert" BY <1>9 DEF Record
  <2> QED BY <2>2, <2>3, <2>4 DEF IInv, Untasked
<1>10. ASSUME NEW c \in Callers, Progress(c) PROVE Untasked'
  <2>1. audit[c] \in Ids /\ taskId[audit[c]] # None BY <1>10, PolledTask DEF Progress
  <2>2. \A id \in Ids : id # audit[c] => status'[id] = status[id] BY <1>10, <2>1 DEF Progress
  <2>3. taskId' = taskId /\ \A d \in Callers : pc'[d] = "insert" => pc[d] = "insert" BY <1>10 DEF Progress
  <2>4. \A id \in Ids : id # audit[c] => (id \in keyed' <=> id \in keyed) BY <1>10 DEF Progress
  <2> QED BY <2>1, <2>2, <2>3, <2>4 DEF IInv, Untasked
<1>11. ASSUME NEW c \in Callers, NEW id \in Ids, Resume(c, id) PROVE Untasked'
      BY <1>11 DEF IInv, Untasked, Resume
<1>12. ASSUME NEW t \in Tasks, UpstreamEnds(t) PROVE Untasked'
      BY <1>12 DEF IInv, Untasked, UpstreamEnds
<1>13. CASE UNCHANGED vars BY <1>13 DEF IInv, Untasked, vars
<1> QED BY <1>1, <1>2, <1>3, <1>4, <1>5, <1>6, <1>7, <1>8, <1>9, <1>10, <1>11, <1>12,
           <1>13
        DEF Next, Ensure, Export

\* At most one unfinished row of the scope has no task.
LEMMA OneUntaskedStep == ASSUME IInv, [Next]_vars PROVE OneUntasked'
<1>1. ASSUME NEW c \in Callers,
             Run(c) \/ InsertDuplicate(c) \/
             CreateFails(c) \/ PollAgain(c) \/ PollTimesOut(c) \/ StepFails(c)
      PROVE  OneUntasked'
      BY <1>1 DEF IInv, OneUntasked, Run, InsertDuplicate, CreateFails, PollAgain,
             PollTimesOut, StepFails
<1>2. ASSUME NEW c \in Callers,
             EnsureFails(c) \/ WaitFails(c) \/
             FailQuietly(c) \/ Die(c)
      PROVE  OneUntasked'
      BY <1>2 DEF IInv, OneUntasked, EnsureFails, WaitFails, FailQuietly, Die
<1>3. ASSUME NEW c \in Callers,
             FindActive(c) \/ FindNothing(c) \/
             Claim(c)
      PROVE  OneUntasked'
      BY <1>3 DEF IInv, OneUntasked, FindActive, FindNothing, Claim, ActiveIds
<1>4. ASSUME NEW c \in Callers,
             ClaimLost(c) \/ WaitForTask(c) \/
             Create(c)
      PROVE  OneUntasked'
      BY <1>4 DEF IInv, OneUntasked, ClaimLost, WaitForTask, Create
<1>5. ASSUME NEW c \in Callers,
             Query(c) \/ Save(c) \/ MarkError(c)
      PROVE  OneUntasked'
      BY <1>5 DEF IInv, OneUntasked, Query, Save, MarkError, MayMarkError
<1>6. ASSUME NEW c \in Callers, Insert(c) PROVE OneUntasked'
  <2>1. \A id \in Ids : ~(status[id] \in Active /\ taskId[id] = None)
        BY <1>6 DEF IInv, Untasked, Insert
  <2>2. \A id \in Ids : id # issued + 1 => status'[id] = status[id] BY <1>6 DEF Insert
  <2>3. taskId' = taskId BY <1>6 DEF Insert
  <2> QED BY <2>1, <2>2, <2>3 DEF OneUntasked
<1>7. ASSUME NEW c \in Callers, Record(c) PROVE OneUntasked'
  <2>1. audit[c] \in Ids /\ task[c] \in Tasks BY <1>7, AuditOfCall DEF IInv, Creators, Record
  <2>2. taskId'[audit[c]] # None BY <1>7, <2>1 DEF IInv, Record
  <2>3. \A id \in Ids : id # audit[c] => status'[id] = status[id] /\ taskId'[id] = taskId[id]
        BY <1>7, <2>1 DEF Record
  <2> QED BY <2>2, <2>3 DEF IInv, OneUntasked
<1>8. ASSUME NEW c \in Callers, Progress(c) PROVE OneUntasked'
  <2>1. audit[c] \in Ids /\ taskId[audit[c]] # None BY <1>8, PolledTask DEF Progress
  <2>2. \A id \in Ids : id # audit[c] => status'[id] = status[id] BY <1>8, <2>1 DEF Progress
  <2>3. taskId' = taskId BY <1>8 DEF Progress
  <2> QED BY <2>1, <2>2, <2>3 DEF IInv, OneUntasked
<1>9. ASSUME NEW c \in Callers, NEW id \in Ids, Resume(c, id) PROVE OneUntasked'
      BY <1>9 DEF IInv, OneUntasked, Resume
<1>10. ASSUME NEW t \in Tasks, UpstreamEnds(t) PROVE OneUntasked'
      BY <1>10 DEF IInv, OneUntasked, UpstreamEnds
<1>11. CASE UNCHANGED vars BY <1>11 DEF IInv, OneUntasked, vars
<1> QED BY <1>1, <1>2, <1>3, <1>4, <1>5, <1>6, <1>7, <1>8, <1>9, <1>10, <1>11
        DEF Next, Ensure, Export

\* A call that polls or saves does so with the task of its row.
LEMMA PollsItsOwnTaskStep == ASSUME IInv, [Next]_vars PROVE PollsItsOwnTask'
<1>1. ASSUME NEW c \in Callers,
             Run(c) \/ InsertDuplicate(c) \/
             CreateFails(c) \/ PollAgain(c) \/ PollTimesOut(c) \/ StepFails(c)
      PROVE  PollsItsOwnTask'
      BY <1>1 DEF IInv, PollsItsOwnTask, Run, InsertDuplicate, CreateFails,
             PollAgain, PollTimesOut, StepFails
<1>2. ASSUME NEW c \in Callers,
             EnsureFails(c) \/ WaitFails(c) \/
             FailQuietly(c) \/ Die(c)
      PROVE  PollsItsOwnTask'
      BY <1>2 DEF IInv, PollsItsOwnTask, EnsureFails, WaitFails, FailQuietly, Die
<1>3. ASSUME NEW c \in Callers,
             FindActive(c) \/ FindNothing(c) \/
             Insert(c)
      PROVE  PollsItsOwnTask'
      BY <1>3 DEF IInv, PollsItsOwnTask, FindActive, FindNothing, Insert, ActiveIds
<1>4. ASSUME NEW c \in Callers,
             Claim(c) \/ Query(c) \/ Progress(c)
      PROVE  PollsItsOwnTask'
      BY <1>4 DEF IInv, PollsItsOwnTask, Claim, Query, Progress
<1>5. ASSUME NEW c \in Callers,
             Save(c) \/ MarkError(c)
      PROVE  PollsItsOwnTask'
      BY <1>5 DEF IInv, PollsItsOwnTask, Save, MarkError, MayMarkError
<1>6. ASSUME NEW c \in Callers, ClaimLost(c) PROVE PollsItsOwnTask'
  <2>1. CASE c \in fresh BY <1>6, <2>1 DEF IInv, PollsItsOwnTask, ClaimLost
  <2>2. CASE c \notin fresh /\ task[c] = None BY <1>6, <2>2 DEF IInv, PollsItsOwnTask, ClaimLost
  <2>3. CASE c \notin fresh /\ task[c] # None
    <3>1. taskId[audit[c]] = task[c] /\ audit[c] \in Ids
          BY <1>6, <2>3, AuditOfCall DEF IInv, Sharers, ClaimLost
    <3>2. madeFor[task[c]] = audit[c] BY <2>3, <3>1 DEF IInv, TaskNames
    <3> QED BY <1>6, <2>3, <3>1, <3>2 DEF IInv, PollsItsOwnTask, ClaimLost
  <2> QED BY <2>1, <2>2, <2>3
<1>7. ASSUME NEW c \in Callers, WaitForTask(c) PROVE PollsItsOwnTask'
  <2>1. audit[c] \in Ids /\ taskId[audit[c]] # None BY <1>7, AuditOfCall DEF WaitForTask
  <2>2. madeFor[taskId[audit[c]]] = audit[c] BY <2>1 DEF IInv, TaskNames
  <2>3. CASE status[audit[c]] = "SUCCESS" BY <1>7, <2>3 DEF IInv, PollsItsOwnTask, WaitForTask
  <2>4. CASE status[audit[c]] # "SUCCESS"
    <3>1. task'[c] = taskId[audit[c]] /\ audit'[c] = audit[c] BY <1>7, <2>4 DEF IInv, WaitForTask
    <3>2. \A d \in Callers : d # c => pc'[d] = pc[d] /\ audit'[d] = audit[d] /\ task'[d] = task[d]
          BY <1>7, <2>4 DEF IInv, WaitForTask
    <3>3. UNCHANGED <<taskId, madeFor>> BY <1>7, <2>4 DEF WaitForTask
    <3> QED BY <2>1, <2>2, <3>1, <3>2, <3>3 DEF IInv, PollsItsOwnTask
  <2> QED BY <2>3, <2>4
<1>8. ASSUME NEW c \in Callers, Create(c) PROVE PollsItsOwnTask'
  <2>1. PICK t \in Tasks :
          /\ madeFor[t] = None /\ madeFor' = [madeFor EXCEPT ![t] = audit[c]]
          /\ task' = [task EXCEPT ![c] = t] \/ task' = task
        BY <1>8 DEF Create
  <2>2. \A d \in Callers : pc'[d] \in {"query", "progress", "pause", "save"} => d # c /\ pc'[d] = pc[d]
        BY <1>8 DEF IInv, Create
  <2>3. \A d \in Callers : pc'[d] \in {"query", "progress", "pause", "save"} =>
          task'[d] = task[d] /\ task[d] \in Tasks /\ task[d] # t
        BY <2>1, <2>2, PolledTask DEF IInv
  <2>4. UNCHANGED <<taskId, audit>> BY <1>8 DEF Create
  <2> QED BY <2>1, <2>2, <2>3, <2>4 DEF IInv, PollsItsOwnTask
<1>9. ASSUME NEW c \in Callers, Record(c) PROVE PollsItsOwnTask'
  <2>1. /\ audit[c] \in Ids /\ task[c] \in Tasks
        /\ taskId[audit[c]] = None /\ madeFor[task[c]] = audit[c]
        BY <1>9, AuditOfCall DEF IInv, Creators, Record
  <2>2. \A d \in Callers : (d # c /\ pc'[d] \in {"query", "progress", "pause", "save"}) =>
          pc'[d] = pc[d] /\ audit[d] # audit[c] /\ audit[d] \in Ids
        BY <1>9, <2>1, PolledTask DEF Record
  <2>3. taskId'[audit[c]] = task[c] BY <1>9, <2>1 DEF IInv, Record
  <2>4. \A d \in Callers : (d # c /\ pc'[d] \in {"query", "progress", "pause", "save"}) =>
          taskId'[audit[d]] = taskId[audit[d]]
        BY <1>9, <2>1, <2>2 DEF Record
  <2>5. UNCHANGED <<task, madeFor, audit>> BY <1>9 DEF Record
  <2> QED BY <2>1, <2>2, <2>3, <2>4, <2>5 DEF IInv, PollsItsOwnTask
<1>10. ASSUME NEW c \in Callers, NEW id \in Ids, Resume(c, id) PROVE PollsItsOwnTask'
  <2>1. taskId[id] # None /\ madeFor[taskId[id]] = id BY <1>10 DEF IInv, TaskNames, Resume
  <2>2. task'[c] = taskId[id] /\ audit'[c] = id BY <1>10 DEF IInv, Resume
  <2>3. \A d \in Callers : d # c => pc'[d] = pc[d] /\ audit'[d] = audit[d] /\ task'[d] = task[d]
        BY <1>10 DEF Resume
  <2>4. UNCHANGED <<taskId, madeFor>> BY <1>10 DEF Resume
  <2> QED BY <2>1, <2>2, <2>3, <2>4 DEF IInv, PollsItsOwnTask
<1>11. ASSUME NEW t \in Tasks, UpstreamEnds(t) PROVE PollsItsOwnTask'
      BY <1>11 DEF IInv, PollsItsOwnTask, UpstreamEnds
<1>12. CASE UNCHANGED vars BY <1>12 DEF IInv, PollsItsOwnTask, vars
<1> QED BY <1>1, <1>2, <1>3, <1>4, <1>5, <1>6, <1>7, <1>8, <1>9, <1>10, <1>11, <1>12
        DEF Next, Ensure, Export

\* Only an unfinished row holds the key of the scope, and only one does.
LEMMA KeyHolderIsActiveStep == ASSUME IInv, [Next]_vars PROVE KeyHolderIsActive'
<1>1. ASSUME NEW c \in Callers,
             Run(c) \/ InsertDuplicate(c) \/
             CreateFails(c) \/ PollAgain(c) \/ PollTimesOut(c) \/ StepFails(c)
      PROVE  KeyHolderIsActive'
      BY <1>1 DEF IInv, KeyHolderIsActive, Run, InsertDuplicate, CreateFails,
             PollAgain, PollTimesOut, StepFails
<1>2. ASSUME NEW c \in Callers,
             EnsureFails(c) \/ WaitFails(c) \/
             FailQuietly(c) \/ Die(c)
      PROVE  KeyHolderIsActive'
      BY <1>2 DEF IInv, KeyHolderIsActive, EnsureFails, WaitFails, FailQuietly, Die
<1>3. ASSUME NEW c \in Callers, FindActive(c) PROVE KeyHolderIsActive'
      BY <1>3 DEF IInv, KeyHolderIsActive, FindActive, ActiveIds
<1>4. ASSUME NEW c \in Callers, FindNothing(c) PROVE KeyHolderIsActive'
      BY <1>4 DEF IInv, KeyHolderIsActive, FindNothing, ActiveIds
<1>5. ASSUME NEW c \in Callers, Insert(c) PROVE KeyHolderIsActive'
      BY <1>5 DEF IInv, KeyHolderIsActive, Insert
<1>6. ASSUME NEW c \in Callers,
             Claim(c) \/ ClaimLost(c) \/
             WaitForTask(c)
      PROVE  KeyHolderIsActive'
      BY <1>6 DEF IInv, KeyHolderIsActive, Claim, ClaimLost, WaitForTask
<1>7. ASSUME NEW c \in Callers,
             Create(c) \/ Record(c) \/ Query(c)
      PROVE  KeyHolderIsActive'
      BY <1>7 DEF IInv, KeyHolderIsActive, Create, Record, Query
<1>8. ASSUME NEW c \in Callers, Save(c) PROVE KeyHolderIsActive'
      BY <1>8 DEF IInv, KeyHolderIsActive, Save
<1>9. ASSUME NEW c \in Callers, MarkError(c) PROVE KeyHolderIsActive'
      BY <1>9 DEF IInv, KeyHolderIsActive, MarkError, MayMarkError
<1>10. ASSUME NEW c \in Callers, Progress(c) PROVE KeyHolderIsActive'
  <2>1. audit[c] \in Ids /\ reply[c] \in Replies BY <1>10, AuditOfCall DEF IInv, CallLocals, Progress
  <2>2. keyed' \subseteq keyed BY <1>10 DEF Progress
  <2>3. status'[audit[c]] = reply[c] BY <1>10, <2>1 DEF IInv, Progress
  <2>4. audit[c] \in keyed' => reply[c] # "CANCELLED" BY <1>10 DEF Progress
  <2>5. \A id \in Ids : id # audit[c] => status'[id] = status[id] BY <1>10, <2>1 DEF Progress
  <2> QED BY <2>1, <2>2, <2>3, <2>4, <2>5 DEF IInv, KeyHolderIsActive
<1>11. ASSUME NEW c \in Callers, NEW id \in Ids, Resume(c, id) PROVE KeyHolderIsActive'
      BY <1>11 DEF IInv, KeyHolderIsActive, Resume
<1>12. ASSUME NEW t \in Tasks, UpstreamEnds(t) PROVE KeyHolderIsActive'
      BY <1>12 DEF IInv, KeyHolderIsActive, UpstreamEnds
<1>13. CASE UNCHANGED vars BY <1>13 DEF IInv, KeyHolderIsActive, vars
<1> QED BY <1>1, <1>2, <1>3, <1>4, <1>5, <1>6, <1>7, <1>8, <1>9, <1>10, <1>11, <1>12,
           <1>13
        DEF Next, Ensure, Export

\* SUCCESS means imported.
LEMMA SuccessIsSavedStep == ASSUME IInv, [Next]_vars PROVE SuccessIsSaved'
<1>1. ASSUME NEW c \in Callers,
             Run(c) \/ InsertDuplicate(c) \/
             CreateFails(c) \/ PollAgain(c) \/ PollTimesOut(c) \/ StepFails(c)
      PROVE  SuccessIsSaved'
      BY <1>1 DEF IInv, SuccessIsSaved, Run, InsertDuplicate, CreateFails, PollAgain,
             PollTimesOut, StepFails
<1>2. ASSUME NEW c \in Callers,
             EnsureFails(c) \/ WaitFails(c) \/
             FailQuietly(c) \/ Die(c)
      PROVE  SuccessIsSaved'
      BY <1>2 DEF IInv, SuccessIsSaved, EnsureFails, WaitFails, FailQuietly, Die
<1>3. ASSUME NEW c \in Callers,
             FindActive(c) \/ FindNothing(c) \/
             Insert(c)
      PROVE  SuccessIsSaved'
      BY <1>3 DEF IInv, SuccessIsSaved, FindActive, FindNothing, Insert, ActiveIds
<1>4. ASSUME NEW c \in Callers,
             Claim(c) \/ ClaimLost(c) \/ Create(c)
      PROVE  SuccessIsSaved'
      BY <1>4 DEF IInv, SuccessIsSaved, Claim, ClaimLost, Create
<1>5. ASSUME NEW c \in Callers,
             Record(c) \/ Query(c) \/ Progress(c)
      PROVE  SuccessIsSaved'
      BY <1>5 DEF IInv, SuccessIsSaved, Record, Query, Progress
<1>6. ASSUME NEW c \in Callers, Save(c) PROVE SuccessIsSaved'
      BY <1>6 DEF IInv, SuccessIsSaved, Save
<1>7. ASSUME NEW c \in Callers, MarkError(c) PROVE SuccessIsSaved'
      BY <1>7 DEF IInv, SuccessIsSaved, MarkError, MayMarkError
<1>8. ASSUME NEW c \in Callers, WaitForTask(c) PROVE SuccessIsSaved'
  <2>1. audit[c] \in Ids BY <1>8, AuditOfCall DEF WaitForTask
  <2>2. CASE status[audit[c]] = "SUCCESS"
    <3>1. audit[c] \in saved BY <2>1, <2>2 DEF IInv, SuccessIsSaved
    <3>2. promised' = promised \cup {audit[c]} /\ UNCHANGED <<status, saved>>
          BY <1>8, <2>2 DEF WaitForTask
    <3> QED BY <3>1, <3>2 DEF IInv, SuccessIsSaved
  <2>3. CASE status[audit[c]] # "SUCCESS" BY <1>8, <2>3 DEF IInv, SuccessIsSaved, WaitForTask
  <2> QED BY <2>2, <2>3
<1>9. ASSUME NEW c \in Callers, NEW id \in Ids, Resume(c, id) PROVE SuccessIsSaved'
      BY <1>9 DEF IInv, SuccessIsSaved, Resume
<1>10. ASSUME NEW t \in Tasks, UpstreamEnds(t) PROVE SuccessIsSaved'
      BY <1>10 DEF IInv, SuccessIsSaved, UpstreamEnds
<1>11. CASE UNCHANGED vars BY <1>11 DEF IInv, SuccessIsSaved, vars
<1> QED BY <1>1, <1>2, <1>3, <1>4, <1>5, <1>6, <1>7, <1>8, <1>9, <1>10, <1>11
        DEF Next, Ensure, Export

\* A row gets one upstream task.
LEMMA CreateOnceStep == ASSUME IInv, [Next]_vars PROVE CreateOnce'
<1>1. ASSUME NEW c \in Callers,
             Run(c) \/ InsertDuplicate(c) \/
             CreateFails(c) \/ PollAgain(c) \/ PollTimesOut(c) \/ StepFails(c)
      PROVE  CreateOnce'
      BY <1>1 DEF IInv, CreateOnce, Run, InsertDuplicate, CreateFails, PollAgain,
             PollTimesOut, StepFails
<1>2. ASSUME NEW c \in Callers,
             EnsureFails(c) \/ WaitFails(c) \/
             FailQuietly(c) \/ Die(c)
      PROVE  CreateOnce'
      BY <1>2 DEF IInv, CreateOnce, EnsureFails, WaitFails, FailQuietly, Die
<1>3. ASSUME NEW c \in Callers,
             FindActive(c) \/ FindNothing(c) \/
             Insert(c)
      PROVE  CreateOnce'
      BY <1>3 DEF IInv, CreateOnce, FindActive, FindNothing, Insert, ActiveIds
<1>4. ASSUME NEW c \in Callers,
             Claim(c) \/ ClaimLost(c) \/
             WaitForTask(c)
      PROVE  CreateOnce'
      BY <1>4 DEF IInv, CreateOnce, Claim, ClaimLost, WaitForTask
<1>5. ASSUME NEW c \in Callers,
             Record(c) \/ Query(c) \/ Progress(c)
      PROVE  CreateOnce'
      BY <1>5 DEF IInv, CreateOnce, Record, Query, Progress
<1>6. ASSUME NEW c \in Callers,
             Save(c) \/ MarkError(c)
      PROVE  CreateOnce'
      BY <1>6 DEF IInv, CreateOnce, Save, MarkError, MayMarkError
<1>7. ASSUME NEW c \in Callers, Create(c) PROVE CreateOnce'
  <2>1. \A t \in Tasks : madeFor[t] # audit[c] BY <1>7 DEF IInv, Creators, Create
  <2>2. PICK t \in Tasks : madeFor' = [madeFor EXCEPT ![t] = audit[c]] BY <1>7 DEF Create
  <2> QED BY <2>1, <2>2 DEF IInv, CreateOnce
<1>8. ASSUME NEW c \in Callers, NEW id \in Ids, Resume(c, id) PROVE CreateOnce'
      BY <1>8 DEF IInv, CreateOnce, Resume
<1>9. ASSUME NEW t \in Tasks, UpstreamEnds(t) PROVE CreateOnce'
      BY <1>9 DEF IInv, CreateOnce, UpstreamEnds
<1>10. CASE UNCHANGED vars BY <1>10 DEF IInv, CreateOnce, vars
<1> QED BY <1>1, <1>2, <1>3, <1>4, <1>5, <1>6, <1>7, <1>8, <1>9, <1>10
        DEF Next, Ensure, Export

-----------------------------------------------------------------------------
\* The invariant holds at the start, with or without a legacy row.
LEMMA InitIInv == Init => IInv
<1> SUFFICES ASSUME Init PROVE IInv
    OBVIOUS
<1> USE DEF Init
<1>1. TypeOK OBVIOUS
<1>2. CallLocals /\ RowsIssued /\ TaskNames BY DEF CallLocals, RowsIssued, TaskNames
<1>3. TaskedRows /\ Claims /\ PendingIsBlank BY DEF TaskedRows, Claims, PendingIsBlank
<1>4. Creators /\ Sharers /\ Untasked BY DEF Creators, Sharers, Untasked
<1>5. OneUntasked BY DEF OneUntasked
<1>6. PollsItsOwnTask /\ KeyHolderIsActive BY DEF PollsItsOwnTask, KeyHolderIsActive
<1>7. SuccessIsSaved /\ CreateOnce BY DEF SuccessIsSaved, CreateOnce
<1> QED BY <1>1, <1>2, <1>3, <1>4, <1>5, <1>6, <1>7 DEF IInv

\* Every step stays inside it.
LEMMA StepIInv == IInv /\ [Next]_vars => IInv'
<1> SUFFICES ASSUME IInv, [Next]_vars PROVE IInv'
    OBVIOUS
<1>1. TypeOK' /\ CallLocals' /\ RowsIssued' BY TypeOKStep, CallLocalsStep, RowsIssuedStep
<1>2. TaskNames' /\ TaskedRows' BY TaskNamesStep, TaskedRowsStep
<1>3. Claims' /\ PendingIsBlank' BY ClaimsStep, PendingIsBlankStep
<1>4. Creators' /\ Sharers' BY CreatorsStep, SharersStep
<1>5. Untasked' /\ OneUntasked' BY UntaskedStep, OneUntaskedStep
<1>6. PollsItsOwnTask' /\ KeyHolderIsActive' BY PollsItsOwnTaskStep, KeyHolderIsActiveStep
<1>7. SuccessIsSaved' /\ CreateOnce' BY SuccessIsSavedStep, CreateOnceStep
<1> QED BY ONLY <1>1, <1>2, <1>3, <1>4, <1>5, <1>6, <1>7 DEF IInv

\* The invariant holds in every reachable state.
THEOREM Invariance == Spec => []IInv
BY InitIInv, StepIInv, PTL DEF Spec

\* Every variable keeps its type.
THEOREM TypeCorrect == Spec => []TypeOK
<1>1. IInv => TypeOK BY DEF IInv
<1> QED BY <1>1, Invariance, PTL

\* Calls of one scope never create two upstream reports side by side.
THEOREM CreatorIsAlone == Spec => []OneCreator
<1>1. IInv => OneCreator
  <2> SUFFICES ASSUME IInv, NEW c \in Callers, NEW d \in Callers,
                      pc[c] \in {"create", "record"}, pc[d] \in {"create", "record"}
               PROVE  c = d
      BY DEF OneCreator
  <2>1. /\ c \in owner /\ status[audit[c]] = "CREATING" /\ taskId[audit[c]] = None
        /\ d \in owner /\ status[audit[d]] = "CREATING" /\ taskId[audit[d]] = None
        BY DEF IInv, Creators
  <2>2. audit[c] \in Ids /\ audit[d] \in Ids BY AuditOfCall
  <2>3. audit[c] = audit[d] BY <2>1, <2>2 DEF IInv, OneUntasked
  <2> QED BY <2>1, <2>3 DEF IInv, Claims
<1> QED BY <1>1, Invariance, PTL

\* A row never gets two upstream tasks, even if an answer is lost.
THEOREM CreatedOnce == Spec => []CreateOnce
<1>1. IInv => CreateOnce BY DEF IInv
<1> QED BY <1>1, Invariance, PTL

\* A finished row never keeps the key of its scope.
THEOREM KeyIsFreed == Spec => []KeyHolderIsActive
<1>1. IInv => KeyHolderIsActive BY DEF IInv
<1> QED BY <1>1, Invariance, PTL

\* No call polls or imports the report of another row.
THEOREM TasksAreOwn == Spec => []PollsItsOwnTask
<1>1. IInv => PollsItsOwnTask BY DEF IInv
<1> QED BY <1>1, Invariance, PTL

\* Whoever is told SUCCESS finds the rows of the report in the raw tables.
THEOREM SuccessIsTrue == Spec => []SuccessIsSaved
<1>1. IInv => SuccessIsSaved BY DEF IInv
<1> QED BY <1>1, Invariance, PTL

-----------------------------------------------------------------------------
(* The ledger *)

\* Only the row whose status is written can join or leave the finished ones.
LEMMA EndedAfter ==
  ASSUME IInv, NEW id \in Ids, NEW s \in RowStatus, status' = [status EXCEPT ![id] = s]
  PROVE  /\ s \in {"SUCCESS", "ERROR", "CANCELLED"} => Ended' = Ended \cup {id}
         /\ s \notin {"SUCCESS", "ERROR", "CANCELLED"} => Ended' = Ended \ {id}
BY DEF Ended, IInv

\* Every step of the runners is a step of the ledger or leaves it alone.
LEMMA LedgerStep == ASSUME IInv, [Next]_vars PROVE [Ledger!Next]_(Ledger!ledger)
<1> USE DEF Ledger!Next, Ledger!ledger
<1>a. ASSUME UNCHANGED <<status, keyed, issued, saved, madeFor>>
      PROVE  [Ledger!Next]_(Ledger!ledger)
      BY <1>a DEF Ended
<1>b. ASSUME NEW id \in Ids, id \in 1..issued, NEW s \in {"SUCCESS", "ERROR", "CANCELLED"},
             status' = [status EXCEPT ![id] = s], keyed' = keyed \ {id},
             \/ saved' = saved
             \/ saved' = saved \cup {id} /\ \E t \in Tasks : madeFor[t] = id,
             UNCHANGED <<issued, madeFor>>
      PROVE  [Ledger!Next]_(Ledger!ledger)
  <2>1. Ended' = Ended \cup {id} BY <1>b, EndedAfter
  <2>2. Ledger!Finish(id) BY <1>b, <2>1 DEF Ledger!Finish
  <2> QED BY <2>2
<1>c. ASSUME NEW id \in Ids, NEW s \in Active, status' = [status EXCEPT ![id] = s],
             UNCHANGED <<keyed, issued, saved, madeFor>>
      PROVE  [Ledger!Next]_(Ledger!ledger)
  <2>1. Ended' = Ended \ {id} BY <1>c, EndedAfter
  <2> QED BY <1>c, <2>1 DEF Ledger!Revive
<1>d. ASSUME NEW c \in Callers, pc[c] \notin Blank
      PROVE  audit[c] \in Ids /\ audit[c] \in 1..issued
      BY <1>d, AuditOfCall DEF IInv
<1>1. ASSUME NEW c \in Callers,
             \/ Run(c) \/ InsertDuplicate(c) \/ CreateFails(c) \/ PollAgain(c)
             \/ PollTimesOut(c) \/ StepFails(c) \/ EnsureFails(c) \/ WaitFails(c)
             \/ FailQuietly(c) \/ Die(c) \/ FindActive(c) \/ FindNothing(c)
             \/ ClaimLost(c) \/ WaitForTask(c) \/ Query(c)
             \/ \E id \in Ids : Resume(c, id)
      PROVE  [Ledger!Next]_(Ledger!ledger)
  <2>1. UNCHANGED <<status, keyed, issued, saved, madeFor>>
        BY <1>1 DEF Run, InsertDuplicate, CreateFails, PollAgain, PollTimesOut, StepFails,
           EnsureFails, WaitFails, FailQuietly, Die, FindActive, FindNothing, ClaimLost,
           WaitForTask, Query, Resume
  <2> QED BY <1>a, <2>1
<1>2. ASSUME NEW c \in Callers, Insert(c) PROVE [Ledger!Next]_(Ledger!ledger)
  <2>0. issued < MaxAudit /\ issued \in 0..MaxAudit BY <1>2 DEF Insert, IInv
  <2>a. issued + 1 \in Ids BY <2>0
  <2> PICK id \in Ids : id = issued + 1 BY <2>a
  <2>1. /\ keyed = {} /\ issued' = id /\ keyed' = keyed \cup {id}
        /\ status' = [status EXCEPT ![id] = "PENDING"] /\ UNCHANGED <<saved, madeFor>>
        BY <1>2 DEF Insert
  <2>2. id \notin 1..issued /\ 1..id = 1..issued \cup {id} BY <2>0
  <2>3. id \notin Ended BY <2>0 DEF IInv, RowsIssued, Ended
  <2>4. Ended' = Ended \ {id}
    <3>1. status' = [status EXCEPT ![id] = "PENDING"] BY <2>1
    <3>2. "PENDING" \in RowStatus /\ "PENDING" \notin {"SUCCESS", "ERROR", "CANCELLED"}
          OBVIOUS
    <3> QED BY <3>1, <3>2, EndedAfter
  <2>5. Ended' = Ended BY <2>3, <2>4
  <2>6. Ledger!Open(id) BY <2>1, <2>2, <2>5 DEF Ledger!Open
  <2> QED BY <2>2, <2>6
<1>3. ASSUME NEW c \in Callers, Claim(c) PROVE [Ledger!Next]_(Ledger!ledger)
  <2>1. audit[c] \in Ids BY <1>3, <1>d DEF Claim
  <2>2. status' = [status EXCEPT ![audit[c]] = "CREATING"]
        /\ UNCHANGED <<keyed, issued, saved, madeFor>>
        BY <1>3 DEF Claim
  <2> QED BY <1>c, <2>1, <2>2
<1>4. ASSUME NEW c \in Callers, Create(c) PROVE [Ledger!Next]_(Ledger!ledger)
  <2>1. audit[c] \in Ids /\ audit[c] \in 1..issued BY <1>4, <1>d DEF Create
  <2>2. \A t \in Tasks : madeFor[t] # audit[c] BY <1>4 DEF IInv, Creators, Create
  <2>3. PICK t \in Tasks : madeFor[t] = None /\ madeFor' = [madeFor EXCEPT ![t] = audit[c]]
        BY <1>4 DEF Create
  <2>4. UNCHANGED <<status, keyed, issued, saved>> BY <1>4 DEF Create
  <2>5. Ledger!Order(audit[c], t) BY <2>1, <2>2, <2>3, <2>4 DEF Ledger!Order, Ended
  <2> QED BY <2>1, <2>5
<1>5. ASSUME NEW c \in Callers, Record(c) PROVE [Ledger!Next]_(Ledger!ledger)
  <2>1. audit[c] \in Ids BY <1>5, <1>d DEF Record
  <2>2. status' = [status EXCEPT ![audit[c]] = "CREATING"]
        /\ UNCHANGED <<keyed, issued, saved, madeFor>>
        BY <1>5 DEF Record
  <2> QED BY <1>c, <2>1, <2>2
<1>6. ASSUME NEW c \in Callers, Progress(c) PROVE [Ledger!Next]_(Ledger!ledger)
  <2>1. audit[c] \in Ids /\ audit[c] \in 1..issued /\ reply[c] \in Replies
        BY <1>6, <1>d DEF Progress, IInv, CallLocals
  <2>2. /\ status' = [status EXCEPT ![audit[c]] = reply[c]]
        /\ keyed' = IF reply[c] = "CANCELLED" THEN keyed \ {audit[c]} ELSE keyed
        /\ UNCHANGED <<issued, saved, madeFor>>
        BY <1>6 DEF Progress
  <2>3. CASE reply[c] = "CANCELLED"
    <3>1. status' = [status EXCEPT ![audit[c]] = "CANCELLED"] /\ keyed' = keyed \ {audit[c]}
          BY <2>2, <2>3
    <3>2. "CANCELLED" \in {"SUCCESS", "ERROR", "CANCELLED"} /\ saved' = saved BY <2>2
    <3> QED BY <1>b, <2>1, <2>2, <3>1, <3>2
  <2>4. CASE reply[c] # "CANCELLED" BY <1>c, <2>1, <2>2, <2>4
  <2> QED BY <2>3, <2>4
<1>7. ASSUME NEW c \in Callers, Save(c) PROVE [Ledger!Next]_(Ledger!ledger)
  <2>1. audit[c] \in Ids /\ audit[c] \in 1..issued BY <1>7, <1>d DEF Save
  <2>2. task[c] \in Tasks /\ madeFor[task[c]] = audit[c] BY <1>7, PolledTask DEF Save
  <2>3. /\ status' = [status EXCEPT ![audit[c]] = "SUCCESS"] /\ keyed' = keyed \ {audit[c]}
        /\ saved' = saved \cup {audit[c]} /\ UNCHANGED <<issued, madeFor>>
        BY <1>7 DEF Save
  <2> QED BY <1>b, <2>1, <2>2, <2>3
<1>8. ASSUME NEW c \in Callers, MarkError(c) PROVE [Ledger!Next]_(Ledger!ledger)
  <2>1. audit[c] \in Ids /\ audit[c] \in 1..issued BY <1>8, <1>d DEF MarkError
  <2>2. CASE status[audit[c]] = "SUCCESS" BY <1>8, <1>a, <2>2 DEF MarkError
  <2>3. CASE status[audit[c]] # "SUCCESS"
    <3>1. /\ status' = [status EXCEPT ![audit[c]] = "ERROR"] /\ keyed' = keyed \ {audit[c]}
          /\ UNCHANGED <<issued, saved, madeFor>>
          BY <1>8, <2>3 DEF MarkError
    <3>2. "ERROR" \in {"SUCCESS", "ERROR", "CANCELLED"} /\ saved' = saved BY <3>1
    <3> QED BY <1>b, <2>1, <3>1, <3>2
  <2> QED BY <2>2, <2>3
<1>9. ASSUME NEW t \in Tasks, UpstreamEnds(t) PROVE [Ledger!Next]_(Ledger!ledger)
      BY <1>9, <1>a DEF UpstreamEnds
<1>10. CASE UNCHANGED vars BY <1>10, <1>a DEF vars
<1> QED BY <1>1, <1>2, <1>3, <1>4, <1>5, <1>6, <1>7, <1>8, <1>9, <1>10
        DEF Next, Ensure, Export

\* The runners and their statements implement the ledger: inserts, create calls, saves
\* and error marks map to its steps, a late reply to a revival, the rest to stutters.
THEOREM RowsFormALedger == Spec => AuditsAreALedger
<1>1. Init => Ledger!Init BY DEF Init, Ledger!Init, Ended
<1>2. IInv /\ [Next]_vars => [Ledger!Next]_(Ledger!ledger) BY LedgerStep
<1> QED BY <1>1, <1>2, Invariance, PTL DEF Spec, AuditsAreALedger, Ledger!Spec
=============================================================================
