------------------------- MODULE EndpointWorkerProofs -------------------------
(***************************************************************************)
(* Proofs, for every set of workers and every bound, of the safety         *)
(* properties of EndpointWorker.                                           *)
(*                                                                         *)
(* The properties are not inductive one by one.  IInv adds what ties the   *)
(* locals of a run, the cancel requests in flight and the rows together:   *)
(* an id belongs to one worker, ids in flight were issued, an id nobody    *)
(* issued is blank, a pending request for the live run was really made,    *)
(* and a run that counts as a success has no unit left and its row says so.*)
(***************************************************************************)
EXTENDS EndpointWorker, TLAPS

\* Ids in flight were issued.
FlightIssued ==
  /\ \A w \in Workers : cancelCh[w] <= issued
  /\ \A t \in Tasks : carried[t] <= issued

\* A worker's task is an id issued to it.
TaskOwned ==
  \A w \in Workers :
    /\ task[w] # NoTask => task[w] <= issued /\ owner[task[w]] = w
    /\ pc[w] \in Syncing => task[w] # NoTask

\* An issued id has an owner; the others have no row, no helper, no effect.
FutureIsBlank ==
  \A t \in Tasks :
    /\ t <= issued => owner[t] \in Workers
    /\ t > issued => /\ row[t] = "absent" /\ helper[t] = "none"
                     /\ t \notin cancelledCtx /\ t \notin stamped

\* A request in flight for a live run was made while it was live.
FlightAsked ==
  \A w \in Workers : pc[w] \in Syncing =>
    /\ cancelCh[w] = task[w] => w \in asked
    /\ \A t \in Tasks : (owner[t] = w /\ carried[t] = task[w]) => w \in asked

\* What doSync knows about its units and its status at each label.
RunProgress ==
  \A w \in Workers :
    /\ pc[w] \in {"gate", "fetch"} => left[w] > 0
    /\ pc[w] = "project" => status[w] = "success"
    /\ pc[w] \in {"write", "finish"} => status[w] \in Final
    /\ (pc[w] \in {"project", "write", "finish"} /\ status[w] = "success") => left[w] = 0
    /\ (pc[w] = "finish" /\ status[w] = "success")
         => row[task[w]] = "success" \/ task[w] \in lost

\* A running row that can still be closed is the row of its owner's live run.
RunningIsOwned ==
  \A t \in Tasks : (row[t] = "running" /\ t \notin lost) =>
    up /\ task[owner[t]] = t /\ pc[owner[t]] \in Syncing \ {"finish"}

\* A run that stamped its stores is over.
StampedIsOver ==
  \A t \in stamped, w \in Workers : pc[w] \in Syncing => task[w] # t

\* Only a finished run makes the snapshot say success.
SnapshotHasTask ==
  \A w \in Workers : lastStatus[w] = "success" => task[w] # NoTask

\* Two workers never run the same row: each run closes, stamps and cancels only
\* a row of its own.
RunsAreDisjoint ==
  \A w, v \in Workers :
    (pc[w] \in Syncing /\ pc[v] \in Syncing /\ task[w] = task[v]) => w = v

IInv ==
  /\ TypeOK /\ FlightIssued /\ TaskOwned /\ FutureIsBlank /\ FlightAsked
  /\ RunProgress /\ StampedIsOver /\ SnapshotHasTask
  /\ RunningIsOwned /\ CancelHitsOnlyItsTarget
  /\ StampMeansSuccess /\ SnapshotAgreesWithRow

-----------------------------------------------------------------------------
USE DEF procVars, chanVars, runVars, helperVars, dbVars, histVars, NoTask, Nobody

\* The bounds are natural numbers.
LEMMA Bounds == MaxTask \in Nat /\ MaxUnits \in Nat \ {0} /\ MaxCrash \in Nat
BY WorkerAssumption DEF WorkerAssumption

\* The unit counter stays below its bound.
LEMMA Units ==
  ASSUME left \in [Workers -> 0..MaxUnits]
  PROVE  /\ \A w \in Workers : left[w] > 0 => left[w] - 1 \in 0..MaxUnits
         /\ 0 \in 0..MaxUnits
BY Bounds

\* Ids are numbers, and an id is issued or not.
LEMMA Ids ==
  ASSUME issued \in 0..MaxTask
  PROVE  /\ issued \in Nat
         /\ \A t \in Tasks : t \in Nat /\ t # 0 /\ (t <= issued \/ t > issued)
         /\ issued < MaxTask =>
              /\ issued + 1 \in Tasks /\ issued + 1 \in 0..MaxTask
              /\ issued + 1 > issued /\ issued + 1 # 0
BY Bounds DEF Tasks

\* The id issued next is a new one.
LEMMA NextId ==
  ASSUME issued \in 0..MaxTask, issued < MaxTask
  PROVE  /\ issued + 1 \in Tasks
         /\ \A t \in Tasks \cup {NoTask} : t <= issued => t # issued + 1
         /\ \A t \in Tasks :
              /\ t > issued + 1 => t > issued /\ t # issued + 1
              /\ t <= issued + 1 => t <= issued \/ t = issued + 1
BY Bounds DEF Tasks

\* What an action that touches a run or a helper needs to know about its id.
LEMMA LiveIds ==
  ASSUME TypeOK, TaskOwned, FutureIsBlank
  PROVE  /\ \A w \in Workers : pc[w] \in Syncing => task[w] \in Tasks
         /\ \A t \in Tasks : helper[t] # "none" => owner[t] \in Workers /\ t <= issued
<1>1. \A w \in Workers : task[w] \in Tasks \cup {NoTask} BY DEF TypeOK
<1>2. \A t \in Tasks : t <= issued \/ t > issued BY Ids DEF TypeOK
<1> QED BY <1>1, <1>2 DEF TaskOwned, FutureIsBlank

\* How doSync returns keeps its label and its status well typed.
LEMMA ConcludeTypes ==
  ASSUME TypeOK, NEW w \in Workers, NEW s \in Final, Conclude(w, s)
  PROVE  /\ status' \in [Workers -> Final \cup {""}]
         /\ pc' \in [Workers -> Syncing \cup {"idle", "exited"}]
BY DEF TypeOK, Conclude, Goto, Syncing

\* A crash remembers only ids of live runs.
LEMMA GoDownTypes ==
  ASSUME TypeOK, TaskOwned, FutureIsBlank, GoDown PROVE TypeOK'
<1>1. lost \subseteq Tasks /\ crashes \in 0..MaxCrash BY DEF TypeOK
<1>2. lost' \subseteq Tasks BY <1>1, LiveIds DEF GoDown
<1>3. crashes' \in 0..MaxCrash BY <1>1, Bounds DEF GoDown
<1>4. up' \in BOOLEAN BY DEF GoDown
<1> QED BY <1>2, <1>3, <1>4 DEF TypeOK, GoDown

\* A restarted process starts well typed.
LEMMA RestartTypes == ASSUME TypeOK, Restart PROVE TypeOK'
<1>1. row \in [Tasks -> RowStatus] BY DEF TypeOK
<1>2. row' \in [Tasks -> RowStatus]
      BY <1>1 DEF Restart, RecoverStaleRunningTasks, RowStatus, Final
<1>3. left' \in [Workers -> 0..MaxUnits]
  <2>1. 0 \in 0..MaxUnits BY Bounds
  <2> QED BY <2>1 DEF Restart
<1>4. /\ cancelCh' \in [Workers -> Tasks \cup {NoTask}]
      /\ pc' \in [Workers -> Syncing \cup {"idle", "exited"}]
      /\ task' \in [Workers -> Tasks \cup {NoTask}]
      BY DEF Restart
<1>5. /\ status' \in [Workers -> Final \cup {""}]
      /\ lastStatus' \in [Workers -> Final \cup {""}]
      BY DEF Restart
<1>6. /\ helper' \in [Tasks -> {"none", "listening", "carrying", "gone"}]
      /\ carried' \in [Tasks -> Tasks \cup {NoTask}]
      BY DEF Restart
<1>7. trigger' \subseteq Workers /\ cancelledCtx' \subseteq Tasks
  <2>1. StoreSource \subseteq Workers BY WorkerAssumption DEF WorkerAssumption
  <2>2. issued \in 0..MaxTask BY DEF TypeOK
  <2>3. 1..issued \subseteq Tasks BY <2>2, Bounds DEF Tasks
  <2>4. trigger' = StoreSource /\ cancelledCtx' = 1..issued BY DEF Restart
  <2> QED BY <2>1, <2>3, <2>4
<1> QED BY <1>2, <1>3, <1>4, <1>5, <1>6, <1>7 DEF TypeOK, Restart

\* Type correctness of every step.
LEMMA TypeStep ==
  TypeOK /\ TaskOwned /\ FutureIsBlank /\ RunProgress /\ [Next]_vars => TypeOK'
<1> SUFFICES ASSUME TypeOK, TaskOwned, FutureIsBlank, RunProgress, [Next]_vars
             PROVE TypeOK'
    OBVIOUS
<1>0. /\ \A w \in Workers : pc[w] \in Syncing => task[w] \in Tasks
      /\ \A t \in Tasks : helper[t] # "none" => owner[t] \in Workers
      BY LiveIds
<1>00. /\ \A w \in Workers : left[w] > 0 => left[w] - 1 \in 0..MaxUnits
       /\ 0 \in 0..MaxUnits
  <2>1. left \in [Workers -> 0..MaxUnits] BY DEF TypeOK
  <2> QED BY <2>1, Units
<1> USE DEF TypeOK, Final, RowStatus, Syncing
<1>1. ASSUME NEW w \in Workers, Select(w) PROVE TypeOK'
  <2>1. CASE RunExits(w) BY <2>1 DEF RunExits, Goto
  <2>2. CASE RunTakesCancel(w) BY <2>2 DEF RunTakesCancel, CancelTask
  <2>3. CASE SkipDisabled(w) BY <2>3 DEF SkipDisabled, TakeTrigger
  <2>4. CASE RecordFatalTask(w)
    <3>1. issued + 1 \in Tasks /\ issued + 1 \in 0..MaxTask
          BY <2>4, Ids DEF RecordFatalTask, InsertTask
    <3> QED BY <2>4, <3>1 DEF RecordFatalTask, TakeTrigger, InsertTask, Goto
  <2>5. CASE DoSync(w)
    <3>1. issued + 1 \in Tasks /\ issued + 1 \in 0..MaxTask
          BY <2>5, Ids DEF DoSync, InsertTask
    <3> QED BY <2>5, <3>1 DEF DoSync, TakeTrigger, InsertTask, Goto
  <2>6. CASE InsertFails(w) BY <2>6 DEF InsertFails, TakeTrigger
  <2> QED BY <1>1, <2>1, <2>2, <2>3, <2>4, <2>5, <2>6 DEF Select
<1>2. ASSUME NEW w \in Workers, Body(w) PROVE TypeOK'
  <2>1. CASE Plan(w)
    <3>1. left' \in [Workers -> 0..MaxUnits] BY <2>1 DEF Plan
    <3>2. \/ \E s \in Final : Conclude(w, s)
          \/ Goto(w, "gate") /\ UNCHANGED status
          BY <2>1 DEF Plan
    <3>3. /\ status' \in [Workers -> Final \cup {""}]
          /\ pc' \in [Workers -> Syncing \cup {"idle", "exited"}]
          BY <3>2, ConcludeTypes DEF Goto
    <3> QED BY <2>1, <3>1, <3>3 DEF Plan
  <2>2. CASE Gate(w) BY <2>2 DEF Gate, Conclude, Goto
  <2>3. ASSUME NEW rows \in BOOLEAN, UnitSucceeds(w, rows) PROVE TypeOK'
    <3>1. left[w] > 0 BY <2>3 DEF UnitSucceeds, RunProgress
    <3>2. left[w] - 1 \in 0..MaxUnits BY <3>1, <1>00
    <3> QED BY <2>3, <3>2 DEF UnitSucceeds, Conclude, Goto
  <2>4. CASE UnitFails(w) BY <2>4 DEF UnitFails, Conclude, Goto
  <2>5. CASE UnitAborts(w) BY <2>5 DEF UnitAborts, Conclude, Goto
  <2>6. CASE Panic(w) BY <2>6, <1>0 DEF Panic, Conclude, Goto
  <2>7. CASE Project(w) BY <2>7, <1>0 DEF Project, Goto
  <2>8. CASE Write(w) BY <2>8, <1>0 DEF Write, RunProgress, UpdateTask, Goto
  <2>9. CASE Finish(w) BY <2>9, <1>0, <1>00 DEF Finish, Goto
  <2> QED BY <1>2, <2>1, <2>2, <2>3, <2>4, <2>5, <2>6, <2>7, <2>8, <2>9 DEF Body
<1>3. ASSUME NEW t \in Tasks, Helper(t) PROVE TypeOK'
  <2>2. CASE HelperEnds(t) BY <2>2 DEF HelperEnds
  <2>3. CASE HelperCancels(t) BY <1>0, <2>3 DEF HelperCancels
  <2>4. CASE HelperTakesForeign(t) BY <1>0, <2>4 DEF HelperTakesForeign
  <2>5. CASE HelperPutsBack(t) BY <1>0, <2>5 DEF HelperPutsBack
  <2> QED BY <1>3, <2>2, <2>3, <2>4, <2>5 DEF Helper
<1>4. ASSUME Environment PROVE TypeOK'
  <2>1. ASSUME NEW w \in Workers, Trigger(w) PROVE TypeOK' BY <2>1 DEF Trigger
  <2>2. ASSUME NEW w \in Workers, NEW t \in Tasks, Cancel(w, t) PROVE TypeOK'
        BY <2>2 DEF Cancel
  <2>3. CASE SixHoursPass BY <2>3 DEF SixHoursPass
  <2>4. CASE RunStaleRecovery BY <2>4 DEF RunStaleRecovery, RecoverStaleRunningTasks
  <2>5. CASE Stop BY <2>5 DEF Stop
  <2>6. CASE GoDown BY <2>6, GoDownTypes
  <2>7. CASE Restart BY <2>7, RestartTypes
  <2> QED BY <1>4, <2>1, <2>2, <2>3, <2>4, <2>5, <2>6, <2>7 DEF Environment
<1>5. CASE UNCHANGED vars BY <1>5 DEF vars
<1> QED BY <1>1, <1>2, <1>3, <1>4, <1>5 DEF Next

\* The types the proofs below use, and arithmetic of ids.
LEMMA Typed ==
  ASSUME TypeOK
  PROVE  /\ cancelCh \in [Workers -> Tasks \cup {NoTask}]
         /\ carried \in [Tasks -> Tasks \cup {NoTask}]
         /\ task \in [Workers -> Tasks \cup {NoTask}]
         /\ owner \in [Tasks -> Workers \cup {Nobody}]
         /\ pc \in [Workers -> Syncing \cup {"idle", "exited"}]
         /\ status \in [Workers -> Final \cup {""}]
         /\ lastStatus \in [Workers -> Final \cup {""}]
         /\ row \in [Tasks -> RowStatus]
         /\ helper \in [Tasks -> {"none", "listening", "carrying", "gone"}]
         /\ stamped \subseteq Tasks /\ cancelledCtx \subseteq Tasks
         /\ issued \in Nat
         /\ \A t \in Tasks \cup {NoTask} : t \in Nat
         /\ \A t \in Tasks : t # NoTask
         /\ issued < MaxTask => issued + 1 \in Tasks /\ issued + 1 # 0
<1>1. issued \in 0..MaxTask BY DEF TypeOK
<1>2. /\ issued \in Nat
      /\ \A t \in Tasks \cup {NoTask} : t \in Nat
      /\ \A t \in Tasks : t # NoTask
      /\ issued < MaxTask => issued + 1 \in Tasks /\ issued + 1 # 0
      BY <1>1, Ids
<1> QED BY <1>2 DEF TypeOK

\* What RecordFatalTask and DoSync share: a fresh id for an idle worker.
Inserts(w) ==
  /\ pc[w] = "idle" /\ issued < MaxTask
  /\ issued' = issued + 1
  /\ owner' = [owner EXCEPT ![issued + 1] = w]
  /\ row' = [row EXCEPT ![issued + 1] = "running"]
  /\ task' = [task EXCEPT ![w] = issued + 1]
  /\ asked' = asked \ {w}
  /\ \/ pc' = [pc EXCEPT ![w] = "plan"] /\ status' = status
     \/ pc' = [pc EXCEPT ![w] = "write"] /\ status' = [status EXCEPT ![w] = "error"]
  /\ up' = up /\ cancelCh' = cancelCh /\ carried' = carried
  /\ cancelledCtx' = cancelledCtx /\ stamped' = stamped /\ lost' = lost
  /\ left' = left
  /\ helper' = helper \/ helper' = [helper EXCEPT ![issued + 1] = "listening"]

\* doSync gets its row by an insertion that touches nothing else.
LEMMA DoSyncInserts == ASSUME NEW w \in Workers, DoSync(w) PROVE Inserts(w)
BY DEF DoSync, Inserts, TakeTrigger, InsertTask, Goto

\* So does recordFatalTask.
LEMMA FatalInserts ==
  ASSUME NEW w \in Workers, RecordFatalTask(w) PROVE Inserts(w)
BY DEF RecordFatalTask, Inserts, TakeTrigger, InsertTask, Goto

\* Ids in flight stay issued.
LEMMA FlightIssuedStep ==
  ASSUME TypeOK, FlightIssued, TaskOwned, FutureIsBlank, [Next]_vars
  PROVE  FlightIssued'
<1>0. /\ cancelCh \in [Workers -> Tasks \cup {NoTask}]
      /\ carried \in [Tasks -> Tasks \cup {NoTask}]
      /\ issued \in Nat
      /\ \A t \in Tasks \cup {NoTask} : t \in Nat
      /\ \A t \in Tasks : helper[t] # "none" => owner[t] \in Workers
      BY Typed, LiveIds
<1>1. ASSUME NEW w \in Workers, Select(w) PROVE FlightIssued'
  <2>1. CASE RunTakesCancel(w)
    BY <1>0, <2>1 DEF FlightIssued, RunTakesCancel, CancelTask
  <2>2. CASE RecordFatalTask(w)
    <3>1. issued' = issued + 1 /\ UNCHANGED <<cancelCh, carried>>
          BY <2>2, DoSyncInserts, FatalInserts DEF Inserts
    <3>2. /\ \A v \in Workers : cancelCh[v] \in Nat
          /\ \A t \in Tasks : carried[t] \in Nat
          BY <1>0
    <3> QED BY <1>0, <3>1, <3>2 DEF FlightIssued
  <2>3. CASE DoSync(w)
    <3>1. issued' = issued + 1 /\ UNCHANGED <<cancelCh, carried>>
          BY <2>3, DoSyncInserts, FatalInserts DEF Inserts
    <3>2. /\ \A v \in Workers : cancelCh[v] \in Nat
          /\ \A t \in Tasks : carried[t] \in Nat
          BY <1>0
    <3> QED BY <1>0, <3>1, <3>2 DEF FlightIssued
  <2> QED BY <1>0, <1>1, <2>1, <2>2, <2>3 DEF FlightIssued, Select, RunExits,
         Goto, SkipDisabled, TakeTrigger, InsertFails
<1>2. ASSUME NEW w \in Workers, Body(w) PROVE FlightIssued'
  BY <1>0, <1>2 DEF FlightIssued, Body, Plan, Conclude, Goto, Gate,
     UnitSucceeds, UnitFails, UnitAborts, Panic, Project, Write, UpdateTask,
     Finish
<1>3. ASSUME NEW t \in Tasks, Helper(t) PROVE FlightIssued'
  <2>1. CASE HelperEnds(t)
    BY <1>0, <2>1 DEF FlightIssued, HelperEnds
  <2>2. CASE HelperCancels(t)
    BY <1>0, <2>2 DEF FlightIssued, HelperCancels
  <2>3. CASE HelperTakesForeign(t)
    BY <1>0, <2>3 DEF FlightIssued, HelperTakesForeign
  <2>4. CASE HelperPutsBack(t)
    BY <1>0, <2>4 DEF FlightIssued, HelperPutsBack
  <2> QED BY <1>3, <2>1, <2>2, <2>3, <2>4 DEF Helper
<1>4. ASSUME Environment PROVE FlightIssued'
  <2>1. ASSUME NEW w \in Workers, NEW t \in Tasks, Cancel(w, t)
        PROVE FlightIssued'
    BY <1>0, <2>1 DEF FlightIssued, Cancel
  <2>2. CASE Restart
    <3>1. /\ \A w \in Workers : cancelCh'[w] = 0
          /\ \A t \in Tasks : carried'[t] = 0
          /\ issued' = issued
          BY <2>2 DEF Restart
    <3> QED BY <1>0, <3>1 DEF FlightIssued
  <2> QED BY <1>0, <1>4, <2>1, <2>2 DEF FlightIssued, Environment, Trigger,
         SixHoursPass, RunStaleRecovery, RecoverStaleRunningTasks, Stop,
         GoDown
<1>5. CASE UNCHANGED vars BY <1>5 DEF FlightIssued, vars
<1> QED BY <1>1, <1>2, <1>3, <1>4, <1>5 DEF Next

\* A worker keeps to ids of its own.
LEMMA TaskOwnedStep ==
  ASSUME TypeOK, TaskOwned, [Next]_vars
  PROVE  TaskOwned'
<1>0. /\ task \in [Workers -> Tasks \cup {NoTask}]
      /\ owner \in [Tasks -> Workers \cup {Nobody}]
      /\ pc \in [Workers -> Syncing \cup {"idle", "exited"}]
      /\ issued \in Nat
      /\ \A t \in Tasks \cup {NoTask} : t \in Nat
      /\ issued < MaxTask => issued + 1 \in Tasks /\ issued + 1 # 0
      BY Typed
<1>1. ASSUME NEW w \in Workers, Select(w) PROVE TaskOwned'
  <2>1. CASE RunExits(w)
    BY <1>0, <2>1 DEF TaskOwned, Syncing, RunExits, Goto
  <2>2. CASE RecordFatalTask(w)
    BY <1>0, DoSyncInserts, FatalInserts, <2>2 DEF Inserts, TaskOwned, Syncing
  <2>3. CASE DoSync(w)
    BY <1>0, DoSyncInserts, FatalInserts, <2>3 DEF Inserts, TaskOwned, Syncing
  <2> QED BY <1>0, <1>1, <2>1, <2>2, <2>3 DEF TaskOwned, Syncing, Select,
         RunTakesCancel, CancelTask, SkipDisabled, TakeTrigger, InsertFails
<1>2. ASSUME NEW w \in Workers, Body(w) PROVE TaskOwned'
  BY <1>0, <1>2 DEF TaskOwned, Syncing, Body, Plan, Conclude, Goto, Gate,
     UnitSucceeds, UnitFails, UnitAborts, Panic, Project, Write, UpdateTask,
     Finish
<1>3. ASSUME NEW t \in Tasks, Helper(t) PROVE TaskOwned'
  BY <1>0, <1>3 DEF TaskOwned, Syncing, Helper, HelperEnds, HelperCancels,
     HelperTakesForeign, HelperPutsBack
<1>4. ASSUME Environment PROVE TaskOwned'
  <2>1. CASE Restart
    BY <1>0, <2>1 DEF TaskOwned, Syncing, Restart, RecoverStaleRunningTasks
  <2> QED BY <1>0, <1>4, <2>1 DEF TaskOwned, Syncing, Environment, Trigger,
         Cancel, SixHoursPass, RunStaleRecovery, RecoverStaleRunningTasks,
         Stop, GoDown
<1>5. CASE UNCHANGED vars BY <1>5 DEF TaskOwned, Syncing, vars
<1> QED BY <1>1, <1>2, <1>3, <1>4, <1>5 DEF Next

\* Nothing is known of an id before it is issued.
LEMMA FutureIsBlankStep ==
  ASSUME TypeOK, TaskOwned, FutureIsBlank, [Next]_vars
  PROVE  FutureIsBlank'
<1>0. /\ row \in [Tasks -> RowStatus]
      /\ owner \in [Tasks -> Workers \cup {Nobody}]
      /\ helper \in [Tasks -> {"none", "listening", "carrying", "gone"}]
      /\ issued \in Nat
      /\ \A t \in Tasks : t \in Nat
      /\ \A w \in Workers : pc[w] \in Syncing => task[w] \in Tasks /\ task[w] <= issued
      /\ \A t \in Tasks : helper[t] # "none" => t <= issued
      BY Typed, LiveIds DEF TaskOwned
<1>1. ASSUME NEW w \in Workers, Select(w) PROVE FutureIsBlank'
  <2>1. CASE RunTakesCancel(w)
    BY <1>0, <2>1 DEF FutureIsBlank, Syncing, RunTakesCancel, CancelTask
  <2>2. CASE RecordFatalTask(w)
    <3>1. Inserts(w) BY <2>2, DoSyncInserts, FatalInserts
    <3>2. /\ issued < MaxTask /\ issued' = issued + 1 /\ issued + 1 \in Tasks
          /\ \A t \in Tasks : t > issued + 1 => t > issued /\ t # issued + 1
          /\ \A t \in Tasks : t <= issued + 1 => t <= issued \/ t = issued + 1
      <4>1. issued \in 0..MaxTask BY DEF TypeOK
      <4>2. issued < MaxTask /\ issued' = issued + 1 BY <3>1 DEF Inserts
      <4> QED BY <4>1, <4>2, NextId
    <3>3. ASSUME NEW t \in Tasks, t > issued + 1
          PROVE  /\ row'[t] = "absent" /\ helper'[t] = "none"
                 /\ t \notin cancelledCtx' /\ t \notin stamped'
      <4>1. t > issued /\ t # issued + 1 BY <3>2, <3>3
      <4> QED BY <4>1, <1>0, <3>1 DEF Inserts, FutureIsBlank
    <3>4. ASSUME NEW t \in Tasks, t <= issued + 1 PROVE owner'[t] \in Workers
          BY <1>0, <3>1, <3>2, <3>4 DEF Inserts, FutureIsBlank
    <3> QED BY <3>2, <3>3, <3>4 DEF FutureIsBlank
  <2>3. CASE DoSync(w)
    <3>1. Inserts(w) BY <2>3, DoSyncInserts, FatalInserts
    <3>2. /\ issued < MaxTask /\ issued' = issued + 1 /\ issued + 1 \in Tasks
          /\ \A t \in Tasks : t > issued + 1 => t > issued /\ t # issued + 1
          /\ \A t \in Tasks : t <= issued + 1 => t <= issued \/ t = issued + 1
      <4>1. issued \in 0..MaxTask BY DEF TypeOK
      <4>2. issued < MaxTask /\ issued' = issued + 1 BY <3>1 DEF Inserts
      <4> QED BY <4>1, <4>2, NextId
    <3>3. ASSUME NEW t \in Tasks, t > issued + 1
          PROVE  /\ row'[t] = "absent" /\ helper'[t] = "none"
                 /\ t \notin cancelledCtx' /\ t \notin stamped'
      <4>1. t > issued /\ t # issued + 1 BY <3>2, <3>3
      <4> QED BY <4>1, <1>0, <3>1 DEF Inserts, FutureIsBlank
    <3>4. ASSUME NEW t \in Tasks, t <= issued + 1 PROVE owner'[t] \in Workers
          BY <1>0, <3>1, <3>2, <3>4 DEF Inserts, FutureIsBlank
    <3> QED BY <3>2, <3>3, <3>4 DEF FutureIsBlank
  <2> QED BY <1>0, <1>1, <2>1, <2>2, <2>3 DEF FutureIsBlank, Syncing, Select,
         RunExits, Goto, SkipDisabled, TakeTrigger, InsertFails
<1>2. ASSUME NEW w \in Workers, Body(w) PROVE FutureIsBlank'
  <2>1. CASE Panic(w)
    BY <1>0, <2>1 DEF FutureIsBlank, Syncing, Panic, Conclude, Goto
  <2>2. CASE Project(w)
    BY <1>0, <2>2 DEF FutureIsBlank, Syncing, Project, Goto
  <2>3. CASE Write(w)
    BY <1>0, <2>3 DEF FutureIsBlank, Syncing, Write, Goto, UpdateTask
  <2>4. CASE Finish(w)
    <3>1. /\ task[w] \in Tasks /\ task[w] <= issued
          /\ stamped' \subseteq stamped \cup {task[w]}
          /\ cancelledCtx' = cancelledCtx \cup {task[w]}
          /\ UNCHANGED <<row, helper, issued, owner>>
          BY <1>0, <2>4 DEF Finish, Syncing
    <3>2. \A t \in Tasks : t > issued => t # task[w] BY <1>0, <3>1
    <3> QED BY <3>1, <3>2 DEF FutureIsBlank
  <2> QED BY <1>0, <1>2, <2>1, <2>2, <2>3, <2>4 DEF FutureIsBlank, Syncing,
         Body, Plan, Conclude, Goto, Gate, UnitSucceeds, UnitFails, UnitAborts
<1>3. ASSUME NEW t \in Tasks, Helper(t) PROVE FutureIsBlank'
  <2>1. CASE HelperEnds(t)
    BY <1>0, <2>1 DEF FutureIsBlank, Syncing, HelperEnds
  <2>2. CASE HelperCancels(t)
    BY <1>0, <2>2 DEF FutureIsBlank, Syncing, HelperCancels
  <2>3. CASE HelperTakesForeign(t)
    BY <1>0, <2>3 DEF FutureIsBlank, Syncing, HelperTakesForeign
  <2>4. CASE HelperPutsBack(t)
    BY <1>0, <2>4 DEF FutureIsBlank, Syncing, HelperPutsBack
  <2> QED BY <1>3, <2>1, <2>2, <2>3, <2>4 DEF Helper
<1>4. ASSUME Environment PROVE FutureIsBlank'
  <2>1. CASE RunStaleRecovery
    BY <1>0, <2>1 DEF FutureIsBlank, Syncing, RunStaleRecovery,
       RecoverStaleRunningTasks
  <2>2. CASE GoDown
    BY <1>0, <2>2 DEF FutureIsBlank, Syncing, GoDown
  <2>3. CASE Restart
    <3>1. /\ \A t \in Tasks : t > issued =>
                helper'[t] = "none" /\ t \notin cancelledCtx'
          /\ \A t \in Tasks : row[t] = "absent" => row'[t] = "absent"
      <4>1. \A t \in Tasks : t > issued => t \notin 1..issued /\ ~(t <= issued)
            BY <1>0
      <4>2. \A t \in Tasks : row[t] = "absent" => row'[t] = "absent"
            BY <1>0, <2>3 DEF Restart, RecoverStaleRunningTasks
      <4> QED BY <4>1, <4>2, <2>3 DEF Restart
    <3>2. UNCHANGED <<issued, owner, stamped>> BY <2>3 DEF Restart
    <3> QED BY <3>1, <3>2 DEF FutureIsBlank
  <2> QED BY <1>0, <1>4, <2>1, <2>2, <2>3 DEF FutureIsBlank, Syncing,
         Environment, Trigger, Cancel, SixHoursPass, Stop
<1>5. CASE UNCHANGED vars BY <1>5 DEF FutureIsBlank, Syncing, vars
<1> QED BY <1>1, <1>2, <1>3, <1>4, <1>5 DEF Next

\* Every request in flight for a live run was made while it was live.
LEMMA FlightAskedStep ==
  ASSUME TypeOK, TaskOwned, FlightIssued, FutureIsBlank, FlightAsked, [Next]_vars
  PROVE  FlightAsked'
<1>0. /\ cancelCh \in [Workers -> Tasks \cup {NoTask}]
      /\ carried \in [Tasks -> Tasks \cup {NoTask}]
      /\ task \in [Workers -> Tasks \cup {NoTask}]
      /\ owner \in [Tasks -> Workers \cup {Nobody}]
      /\ pc \in [Workers -> Syncing \cup {"idle", "exited"}]
      /\ \A w \in Workers : pc[w] \in Syncing => task[w] # NoTask
      /\ \A t \in Tasks : helper[t] # "none" => owner[t] \in Workers
      BY Typed, LiveIds DEF TaskOwned
<1>1. ASSUME NEW w \in Workers, Select(w) PROVE FlightAsked'
  <2>1. CASE RunExits(w)
    BY <1>0, <2>1 DEF FlightAsked, Syncing, RunExits, Goto
  <2>2. CASE RunTakesCancel(w)
    BY <1>0, <2>2 DEF FlightAsked, Syncing, RunTakesCancel, CancelTask
  <2>3. CASE RecordFatalTask(w)
    <3>1. Inserts(w) BY <2>3, DoSyncInserts, FatalInserts
    <3>2. /\ cancelCh[w] # issued + 1
          /\ \A t \in Tasks : carried[t] # issued + 1
      <4>1. issued \in 0..MaxTask BY DEF TypeOK
      <4>2. issued < MaxTask BY <3>1 DEF Inserts
      <4> QED BY <1>0, <4>1, <4>2, NextId DEF FlightIssued
    <3>3. /\ task'[w] = issued + 1
          /\ \A v \in Workers : v # w =>
               /\ pc'[v] = pc[v] /\ task'[v] = task[v]
               /\ v \in asked' <=> v \in asked
               /\ \A t \in Tasks : owner'[t] = v => owner[t] = v
          /\ cancelCh' = cancelCh /\ carried' = carried
          BY <1>0, <3>1 DEF Inserts
    <3> QED BY <3>2, <3>3 DEF FlightAsked
  <2>4. CASE DoSync(w)
    <3>1. Inserts(w) BY <2>4, DoSyncInserts, FatalInserts
    <3>2. /\ cancelCh[w] # issued + 1
          /\ \A t \in Tasks : carried[t] # issued + 1
      <4>1. issued \in 0..MaxTask BY DEF TypeOK
      <4>2. issued < MaxTask BY <3>1 DEF Inserts
      <4> QED BY <1>0, <4>1, <4>2, NextId DEF FlightIssued
    <3>3. /\ task'[w] = issued + 1
          /\ \A v \in Workers : v # w =>
               /\ pc'[v] = pc[v] /\ task'[v] = task[v]
               /\ v \in asked' <=> v \in asked
               /\ \A t \in Tasks : owner'[t] = v => owner[t] = v
          /\ cancelCh' = cancelCh /\ carried' = carried
          BY <1>0, <3>1 DEF Inserts
    <3> QED BY <3>2, <3>3 DEF FlightAsked
  <2> QED BY <1>0, <1>1, <2>1, <2>2, <2>3, <2>4 DEF FlightAsked, Syncing,
         Select, SkipDisabled, TakeTrigger, InsertFails
<1>2. ASSUME NEW w \in Workers, Body(w) PROVE FlightAsked'
  <2>1. CASE Finish(w)
    BY <1>0, <2>1 DEF FlightAsked, Syncing, Finish, Goto
  <2> QED BY <1>0, <1>2, <2>1 DEF FlightAsked, Syncing, Body, Plan, Conclude,
         Goto, Gate, UnitSucceeds, UnitFails, UnitAborts, Panic, Project,
         Write, UpdateTask
<1>3. ASSUME NEW t \in Tasks, Helper(t) PROVE FlightAsked'
  <2>1. CASE HelperEnds(t)
    BY <1>0, <2>1 DEF FlightAsked, Syncing, HelperEnds
  <2>2. CASE HelperCancels(t)
    BY <1>0, <2>2 DEF FlightAsked, Syncing, HelperCancels
  <2>3. CASE HelperTakesForeign(t)
    BY <1>0, <2>3 DEF FlightAsked, Syncing, HelperTakesForeign
  <2>4. CASE HelperPutsBack(t)
    BY <1>0, <2>4 DEF FlightAsked, Syncing, HelperPutsBack
  <2> QED BY <1>3, <2>1, <2>2, <2>3, <2>4 DEF Helper
<1>4. ASSUME Environment PROVE FlightAsked'
  <2>1. ASSUME NEW w \in Workers, NEW t \in Tasks, Cancel(w, t)
        PROVE FlightAsked'
    BY <1>0, <2>1 DEF FlightAsked, Syncing, Cancel
  <2>2. CASE Restart
    BY <1>0, <2>2 DEF FlightAsked, Syncing, Restart, RecoverStaleRunningTasks
  <2> QED BY <1>0, <1>4, <2>1, <2>2 DEF FlightAsked, Syncing, Environment,
         Trigger, SixHoursPass, RunStaleRecovery, RecoverStaleRunningTasks,
         Stop, GoDown
<1>5. CASE UNCHANGED vars BY <1>5 DEF FlightAsked, Syncing, vars
<1> QED BY <1>1, <1>2, <1>3, <1>4, <1>5 DEF Next

\* A snapshot that says success belongs to a run.
LEMMA SnapshotHasTaskStep ==
  ASSUME TypeOK, TaskOwned, SnapshotHasTask, [Next]_vars
  PROVE  SnapshotHasTask'
<1>0. /\ task \in [Workers -> Tasks \cup {NoTask}]
      /\ lastStatus \in [Workers -> Final \cup {""}]
      /\ issued \in Nat
      /\ issued < MaxTask => issued + 1 # 0
      /\ \A w \in Workers : pc[w] \in Syncing => task[w] # NoTask
      BY Typed DEF TaskOwned
<1>1. ASSUME NEW w \in Workers, Select(w) PROVE SnapshotHasTask'
  <2>1. CASE RecordFatalTask(w)
    BY <1>0, <2>1 DEF SnapshotHasTask, Syncing, RecordFatalTask, TakeTrigger,
       InsertTask, Goto
  <2>2. CASE DoSync(w)
    BY <1>0, <2>2 DEF SnapshotHasTask, Syncing, DoSync, TakeTrigger,
       InsertTask, Goto
  <2>3. CASE InsertFails(w)
    BY <1>0, <2>3 DEF SnapshotHasTask, Syncing, InsertFails, TakeTrigger
  <2> QED BY <1>0, <1>1, <2>1, <2>2, <2>3 DEF SnapshotHasTask, Syncing,
         Select, RunExits, Goto, RunTakesCancel, CancelTask, SkipDisabled,
         TakeTrigger
<1>2. ASSUME NEW w \in Workers, Body(w) PROVE SnapshotHasTask'
  <2>1. CASE Finish(w)
    BY <1>0, <2>1 DEF SnapshotHasTask, Syncing, Finish, Goto
  <2> QED BY <1>0, <1>2, <2>1 DEF SnapshotHasTask, Syncing, Body, Plan,
         Conclude, Goto, Gate, UnitSucceeds, UnitFails, UnitAborts, Panic,
         Project, Write, UpdateTask
<1>3. ASSUME NEW t \in Tasks, Helper(t) PROVE SnapshotHasTask'
  BY <1>0, <1>3 DEF SnapshotHasTask, Syncing, Helper, HelperEnds,
     HelperCancels, HelperTakesForeign, HelperPutsBack
<1>4. ASSUME Environment PROVE SnapshotHasTask'
  <2>1. CASE Restart
    BY <1>0, <2>1 DEF SnapshotHasTask, Syncing, Restart,
       RecoverStaleRunningTasks
  <2> QED BY <1>0, <1>4, <2>1 DEF SnapshotHasTask, Syncing, Environment,
         Trigger, Cancel, SixHoursPass, RunStaleRecovery,
         RecoverStaleRunningTasks, Stop, GoDown
<1>5. CASE UNCHANGED vars BY <1>5 DEF SnapshotHasTask, Syncing, vars
<1> QED BY <1>1, <1>2, <1>3, <1>4, <1>5 DEF Next

\* A stamped run does not come back.
LEMMA StampedIsOverStep ==
  ASSUME TypeOK, TaskOwned, FutureIsBlank, StampedIsOver, [Next]_vars
  PROVE  StampedIsOver'
<1>0. /\ task \in [Workers -> Tasks \cup {NoTask}]
      /\ pc \in [Workers -> Syncing \cup {"idle", "exited"}]
      /\ stamped \subseteq Tasks
      /\ issued < MaxTask => issued + 1 \notin stamped
      /\ \A v, w \in Workers :
           (pc[v] \in Syncing /\ pc[w] \in Syncing /\ task[v] = task[w]) => v = w
  <2>1. issued < MaxTask => issued + 1 \in Tasks /\ issued + 1 > issued
        BY Ids DEF TypeOK
  <2> QED BY <2>1, Typed DEF TaskOwned, FutureIsBlank
<1>1. ASSUME NEW w \in Workers, Select(w) PROVE StampedIsOver'
  <2>1. CASE RunExits(w)
    BY <1>0, <2>1 DEF StampedIsOver, Syncing, RunExits, Goto
  <2>2. CASE RecordFatalTask(w)
    BY <1>0, DoSyncInserts, FatalInserts, <2>2 DEF Inserts, StampedIsOver
  <2>3. CASE DoSync(w)
    BY <1>0, DoSyncInserts, FatalInserts, <2>3 DEF Inserts, StampedIsOver
  <2> QED BY <1>0, <1>1, <2>1, <2>2, <2>3 DEF StampedIsOver, Syncing, Select,
         RunTakesCancel, CancelTask, SkipDisabled, TakeTrigger, InsertFails
<1>2. ASSUME NEW w \in Workers, Body(w) PROVE StampedIsOver'
  <2>1. CASE Finish(w)
    BY <1>0, <2>1 DEF StampedIsOver, Syncing, Finish, Goto
  <2> QED BY <1>0, <1>2, <2>1 DEF StampedIsOver, Syncing, Body, Plan,
         Conclude, Goto, Gate, UnitSucceeds, UnitFails, UnitAborts, Panic,
         Project, Write, UpdateTask
<1>3. ASSUME NEW t \in Tasks, Helper(t) PROVE StampedIsOver'
  BY <1>0, <1>3 DEF StampedIsOver, Syncing, Helper, HelperEnds, HelperCancels,
     HelperTakesForeign, HelperPutsBack
<1>4. ASSUME Environment PROVE StampedIsOver'
  <2>1. CASE Restart
    BY <1>0, <2>1 DEF StampedIsOver, Syncing, Restart,
       RecoverStaleRunningTasks
  <2> QED BY <1>0, <1>4, <2>1 DEF StampedIsOver, Syncing, Environment,
         Trigger, Cancel, SixHoursPass, RunStaleRecovery,
         RecoverStaleRunningTasks, Stop, GoDown
<1>5. CASE UNCHANGED vars BY <1>5 DEF StampedIsOver, Syncing, vars
<1> QED BY <1>1, <1>2, <1>3, <1>4, <1>5 DEF Next

\* Two live runs have two rows.
LEMMA Disjoint == ASSUME TaskOwned PROVE RunsAreDisjoint
BY DEF TaskOwned, RunsAreDisjoint

\* What doSync knows at each label survives every step.
LEMMA RunProgressStep ==
  ASSUME TypeOK, TaskOwned, FutureIsBlank, RunProgress, [Next]_vars
  PROVE  RunProgress'
<1>0. /\ row \in [Tasks -> RowStatus]
      /\ task \in [Workers -> Tasks \cup {NoTask}]
      /\ status \in [Workers -> Final \cup {""}]
      /\ pc \in [Workers -> Syncing \cup {"idle", "exited"}]
      /\ left \in [Workers -> 0..MaxUnits]
      /\ \A v, w \in Workers :
           (pc[v] \in Syncing /\ pc[w] \in Syncing /\ task[v] = task[w]) => v = w
      /\ \A w \in Workers : pc[w] \in Syncing => task[w] \in Tasks
  <2>1. left \in [Workers -> 0..MaxUnits] BY DEF TypeOK
  <2> QED BY <2>1, Typed, LiveIds, Disjoint DEF RunsAreDisjoint
<1>1. ASSUME NEW w \in Workers, Select(w) PROVE RunProgress'
  <2>1. CASE RunExits(w)
    BY <1>0, <2>1 DEF RunProgress, Syncing, Final, RunExits, Goto
  <2>2. CASE RunTakesCancel(w)
    BY <1>0, <2>2 DEF RunProgress, Syncing, Final, RunTakesCancel, CancelTask
  <2>3. CASE SkipDisabled(w)
    BY <1>0, <2>3 DEF RunProgress, Syncing, Final, SkipDisabled, TakeTrigger
  <2>4. CASE RecordFatalTask(w)
    <3>1. Inserts(w) BY <2>4, DoSyncInserts, FatalInserts
    <3>2. \A v \in Workers : task[v] # issued + 1
      <4>1. issued \in 0..MaxTask BY DEF TypeOK
      <4>2. issued < MaxTask BY <3>1 DEF Inserts
      <4>3. \A v \in Workers : task[v] \in Tasks \cup {NoTask} BY <1>0
      <4>4. NoTask # issued + 1 BY <4>1, Bounds
      <4> QED BY <4>1, <4>2, <4>3, <4>4, NextId DEF TaskOwned
    <3> QED BY <1>0, <3>1, <3>2 DEF Inserts, RunProgress, Final, Syncing
  <2>5. CASE DoSync(w)
    <3>1. Inserts(w) BY <2>5, DoSyncInserts, FatalInserts
    <3>2. \A v \in Workers : task[v] # issued + 1
      <4>1. issued \in 0..MaxTask BY DEF TypeOK
      <4>2. issued < MaxTask BY <3>1 DEF Inserts
      <4>3. \A v \in Workers : task[v] \in Tasks \cup {NoTask} BY <1>0
      <4>4. NoTask # issued + 1 BY <4>1, Bounds
      <4> QED BY <4>1, <4>2, <4>3, <4>4, NextId DEF TaskOwned
    <3> QED BY <1>0, <3>1, <3>2 DEF Inserts, RunProgress, Final, Syncing
  <2>6. CASE InsertFails(w)
    BY <1>0, <2>6 DEF RunProgress, Syncing, Final, InsertFails, TakeTrigger
  <2> QED BY <1>1, <2>1, <2>2, <2>3, <2>4, <2>5, <2>6 DEF Select
<1>2. ASSUME NEW w \in Workers, Body(w) PROVE RunProgress'
  <2>1. CASE Plan(w)
    <3>1. ASSUME NEW n \in 0..MaxUnits, n # 0, left' = [left EXCEPT ![w] = n],
                 Goto(w, "gate"), UNCHANGED status
          PROVE  RunProgress'
      <4>1. n > 0 BY <3>1, Bounds
      <4> QED BY <1>0, <4>1, <3>1, <2>1 DEF RunProgress, Plan, Goto
    <3>2. ASSUME left' = [left EXCEPT ![w] = 0], NEW s \in Final, Conclude(w, s)
          PROVE  RunProgress'
          BY <1>0, <3>2, <2>1 DEF RunProgress, Plan, Conclude, Goto, Syncing
    <3>3. ASSUME UNCHANGED left, NEW s \in Final \ {"success"}, Conclude(w, s)
          PROVE  RunProgress'
          BY <1>0, <3>3, <2>1 DEF RunProgress, Plan, Conclude, Goto, Syncing
    <3>4. {"success", "empty", "error", "cancelled"} = Final BY DEF Final
    <3> QED BY <2>1, <3>1, <3>2, <3>3, <3>4 DEF Plan
  <2>2. CASE Gate(w)
    BY <1>0, <2>2 DEF RunProgress, Syncing, Final, Gate, Conclude, Goto
  <2>3. ASSUME NEW rows \in BOOLEAN, UnitSucceeds(w, rows) PROVE RunProgress'
    <3>1. left[w] \in 0..MaxUnits /\ left[w] > 0
          BY <1>0, <2>3 DEF UnitSucceeds, RunProgress
    <3>2. /\ left[w] > 1 => left[w] - 1 > 0
          /\ ~(left[w] > 1) => left[w] - 1 = 0
          BY <3>1, Bounds
    <3>3. /\ left' = [left EXCEPT ![w] = left[w] - 1]
          /\ UNCHANGED <<task, row, lost>>
          BY <2>3 DEF UnitSucceeds
    <3>4. CASE left[w] > 1
      <4>1. Goto(w, "gate") /\ UNCHANGED status BY <2>3, <3>4 DEF UnitSucceeds
      <4> QED BY <1>0, <3>2, <3>3, <3>4, <4>1 DEF RunProgress, Goto
    <3>5. CASE ~(left[w] > 1)
      <4>1. \E s \in Final : Conclude(w, s)
            BY <2>3, <3>5 DEF UnitSucceeds, Final
      <4> QED BY <1>0, <3>2, <3>3, <3>5, <4>1 DEF RunProgress, Conclude, Goto, Syncing
    <3> QED BY <3>4, <3>5
  <2>4. CASE UnitFails(w)
    BY <1>0, <2>4 DEF RunProgress, Syncing, Final, UnitFails, Conclude, Goto
  <2>5. CASE UnitAborts(w)
    BY <1>0, <2>5 DEF RunProgress, Syncing, Final, UnitAborts, Conclude, Goto
  <2>6. CASE Panic(w)
    BY <1>0, <2>6 DEF RunProgress, Syncing, Final, Panic, Conclude, Goto
  <2>7. CASE Project(w)
    BY <1>0, <2>7 DEF RunProgress, Syncing, Final, Project, Goto
  <2>8. CASE Write(w)
    BY <1>0, <2>8 DEF RunProgress, Syncing, Final, Write, Goto, UpdateTask
  <2>9. CASE Finish(w)
    BY <1>0, <2>9 DEF RunProgress, Syncing, Final, Finish, Goto
  <2> QED BY <1>2, <2>1, <2>2, <2>3, <2>4, <2>5, <2>6, <2>7, <2>8, <2>9 DEF Body
<1>3. ASSUME NEW t \in Tasks, Helper(t) PROVE RunProgress'
  BY <1>0, <1>3 DEF RunProgress, Syncing, Final, Helper, HelperEnds,
     HelperCancels, HelperTakesForeign, HelperPutsBack
<1>4. ASSUME Environment PROVE RunProgress'
  <2>1. CASE RunStaleRecovery
    BY <1>0, <2>1 DEF RunProgress, Syncing, Final, RunStaleRecovery,
       RecoverStaleRunningTasks
  <2>2. CASE GoDown
    BY <1>0, <2>2 DEF RunProgress, Syncing, Final, GoDown
  <2>3. CASE Restart
    BY <1>0, <2>3 DEF RunProgress, Syncing, Final, Restart,
       RecoverStaleRunningTasks
  <2> QED BY <1>0, <1>4, <2>1, <2>2, <2>3 DEF RunProgress, Syncing, Final,
         Environment, Trigger, Cancel, SixHoursPass, Stop
<1>5. CASE UNCHANGED vars BY <1>5 DEF RunProgress, Syncing, Final, vars
<1> QED BY <1>1, <1>2, <1>3, <1>4, <1>5 DEF Next

\* No step leaves a running row without a live run.
LEMMA RunningIsOwnedStep ==
  ASSUME TypeOK, TaskOwned, FutureIsBlank, RunProgress, RunningIsOwned, [Next]_vars
  PROVE  RunningIsOwned'
<1>0. /\ row \in [Tasks -> RowStatus]
      /\ pc \in [Workers -> Syncing \cup {"idle", "exited"}]
      BY Typed
<1>00. \A t \in Tasks : row[t] = "running" => owner[t] \in Workers
  <2>1. \A t \in Tasks : t <= issued \/ t > issued BY Ids DEF TypeOK
  <2> QED BY <2>1 DEF FutureIsBlank
<1>1. ASSUME NEW w \in Workers, Select(w) PROVE RunningIsOwned'
  <2>1. CASE RunExits(w)
    BY <1>0, <2>1 DEF RunningIsOwned, Syncing, RunExits, Goto
  <2>2. CASE RunTakesCancel(w)
    BY <1>0, <2>2 DEF RunningIsOwned, Syncing, RunTakesCancel, CancelTask
  <2>3. CASE RecordFatalTask(w)
    <3>1. Inserts(w) BY <2>3, DoSyncInserts, FatalInserts
    <3>0. issued + 1 \in Tasks /\ up
          BY <3>1, <2>3, Typed DEF Inserts, DoSync, RecordFatalTask, TakeTrigger
    <3>2. \A v \in Workers : task[v] # issued + 1
      <4>1. issued \in 0..MaxTask BY DEF TypeOK
      <4>2. issued < MaxTask BY <3>1 DEF Inserts
      <4>3. \A v \in Workers : task[v] \in Tasks \cup {NoTask} BY Typed
      <4>4. NoTask # issued + 1 BY <4>1, Bounds
      <4> QED BY <4>1, <4>2, <4>3, <4>4, NextId DEF TaskOwned
    <3>3. /\ task \in [Workers -> Tasks \cup {NoTask}]
          /\ owner \in [Tasks -> Workers \cup {Nobody}]
          BY Typed
    <3>4. ASSUME NEW t \in Tasks, row'[t] = "running", t \notin lost'
          PROVE  /\ up' /\ task'[owner'[t]] = t
                 /\ pc'[owner'[t]] \in Syncing \ {"finish"}
      <4>1. CASE t = issued + 1
            BY <1>0, <3>0, <3>1, <3>3, <4>1 DEF Inserts, Syncing
      <4>2. CASE t # issued + 1
        <5>1. row[t] = "running" /\ t \notin lost /\ owner'[t] = owner[t]
              BY <1>0, <3>1, <3>3, <3>4, <4>2 DEF Inserts
        <5>2. /\ owner[t] \in Workers /\ task[owner[t]] = t
              /\ pc[owner[t]] \in Syncing \ {"finish"}
              BY <1>00, <5>1 DEF RunningIsOwned
        <5>3. owner[t] # w BY <3>1, <5>2 DEF Inserts, Syncing
        <5> QED BY <1>0, <3>0, <3>1, <3>3, <5>1, <5>2, <5>3 DEF Inserts
      <4> QED BY <4>1, <4>2
    <3> QED BY <3>4 DEF RunningIsOwned
  <2>4. CASE DoSync(w)
    <3>1. Inserts(w) BY <2>4, DoSyncInserts, FatalInserts
    <3>0. issued + 1 \in Tasks /\ up
          BY <3>1, <2>4, Typed DEF Inserts, DoSync, RecordFatalTask, TakeTrigger
    <3>2. \A v \in Workers : task[v] # issued + 1
      <4>1. issued \in 0..MaxTask BY DEF TypeOK
      <4>2. issued < MaxTask BY <3>1 DEF Inserts
      <4>3. \A v \in Workers : task[v] \in Tasks \cup {NoTask} BY Typed
      <4>4. NoTask # issued + 1 BY <4>1, Bounds
      <4> QED BY <4>1, <4>2, <4>3, <4>4, NextId DEF TaskOwned
    <3>3. /\ task \in [Workers -> Tasks \cup {NoTask}]
          /\ owner \in [Tasks -> Workers \cup {Nobody}]
          BY Typed
    <3>4. ASSUME NEW t \in Tasks, row'[t] = "running", t \notin lost'
          PROVE  /\ up' /\ task'[owner'[t]] = t
                 /\ pc'[owner'[t]] \in Syncing \ {"finish"}
      <4>1. CASE t = issued + 1
            BY <1>0, <3>0, <3>1, <3>3, <4>1 DEF Inserts, Syncing
      <4>2. CASE t # issued + 1
        <5>1. row[t] = "running" /\ t \notin lost /\ owner'[t] = owner[t]
              BY <1>0, <3>1, <3>3, <3>4, <4>2 DEF Inserts
        <5>2. /\ owner[t] \in Workers /\ task[owner[t]] = t
              /\ pc[owner[t]] \in Syncing \ {"finish"}
              BY <1>00, <5>1 DEF RunningIsOwned
        <5>3. owner[t] # w BY <3>1, <5>2 DEF Inserts, Syncing
        <5> QED BY <1>0, <3>0, <3>1, <3>3, <5>1, <5>2, <5>3 DEF Inserts
      <4> QED BY <4>1, <4>2
    <3> QED BY <3>4 DEF RunningIsOwned
  <2> QED BY <1>0, <1>1, <2>1, <2>2, <2>3, <2>4 DEF RunningIsOwned, Syncing,
         Select, SkipDisabled, TakeTrigger, InsertFails
<1>2. ASSUME NEW w \in Workers, Body(w) PROVE RunningIsOwned'
  <2>1. CASE Plan(w)
    <3>1. /\ UNCHANGED <<up, row, owner, task, lost>>
          /\ pc[w] \in Syncing \ {"finish"}
          /\ \E l \in Syncing \ {"finish"} : pc' = [pc EXCEPT ![w] = l]
          BY <2>1 DEF Plan, Conclude, Goto, Syncing
    <3> QED BY <1>0, <3>1 DEF RunningIsOwned
  <2>2. CASE Gate(w)
    <3>1. /\ UNCHANGED <<up, row, owner, task, lost>>
          /\ pc[w] \in Syncing \ {"finish"}
          /\ \E l \in Syncing \ {"finish"} : pc' = [pc EXCEPT ![w] = l]
          BY <2>2 DEF Gate, Conclude, Goto, Syncing
    <3> QED BY <1>0, <3>1 DEF RunningIsOwned
  <2>3. ASSUME NEW rows \in BOOLEAN, UnitSucceeds(w, rows) PROVE RunningIsOwned'
    <3>1. /\ UNCHANGED <<up, row, owner, task, lost>>
          /\ pc[w] \in Syncing \ {"finish"}
          /\ \E l \in Syncing \ {"finish"} : pc' = [pc EXCEPT ![w] = l]
          BY <2>3 DEF UnitSucceeds, Conclude, Goto, Syncing
    <3> QED BY <1>0, <3>1 DEF RunningIsOwned
  <2>4. CASE UnitFails(w)
    BY <1>0, <2>4 DEF RunningIsOwned, Syncing, UnitFails, Conclude, Goto
  <2>5. CASE UnitAborts(w)
    BY <1>0, <2>5 DEF RunningIsOwned, Syncing, UnitAborts, Conclude, Goto
  <2>6. CASE Panic(w)
    BY <1>0, <2>6 DEF RunningIsOwned, Syncing, Panic, Conclude, Goto
  <2>7. CASE Project(w)
    BY <1>0, <2>7 DEF RunningIsOwned, Syncing, Project, Goto
  <2>8. CASE Write(w)
    <3>1. /\ task[w] \in Tasks /\ status[w] # "running" /\ pc[w] = "write"
          BY <2>8, LiveIds DEF Write, RunProgress, Final, Syncing
    <3>2. \/ row' = [row EXCEPT ![task[w]] = status[w]] /\ lost' = lost
          \/ row' = row /\ lost' = lost \cup {task[w]}
          BY <2>8 DEF Write, UpdateTask
    <3>3. \A t \in Tasks : (row'[t] = "running" /\ t \notin lost') =>
            row[t] = "running" /\ t \notin lost /\ t # task[w]
          BY <1>0, <3>1, <3>2
    <3>4. /\ UNCHANGED <<up, owner, task>>
          /\ pc' = [pc EXCEPT ![w] = "finish"]
          BY <2>8 DEF Write, Goto
    <3> QED BY <1>0, <3>3, <3>4 DEF RunningIsOwned
  <2>9. CASE Finish(w)
    <3>1. UNCHANGED <<up, row, owner, task, lost>> BY <2>9 DEF Finish
    <3>2. pc[w] = "finish" /\ pc' = [pc EXCEPT ![w] = "idle"]
          BY <2>9 DEF Finish, Goto
    <3> QED BY <1>0, <3>1, <3>2 DEF RunningIsOwned
  <2> QED BY <1>2, <2>1, <2>2, <2>3, <2>4, <2>5, <2>6, <2>7, <2>8, <2>9 DEF Body
<1>3. ASSUME NEW t \in Tasks, Helper(t) PROVE RunningIsOwned'
  BY <1>0, <1>3 DEF RunningIsOwned, Syncing, Helper, HelperEnds,
     HelperCancels, HelperTakesForeign, HelperPutsBack
<1>4. ASSUME Environment PROVE RunningIsOwned'
  <2>1. CASE RunStaleRecovery
    BY <1>0, <2>1 DEF RunningIsOwned, Syncing, RunStaleRecovery,
       RecoverStaleRunningTasks
  <2>2. CASE GoDown
    <3>1. UNCHANGED <<row, owner, task, pc>> BY <2>2 DEF GoDown
    <3>2. \A w \in Workers : pc[w] \in Syncing \ {"finish"} => task[w] \in lost'
          BY <2>2 DEF GoDown
    <3>3. lost \subseteq lost' BY <2>2 DEF GoDown
    <3>4. \A t \in Tasks : (row[t] = "running" /\ t \notin lost) => t \in lost'
          BY <1>00, <3>2 DEF RunningIsOwned
    <3> QED BY <3>1, <3>3, <3>4 DEF RunningIsOwned
  <2>3. CASE Restart
    BY <1>0, <2>3 DEF RunningIsOwned, Syncing, Restart,
       RecoverStaleRunningTasks
  <2> QED BY <1>0, <1>4, <2>1, <2>2, <2>3 DEF RunningIsOwned, Syncing,
         Environment, Trigger, Cancel, SixHoursPass, Stop
<1>5. CASE UNCHANGED vars BY <1>5 DEF RunningIsOwned, Syncing, vars
<1> QED BY <1>1, <1>2, <1>3, <1>4, <1>5 DEF Next

\* Only a request for the live run cancels its context.
LEMMA CancelHitsStep ==
  ASSUME TypeOK, TaskOwned, FutureIsBlank, FlightAsked, RunProgress, CancelHitsOnlyItsTarget, [Next]_vars
  PROVE  CancelHitsOnlyItsTarget'
<1>0. /\ pc \in [Workers -> Syncing \cup {"idle", "exited"}]
      /\ task \in [Workers -> Tasks \cup {NoTask}]
      /\ \A v, w \in Workers :
           (pc[v] \in Syncing /\ pc[w] \in Syncing /\ task[v] = task[w]) => v = w
      BY Typed, Disjoint DEF RunsAreDisjoint
<1>1. ASSUME NEW w \in Workers, Select(w) PROVE CancelHitsOnlyItsTarget'
  <2>1. CASE RunExits(w)
    BY <1>0, <2>1 DEF CancelHitsOnlyItsTarget, Syncing, RunExits, Goto
  <2>2. CASE RunTakesCancel(w)
    BY <1>0, <2>2 DEF CancelHitsOnlyItsTarget, Syncing, RunTakesCancel,
       CancelTask
  <2>3. CASE RecordFatalTask(w)
    <3>1. Inserts(w) BY <2>3, DoSyncInserts, FatalInserts
    <3>2. issued + 1 \notin cancelledCtx
      <4>1. issued < MaxTask BY <3>1 DEF Inserts
      <4>2. issued + 1 \in Tasks /\ issued + 1 > issued BY <4>1, Ids DEF TypeOK
      <4> QED BY <4>2 DEF FutureIsBlank
    <3>3. \A v \in Workers : v # w =>
            pc'[v] = pc[v] /\ task'[v] = task[v] /\ (v \in asked <=> v \in asked')
          BY <1>0, <3>1 DEF Inserts
    <3>4. task'[w] = issued + 1 /\ cancelledCtx' = cancelledCtx
          BY <1>0, <3>1 DEF Inserts
    <3> QED BY <3>2, <3>3, <3>4 DEF CancelHitsOnlyItsTarget
  <2>4. CASE DoSync(w)
    <3>1. Inserts(w) BY <2>4, DoSyncInserts, FatalInserts
    <3>2. issued + 1 \notin cancelledCtx
      <4>1. issued < MaxTask BY <3>1 DEF Inserts
      <4>2. issued + 1 \in Tasks /\ issued + 1 > issued BY <4>1, Ids DEF TypeOK
      <4> QED BY <4>2 DEF FutureIsBlank
    <3>3. \A v \in Workers : v # w =>
            pc'[v] = pc[v] /\ task'[v] = task[v] /\ (v \in asked <=> v \in asked')
          BY <1>0, <3>1 DEF Inserts
    <3>4. task'[w] = issued + 1 /\ cancelledCtx' = cancelledCtx
          BY <1>0, <3>1 DEF Inserts
    <3> QED BY <3>2, <3>3, <3>4 DEF CancelHitsOnlyItsTarget
  <2> QED BY <1>0, <1>1, <2>1, <2>2, <2>3, <2>4 DEF CancelHitsOnlyItsTarget,
         Syncing, Select, SkipDisabled, TakeTrigger, InsertFails
<1>2. ASSUME NEW w \in Workers, Body(w) PROVE CancelHitsOnlyItsTarget'
  <2>1. CASE Plan(w)
    BY <1>0, <2>1 DEF CancelHitsOnlyItsTarget, Syncing, Plan, Conclude, Goto
  <2>2. CASE Gate(w)
    BY <1>0, <2>2 DEF CancelHitsOnlyItsTarget, Syncing, Gate, Conclude, Goto
  <2>3. ASSUME NEW rows \in BOOLEAN, UnitSucceeds(w, rows) PROVE CancelHitsOnlyItsTarget'
    BY <1>0, <2>3 DEF CancelHitsOnlyItsTarget, Syncing, UnitSucceeds,
       Conclude, Goto
  <2>4. CASE UnitFails(w)
    BY <1>0, <2>4 DEF CancelHitsOnlyItsTarget, Syncing, UnitFails, Conclude,
       Goto
  <2>5. CASE UnitAborts(w)
    BY <1>0, <2>5 DEF CancelHitsOnlyItsTarget, Syncing, UnitAborts, Conclude,
       Goto
  <2>6. CASE Panic(w)
    BY <1>0, <2>6 DEF CancelHitsOnlyItsTarget, Syncing, Panic, Conclude, Goto
  <2>7. CASE Project(w)
    BY <1>0, <2>7 DEF CancelHitsOnlyItsTarget, Syncing, Project, Goto
  <2>8. CASE Write(w)
    BY <1>0, <2>8 DEF CancelHitsOnlyItsTarget, Syncing, Write, Goto,
       UpdateTask
  <2>9. CASE Finish(w)
    BY <1>0, <2>9 DEF CancelHitsOnlyItsTarget, Syncing, Finish, Goto
  <2> QED BY <1>2, <2>1, <2>2, <2>3, <2>4, <2>5, <2>6, <2>7, <2>8, <2>9 DEF Body
<1>3. ASSUME NEW t \in Tasks, Helper(t) PROVE CancelHitsOnlyItsTarget'
  <2>1. CASE HelperCancels(t)
    <3>1. /\ UNCHANGED <<pc, task, asked>>
          /\ cancelledCtx' = cancelledCtx \cup {t}
          /\ cancelCh[owner[t]] = t /\ helper[t] # "none"
          BY <2>1 DEF HelperCancels
    <3>2. owner[t] \in Workers BY <3>1, LiveIds
    <3>3. ASSUME NEW w \in Workers, pc[w] \in Syncing, task[w] = t PROVE w \in asked
      <4>1. owner[t] = w BY <3>3 DEF TaskOwned
      <4> QED BY <3>1, <3>3, <4>1 DEF FlightAsked
    <3> QED BY <3>1, <3>3 DEF CancelHitsOnlyItsTarget, Syncing
  <2> QED BY <1>0, <1>3, <2>1 DEF CancelHitsOnlyItsTarget, Syncing, Helper,
         HelperEnds, HelperTakesForeign, HelperPutsBack
<1>4. ASSUME Environment PROVE CancelHitsOnlyItsTarget'
  <2>1. CASE Restart
    BY <1>0, <2>1 DEF CancelHitsOnlyItsTarget, Syncing, Restart,
       RecoverStaleRunningTasks
  <2> QED BY <1>0, <1>4, <2>1 DEF CancelHitsOnlyItsTarget, Syncing,
         Environment, Trigger, Cancel, SixHoursPass, RunStaleRecovery,
         RecoverStaleRunningTasks, Stop, GoDown
<1>5. CASE UNCHANGED vars BY <1>5 DEF CancelHitsOnlyItsTarget, Syncing, vars
<1> QED BY <1>1, <1>2, <1>3, <1>4, <1>5 DEF Next

\* A stamped row keeps saying success.
LEMMA StampMeansSuccessStep ==
  ASSUME TypeOK, TaskOwned, FutureIsBlank, RunProgress, StampedIsOver, StampMeansSuccess, [Next]_vars
  PROVE  StampMeansSuccess'
<1>0. /\ row \in [Tasks -> RowStatus] /\ stamped \subseteq Tasks
      /\ \A w \in Workers : pc[w] \in Syncing => task[w] \in Tasks
      BY Typed, LiveIds
<1>1. ASSUME NEW w \in Workers, Select(w) PROVE StampMeansSuccess'
  <2>1. CASE RunTakesCancel(w)
    BY <1>0, <2>1 DEF StampMeansSuccess, RunTakesCancel, CancelTask
  <2>2. CASE RecordFatalTask(w)
    <3>1. Inserts(w) BY <2>2, DoSyncInserts, FatalInserts
    <3>2. row[issued + 1] = "absent" /\ issued + 1 \notin stamped
      <4>1. issued < MaxTask BY <3>1 DEF Inserts
      <4>2. issued + 1 \in Tasks /\ issued + 1 > issued BY <4>1, Ids DEF TypeOK
      <4> QED BY <4>2 DEF FutureIsBlank
    <3>3. /\ \A t \in Tasks : t # issued + 1 => row'[t] = row[t]
          /\ UNCHANGED <<stamped, lost>>
          BY <1>0, <3>1 DEF Inserts
    <3> QED BY <3>2, <3>3 DEF StampMeansSuccess
  <2>3. CASE DoSync(w)
    <3>1. Inserts(w) BY <2>3, DoSyncInserts, FatalInserts
    <3>2. row[issued + 1] = "absent" /\ issued + 1 \notin stamped
      <4>1. issued < MaxTask BY <3>1 DEF Inserts
      <4>2. issued + 1 \in Tasks /\ issued + 1 > issued BY <4>1, Ids DEF TypeOK
      <4> QED BY <4>2 DEF FutureIsBlank
    <3>3. /\ \A t \in Tasks : t # issued + 1 => row'[t] = row[t]
          /\ UNCHANGED <<stamped, lost>>
          BY <1>0, <3>1 DEF Inserts
    <3> QED BY <3>2, <3>3 DEF StampMeansSuccess
  <2> QED BY <1>0, <1>1, <2>1, <2>2, <2>3 DEF StampMeansSuccess, Select,
         RunExits, Goto, SkipDisabled, TakeTrigger, InsertFails
<1>2. ASSUME NEW w \in Workers, Body(w) PROVE StampMeansSuccess'
  <2>1. CASE Write(w)
    <3>1. /\ stamped' = stamped /\ lost \subseteq lost'
          /\ task[w] \notin stamped
          /\ \A t \in Tasks : t # task[w] => row'[t] = row[t]
          BY <1>0, <2>1 DEF Write, UpdateTask, StampedIsOver, Syncing
    <3> QED BY <1>0, <3>1 DEF StampMeansSuccess
  <2>2. CASE Finish(w)
    <3>1. /\ UNCHANGED <<row, lost>>
          /\ \/ stamped' = stamped
             \/ status[w] = "success" /\ stamped' = stamped \cup {task[w]}
          /\ pc[w] = "finish"
          BY <2>2 DEF Finish
    <3> QED BY <1>0, <3>1 DEF StampMeansSuccess, RunProgress
  <2> QED BY <1>0, <1>2, <2>1, <2>2 DEF StampMeansSuccess, Body, Plan,
         Conclude, Goto, Gate, UnitSucceeds, UnitFails, UnitAborts, Panic,
         Project
<1>3. ASSUME NEW t \in Tasks, Helper(t) PROVE StampMeansSuccess'
  BY <1>0, <1>3 DEF StampMeansSuccess, Helper, HelperEnds, HelperCancels,
     HelperTakesForeign, HelperPutsBack
<1>4. ASSUME Environment PROVE StampMeansSuccess'
  <2>1. CASE RunStaleRecovery
    BY <1>0, <2>1 DEF StampMeansSuccess, RunStaleRecovery,
       RecoverStaleRunningTasks
  <2>2. CASE GoDown
    BY <1>0, <2>2 DEF StampMeansSuccess, GoDown
  <2>3. CASE Restart
    BY <1>0, <2>3 DEF StampMeansSuccess, Restart, RecoverStaleRunningTasks
  <2> QED BY <1>0, <1>4, <2>1, <2>2, <2>3 DEF StampMeansSuccess, Environment,
         Trigger, Cancel, SixHoursPass, Stop
<1>5. CASE UNCHANGED vars BY <1>5 DEF StampMeansSuccess, vars
<1> QED BY <1>1, <1>2, <1>3, <1>4, <1>5 DEF Next

\* The row a success was read from does not change.
LEMMA SnapshotAgreesStep ==
  ASSUME TypeOK, TaskOwned, FutureIsBlank, RunProgress, SnapshotHasTask, SnapshotAgreesWithRow, [Next]_vars
  PROVE  SnapshotAgreesWithRow'
<1>0. /\ row \in [Tasks -> RowStatus]
      /\ pc \in [Workers -> Syncing \cup {"idle", "exited"}]
      /\ task \in [Workers -> Tasks \cup {NoTask}]
      /\ lastStatus \in [Workers -> Final \cup {""}]
      /\ \A w \in Workers : pc[w] \in Syncing => task[w] \in Tasks
      BY Typed, LiveIds
<1>00. \A w \in Workers : lastStatus[w] = "success" => task[w] \in Tasks
       BY <1>0 DEF SnapshotHasTask
<1>1. ASSUME NEW w \in Workers, Select(w) PROVE SnapshotAgreesWithRow'
  <2>1. CASE RunExits(w)
    BY <1>0, <1>00, <2>1 DEF SnapshotAgreesWithRow, Syncing, RunExits, Goto
  <2>2. CASE RunTakesCancel(w)
    BY <1>0, <1>00, <2>2 DEF SnapshotAgreesWithRow, Syncing, RunTakesCancel,
       CancelTask
  <2>3. CASE RecordFatalTask(w)
    <3>1. Inserts(w) BY <2>3, DoSyncInserts, FatalInserts
    <3>2. row[issued + 1] = "absent" /\ issued + 1 \notin stamped
      <4>1. issued < MaxTask BY <3>1 DEF Inserts
      <4>2. issued + 1 \in Tasks /\ issued + 1 > issued BY <4>1, Ids DEF TypeOK
      <4> QED BY <4>2 DEF FutureIsBlank
    <3>3. /\ \A t \in Tasks : t # issued + 1 => row'[t] = row[t]
          /\ UNCHANGED <<up, lost>>
          /\ pc'[w] # "idle"
          /\ \A v \in Workers : v # w => task'[v] = task[v] /\ pc'[v] = pc[v]
          BY <1>0, <3>1 DEF Inserts
    <3>4. lastStatus'[w] # "success" \/ lastStatus' = lastStatus
          BY <1>0, <2>3 DEF DoSync, RecordFatalTask
    <3>5. \A v \in Workers : v # w => lastStatus'[v] = lastStatus[v]
          BY <1>0, <2>3 DEF DoSync, RecordFatalTask
    <3> QED BY <1>00, <3>2, <3>3, <3>4, <3>5 DEF SnapshotAgreesWithRow
  <2>4. CASE DoSync(w)
    <3>1. Inserts(w) BY <2>4, DoSyncInserts, FatalInserts
    <3>2. row[issued + 1] = "absent" /\ issued + 1 \notin stamped
      <4>1. issued < MaxTask BY <3>1 DEF Inserts
      <4>2. issued + 1 \in Tasks /\ issued + 1 > issued BY <4>1, Ids DEF TypeOK
      <4> QED BY <4>2 DEF FutureIsBlank
    <3>3. /\ \A t \in Tasks : t # issued + 1 => row'[t] = row[t]
          /\ UNCHANGED <<up, lost>>
          /\ pc'[w] # "idle"
          /\ \A v \in Workers : v # w => task'[v] = task[v] /\ pc'[v] = pc[v]
          BY <1>0, <3>1 DEF Inserts
    <3>4. lastStatus'[w] # "success" \/ lastStatus' = lastStatus
          BY <1>0, <2>4 DEF DoSync, RecordFatalTask
    <3>5. \A v \in Workers : v # w => lastStatus'[v] = lastStatus[v]
          BY <1>0, <2>4 DEF DoSync, RecordFatalTask
    <3> QED BY <1>00, <3>2, <3>3, <3>4, <3>5 DEF SnapshotAgreesWithRow
  <2>5. CASE InsertFails(w)
    BY <1>0, <1>00, <2>5 DEF SnapshotAgreesWithRow, Syncing, InsertFails,
       TakeTrigger
  <2> QED BY <1>0, <1>00, <1>1, <2>1, <2>2, <2>3, <2>4, <2>5 DEF
         SnapshotAgreesWithRow, Syncing, Select, SkipDisabled, TakeTrigger
<1>2. ASSUME NEW w \in Workers, Body(w) PROVE SnapshotAgreesWithRow'
  <2>1. CASE Plan(w)
    BY <1>0, <1>00, <2>1 DEF SnapshotAgreesWithRow, Syncing, Plan, Conclude,
       Goto
  <2>2. CASE Gate(w)
    BY <1>0, <1>00, <2>2 DEF SnapshotAgreesWithRow, Syncing, Gate, Conclude,
       Goto
  <2>3. ASSUME NEW rows \in BOOLEAN, UnitSucceeds(w, rows) PROVE SnapshotAgreesWithRow'
    BY <1>0, <1>00, <2>3 DEF SnapshotAgreesWithRow, Syncing, UnitSucceeds,
       Conclude, Goto
  <2>4. CASE UnitFails(w)
    BY <1>0, <1>00, <2>4 DEF SnapshotAgreesWithRow, Syncing, UnitFails,
       Conclude, Goto
  <2>5. CASE UnitAborts(w)
    BY <1>0, <1>00, <2>5 DEF SnapshotAgreesWithRow, Syncing, UnitAborts,
       Conclude, Goto
  <2>6. CASE Panic(w)
    BY <1>0, <1>00, <2>6 DEF SnapshotAgreesWithRow, Syncing, Panic, Conclude,
       Goto
  <2>7. CASE Project(w)
    BY <1>0, <1>00, <2>7 DEF SnapshotAgreesWithRow, Syncing, Project, Goto
  <2>8. CASE Write(w)
    <3>1. /\ UNCHANGED <<up, task, lastStatus>> /\ lost \subseteq lost'
          /\ pc[w] = "write" /\ pc' = [pc EXCEPT ![w] = "finish"]
          /\ task[w] \in Tasks
          /\ \A t \in Tasks : t # task[w] => row'[t] = row[t]
          BY <1>0, <2>8 DEF Write, UpdateTask, Goto, Syncing
    <3>2. ASSUME NEW v \in Workers, pc'[v] = "idle", lastStatus[v] = "success"
          PROVE  task[v] \in Tasks /\ task[v] # task[w] /\ pc[v] = "idle"
      <4>1. v # w /\ pc[v] = "idle" BY <1>0, <3>1, <3>2
      <4>2. owner[task[v]] = v /\ owner[task[w]] = w
            BY <1>00, <3>1, <3>2 DEF TaskOwned, SnapshotHasTask, Syncing
      <4> QED BY <1>00, <3>2, <4>1, <4>2
    <3> QED BY <3>1, <3>2 DEF SnapshotAgreesWithRow
  <2>9. CASE Finish(w)
    <3>1. /\ UNCHANGED <<up, row, lost, task>>
          /\ lastStatus' = [lastStatus EXCEPT ![w] = status[w]]
          /\ pc[w] = "finish" /\ pc' = [pc EXCEPT ![w] = "idle"]
          BY <2>9 DEF Finish, Goto
    <3> QED BY <1>0, <3>1 DEF SnapshotAgreesWithRow, RunProgress
  <2> QED BY <1>2, <2>1, <2>2, <2>3, <2>4, <2>5, <2>6, <2>7, <2>8, <2>9 DEF Body
<1>3. ASSUME NEW t \in Tasks, Helper(t) PROVE SnapshotAgreesWithRow'
  BY <1>0, <1>00, <1>3 DEF SnapshotAgreesWithRow, Syncing, Helper, HelperEnds,
     HelperCancels, HelperTakesForeign, HelperPutsBack
<1>4. ASSUME Environment PROVE SnapshotAgreesWithRow'
  <2>1. CASE RunStaleRecovery
    BY <1>0, <1>00, <2>1 DEF SnapshotAgreesWithRow, Syncing, RunStaleRecovery,
       RecoverStaleRunningTasks
  <2>2. CASE GoDown
    BY <1>0, <1>00, <2>2 DEF SnapshotAgreesWithRow, Syncing, GoDown
  <2>3. CASE Restart
    BY <1>0, <1>00, <2>3 DEF SnapshotAgreesWithRow, Syncing, Restart,
       RecoverStaleRunningTasks
  <2> QED BY <1>0, <1>00, <1>4, <2>1, <2>2, <2>3 DEF SnapshotAgreesWithRow,
         Syncing, Environment, Trigger, Cancel, SixHoursPass, Stop
<1>5. CASE UNCHANGED vars BY <1>5 DEF SnapshotAgreesWithRow, Syncing, vars
<1> QED BY <1>1, <1>2, <1>3, <1>4, <1>5 DEF Next

-----------------------------------------------------------------------------
(* The inductive invariant and what it gives *)

\* The process starts inside the invariant.
LEMMA InitIInv == ASSUME Init PROVE IInv
<1>a. /\ 0 \in 0..MaxCrash /\ 0 \in 0..MaxTask /\ 0 \in 0..MaxUnits
      /\ \A t \in Tasks : ~(t <= 0)
      BY Bounds DEF Tasks
<1>2. FlightIssued /\ TaskOwned
  <2>1. /\ \A w \in Workers : cancelCh[w] = 0 /\ task[w] = 0 /\ pc[w] = "idle"
        /\ \A t \in Tasks : carried[t] = 0
        /\ issued = 0
        BY DEF Init
  <2> QED BY <2>1 DEF FlightIssued, TaskOwned, Syncing
<1> USE DEF Init
<1>1. TypeOK
  <2>1. StoreSource \subseteq Workers BY WorkerAssumption DEF WorkerAssumption
  <2>3. left \in [Workers -> 0..MaxUnits] BY <1>a
  <2>4. /\ cancelCh \in [Workers -> Tasks \cup {NoTask}]
        /\ pc \in [Workers -> Syncing \cup {"idle", "exited"}]
        /\ task \in [Workers -> Tasks \cup {NoTask}]
        OBVIOUS
  <2>5. /\ status \in [Workers -> Final \cup {""}]
        /\ lastStatus \in [Workers -> Final \cup {""}]
        OBVIOUS
  <2>6. /\ helper \in [Tasks -> {"none", "listening", "carrying", "gone"}]
        /\ carried \in [Tasks -> Tasks \cup {NoTask}]
        /\ row \in [Tasks -> RowStatus]
        /\ owner \in [Tasks -> Workers \cup {Nobody}]
        BY DEF RowStatus
  <2> QED BY <1>a, <2>1, <2>3, <2>4, <2>5, <2>6 DEF TypeOK
<1>3. FutureIsBlank BY <1>a DEF FutureIsBlank
<1>4. FlightAsked /\ RunProgress BY DEF FlightAsked, RunProgress, Syncing
<1>5. StampedIsOver /\ SnapshotHasTask BY DEF StampedIsOver, SnapshotHasTask
<1>6. RunningIsOwned BY DEF RunningIsOwned
<1>7. CancelHitsOnlyItsTarget /\ StampMeansSuccess
      BY DEF CancelHitsOnlyItsTarget, StampMeansSuccess
<1>8. SnapshotAgreesWithRow BY DEF SnapshotAgreesWithRow
<1> QED BY <1>1, <1>2, <1>3, <1>4, <1>5, <1>6, <1>7, <1>8 DEF IInv

\* Every step stays inside it.
LEMMA StepIInv == ASSUME IInv, [Next]_vars PROVE IInv'
<1> USE DEF IInv
<1>1. TypeOK' BY TypeStep
<1>2. FlightIssued' BY FlightIssuedStep
<1>3. TaskOwned' BY TaskOwnedStep
<1>4. FutureIsBlank' BY FutureIsBlankStep
<1>5. FlightAsked' BY FlightAskedStep
<1>6. RunProgress' BY RunProgressStep
<1>7. StampedIsOver' BY StampedIsOverStep
<1>8. SnapshotHasTask' BY SnapshotHasTaskStep
<1>9. RunningIsOwned' BY RunningIsOwnedStep
<1>10. CancelHitsOnlyItsTarget' BY CancelHitsStep
<1>11. StampMeansSuccess' BY StampMeansSuccessStep
<1>12. SnapshotAgreesWithRow' BY SnapshotAgreesStep
<1> QED BY <1>1, <1>2, <1>3, <1>4, <1>5, <1>6, <1>7, <1>8, <1>9, <1>10,
           <1>11, <1>12

\* The invariant holds in every reachable state.
THEOREM Invariance == Spec => []IInv
BY InitIInv, StepIInv, PTL DEF Spec

\* Every variable keeps its type.
THEOREM TypeCorrect == Spec => []TypeOK
<1>1. IInv => TypeOK BY DEF IInv
<1> QED BY <1>1, Invariance, PTL

\* No return of doSync leaves its row 'running', whatever interleaves with it.
THEOREM RowsOfLiveRuns == Spec => []RunningRowIsLive
<1>1. IInv => RunningRowIsLive
  <2> SUFFICES ASSUME IInv, NEW t \in Tasks, row[t] = "running", t \notin lost
               PROVE  up /\ \E w \in Workers :
                        task[w] = t /\ pc[w] \in Syncing \ {"finish"}
      BY DEF RunningRowIsLive
  <2>1. t <= issued \/ t > issued BY Ids DEF IInv, TypeOK
  <2>2. owner[t] \in Workers BY <2>1 DEF IInv, FutureIsBlank
  <2>3. up /\ task[owner[t]] = t /\ pc[owner[t]] \in Syncing \ {"finish"}
        BY DEF IInv, RunningIsOwned
  <2> QED BY <2>2, <2>3
<1> QED BY <1>1, Invariance, PTL

\* A stale or misdirected cancel request never stops a run.
THEOREM CancelIsPrecise == Spec => []CancelHitsOnlyItsTarget
<1>1. IInv => CancelHitsOnlyItsTarget BY DEF IInv
<1> QED BY <1>1, Invariance, PTL

\* Stores are stamped only for runs that succeeded.
THEOREM StampIsEarned == Spec => []StampMeansSuccess
<1>1. IInv => StampMeansSuccess BY DEF IInv
<1> QED BY <1>1, Invariance, PTL

\* The snapshot of an idle worker and its row agree on success.
THEOREM SnapshotIsTrue == Spec => []SnapshotAgreesWithRow
<1>1. IInv => SnapshotAgreesWithRow BY DEF IInv
<1> QED BY <1>1, Invariance, PTL

-----------------------------------------------------------------------------
(* What a step never does *)

\* Only a run without a unit left publishes.
CompletePublish ==
  \A t \in Tasks :
    \/ row'[t] = "success" /\ row[t] # "success"
    \/ t \in (projected' \cup stamped') \ (projected \cup stamped)
    => \E w \in Workers : task[w] = t /\ left[w] = 0

\* No step publishes an incomplete run.
LEMMA CompletePublishStep ==
  ASSUME IInv, [Next]_vars
  PROVE  CompletePublish
<1>0. /\ row \in [Tasks -> RowStatus]
      /\ \A w \in Workers : pc[w] \in Syncing => task[w] \in Tasks
      BY Typed, LiveIds DEF IInv
<1>00. RunProgress BY DEF IInv
<1>1. ASSUME NEW w \in Workers, Select(w) PROVE CompletePublish
  <2>1. CASE RunTakesCancel(w)
    BY <1>0, <2>1 DEF CompletePublish, RunTakesCancel, CancelTask
  <2>2. CASE RecordFatalTask(w)
    <3>1. /\ projected' = projected
          /\ row' = [row EXCEPT ![issued + 1] = "running"]
          /\ stamped' = stamped
          BY <2>2 DEF DoSync, RecordFatalTask, InsertTask
    <3> QED BY <1>0, <3>1 DEF CompletePublish
  <2>3. CASE DoSync(w)
    <3>1. /\ projected' = projected
          /\ row' = [row EXCEPT ![issued + 1] = "running"]
          /\ stamped' = stamped
          BY <2>3 DEF DoSync, RecordFatalTask, InsertTask
    <3> QED BY <1>0, <3>1 DEF CompletePublish
  <2> QED BY <1>0, <1>1, <2>1, <2>2, <2>3 DEF CompletePublish, Select,
         RunExits, Goto, SkipDisabled, TakeTrigger, InsertFails
<1>2. ASSUME NEW w \in Workers, Body(w) PROVE CompletePublish
  <2>1. CASE Project(w)
    <3>1. /\ UNCHANGED <<row, stamped>> /\ pc[w] = "project"
          /\ projected' \subseteq projected \cup {task[w]}
          BY <2>1 DEF Project
    <3>2. left[w] = 0 BY <1>00, <3>1 DEF RunProgress
    <3> QED BY <3>1, <3>2 DEF CompletePublish
  <2>2. CASE Write(w)
    <3>1. /\ UNCHANGED <<projected, stamped>> /\ pc[w] = "write"
          /\ row' = row \/ row' = [row EXCEPT ![task[w]] = status[w]]
          BY <2>2 DEF Write, UpdateTask
    <3>2. status[w] = "success" => left[w] = 0 BY <1>00, <3>1 DEF RunProgress
    <3>3. ASSUME NEW t \in Tasks, row'[t] = "success", row[t] # "success"
          PROVE  task[w] = t /\ left[w] = 0
          BY <1>0, <3>1, <3>2, <3>3
    <3> QED BY <3>1, <3>3 DEF CompletePublish
  <2>3. CASE Finish(w)
    <3>1. /\ UNCHANGED row /\ pc[w] = "finish"
          /\ projected' \subseteq projected
          /\ \/ stamped' = stamped
             \/ stamped' = stamped \cup {task[w]} /\ status[w] = "success"
          BY <2>3 DEF Finish
    <3>2. status[w] = "success" => left[w] = 0 BY <1>00, <3>1 DEF RunProgress
    <3> QED BY <3>1, <3>2 DEF CompletePublish
  <2> QED BY <1>0, <1>2, <2>1, <2>2, <2>3 DEF CompletePublish, Body, Plan,
         Conclude, Goto, Gate, UnitSucceeds, UnitFails, UnitAborts, Panic
<1>3. ASSUME NEW t \in Tasks, Helper(t) PROVE CompletePublish
  BY <1>0, <1>3 DEF CompletePublish, Helper, HelperEnds, HelperCancels,
     HelperTakesForeign, HelperPutsBack
<1>4. ASSUME Environment PROVE CompletePublish
  <2>1. CASE RunStaleRecovery
    BY <1>0, <2>1 DEF CompletePublish, RunStaleRecovery,
       RecoverStaleRunningTasks
  <2>2. CASE Restart
    BY <1>0, <2>2 DEF CompletePublish, Restart, RecoverStaleRunningTasks
  <2> QED BY <1>0, <1>4, <2>1, <2>2 DEF CompletePublish, Environment, Trigger,
         Cancel, SixHoursPass, Stop, GoDown
<1>5. CASE UNCHANGED vars BY <1>5 DEF CompletePublish, vars
<1> QED BY <1>1, <1>2, <1>3, <1>4, <1>5 DEF Next

\* A success, a projection or a stamp means that every planned unit was stored.
THEOREM PublishIsComplete == Spec => OnlyCompleteRunsPublish
<1>1. IInv /\ [Next]_vars => [CompletePublish]_vars BY CompletePublishStep
<1> QED BY <1>1, Invariance, PTL DEF Spec, OnlyCompleteRunsPublish, CompletePublish

-----------------------------------------------------------------------------
(* The ledger *)

\* The labels of a run that has not closed its row.
Unwritten == Syncing \ {"finish"}

\* The runs that have their say before them stay the same.
LEMMA UnclosedSame ==
  ASSUME up' = up, task' = task,
         \A v \in Workers : pc'[v] \in Unwritten <=> pc[v] \in Unwritten
  PROVE  Unclosed' = Unclosed
BY DEF Unclosed, Unwritten

\* One run moves on, before its final write or after it.
LEMMA UnclosedMoves ==
  ASSUME IInv, NEW w \in Workers, NEW label, pc' = [pc EXCEPT ![w] = label],
         up' = up, task' = task, pc[w] \in Unwritten <=> label \in Unwritten
  PROVE  Unclosed' = Unclosed
<1>1. pc \in [Workers -> Syncing \cup {"idle", "exited"}] BY Typed DEF IInv
<1>2. \A v \in Workers : pc'[v] \in Unwritten <=> pc[v] \in Unwritten BY <1>1
<1> QED BY <1>2, UnclosedSame

\* The stale sweep ends running rows and no others.
LEMMA SweepInterrupts ==
  ASSUME IInv, RecoverStaleRunningTasks PROVE Ledger!Interrupt("error") \/ Unclosed' # Unclosed
<1> DEFINE T == {t \in Tasks : row[t] = "running" /\ t <= aged}
<1>1. T \in SUBSET {t \in Tasks : row[t] = "running"} OBVIOUS
<1>2. row' = [t \in Tasks |-> IF t \in T THEN "error" ELSE row[t]]
      BY DEF RecoverStaleRunningTasks
<1> QED BY <1>1, <1>2 DEF Ledger!Interrupt

\* A new run opens a row no run had.
LEMMA InsertOpens ==
  ASSUME IInv, up, NEW w \in Workers, Inserts(w) PROVE Ledger!Next
<1>1. issued + 1 \in Tasks /\ issued + 1 > issued
  <2>1. issued < MaxTask BY DEF Inserts
  <2> QED BY <2>1, Ids DEF IInv, TypeOK
<1>2. row[issued + 1] = "absent" BY <1>1 DEF IInv, FutureIsBlank
<1>3. /\ pc \in [Workers -> Syncing \cup {"idle", "exited"}]
      /\ task \in [Workers -> Tasks \cup {NoTask}]
      BY Typed DEF IInv
<1>4. /\ task' = [task EXCEPT ![w] = issued + 1] /\ up' = up /\ pc[w] = "idle"
      /\ \E label \in {"plan", "write"} : pc' = [pc EXCEPT ![w] = label]
      /\ row' = [row EXCEPT ![issued + 1] = "running"]
      BY DEF Inserts
<1>5. \A v \in Workers : v # w => pc'[v] = pc[v] /\ task'[v] = task[v] BY <1>3, <1>4
<1>6. pc[w] \notin Unwritten /\ pc'[w] \in Unwritten /\ task'[w] = issued + 1
      BY <1>3, <1>4 DEF Unwritten, Syncing
<1>7. Unclosed' = Unclosed \cup {issued + 1}
      BY <1>4, <1>5, <1>6 DEF Unclosed, Unwritten
<1>8. Ledger!Open(issued + 1) BY <1>2, <1>4, <1>7 DEF Ledger!Open
<1> QED BY <1>1, <1>8 DEF Ledger!Next

\* The final write is the one say of the run, used or lost.
LEMMA WriteCloses ==
  ASSUME IInv, NEW w \in Workers, Write(w) PROVE Ledger!Next
<1>1. /\ pc \in [Workers -> Syncing \cup {"idle", "exited"}]
      /\ task \in [Workers -> Tasks \cup {NoTask}]
      BY Typed DEF IInv
<1>2. /\ up /\ up' = up /\ task' = task /\ pc[w] = "write" /\ pc' = [pc EXCEPT ![w] = "finish"]
      /\ \/ row' = [row EXCEPT ![task[w]] = status[w]]
         \/ row' = row
      BY DEF Write, Goto, UpdateTask
<1>3. task[w] \in Tasks /\ pc[w] \in Unwritten
      BY <1>2, LiveIds DEF IInv, Syncing, Unwritten
<1>4. status[w] \in Final BY <1>2 DEF IInv, RunProgress
<1>5. \A v \in Workers : v # w /\ pc[v] \in Unwritten => task[v] # task[w]
      BY <1>3, Disjoint DEF IInv, RunsAreDisjoint, Unwritten
<1>6. /\ \A v \in Workers : v # w => pc'[v] = pc[v]
      /\ pc'[w] \notin Unwritten
      BY <1>1, <1>2 DEF Unwritten
<1>7. Unclosed' = Unclosed \ {task[w]} /\ task[w] \in Unclosed
  <2>1. \A t : t \in Unclosed <=> \E v \in Workers : pc[v] \in Unwritten /\ task[v] = t
        BY <1>2 DEF Unclosed, Unwritten
  <2>2. \A t : t \in Unclosed' <=> \E v \in Workers : pc'[v] \in Unwritten /\ task[v] = t
        BY <1>2 DEF Unclosed, Unwritten
  <2> QED BY <1>3, <1>5, <1>6, <2>1, <2>2
<1>8. CASE row' = [row EXCEPT ![task[w]] = status[w]]
  <2>1. Ledger!Close(task[w], status[w]) BY <1>7, <1>8 DEF Ledger!Close
  <2> QED BY <1>3, <1>4, <2>1 DEF Ledger!Next
<1>9. CASE row' = row
  <2>1. Ledger!Abandon BY <1>7, <1>9 DEF Ledger!Abandon
  <2> QED BY <2>1 DEF Ledger!Next
<1> QED BY <1>2, <1>8, <1>9

\* Every step of the workers is a step of the ledger or leaves it alone.
LEMMA LedgerStep == ASSUME IInv, [Next]_vars PROVE [Ledger!Next]_(Ledger!ledger)
<1> USE DEF Ledger!ledger
<1>a. ASSUME UNCHANGED <<up, pc, task, row>> PROVE [Ledger!Next]_(Ledger!ledger)
      BY <1>a DEF Unclosed
<1>0. row \in [Tasks -> RowStatus] /\ "error" \in Final /\ "cancelled" \in Final
      BY Typed DEF IInv, Final
<1>1. ASSUME NEW w \in Workers, Select(w) PROVE [Ledger!Next]_(Ledger!ledger)
  <2>1. CASE RunExits(w)
    <3>1. Unclosed' = Unclosed
          BY <2>1, UnclosedMoves DEF RunExits, Goto, Unwritten, Syncing
    <3> QED BY <2>1, <3>1 DEF RunExits
  <2>2. CASE RunTakesCancel(w)
    <3>1. Unclosed' = Unclosed BY <2>2, UnclosedSame DEF RunTakesCancel
    <3>2. CASE row' = row BY <3>1, <3>2
    <3>3. CASE row' # row
      <4> DEFINE T == {cancelCh[w]}
      <4>1. cancelCh[w] \in Tasks BY <2>2, Typed DEF IInv, RunTakesCancel
      <4>2. row[cancelCh[w]] = "running"
            /\ row' = [row EXCEPT ![cancelCh[w]] = "cancelled"]
            BY <2>2, <3>3 DEF RunTakesCancel, CancelTask
      <4>3. row' = [t \in Tasks |-> IF t \in T THEN "cancelled" ELSE row[t]]
            BY <1>0, <4>2
      <4>4. T \in SUBSET {t \in Tasks : row[t] = "running"} BY <4>1, <4>2
      <4>5. Ledger!Interrupt("cancelled") BY <3>1, <4>3, <4>4 DEF Ledger!Interrupt
      <4> QED BY <1>0, <4>5 DEF Ledger!Next
    <3> QED BY <3>2, <3>3
  <2>3. CASE SkipDisabled(w) \/ InsertFails(w)
        BY <2>3, <1>a DEF SkipDisabled, InsertFails
  <2>4. CASE RecordFatalTask(w) \/ DoSync(w)
    <3>1. up /\ Inserts(w)
          BY <2>4, DoSyncInserts, FatalInserts DEF RecordFatalTask, DoSync, TakeTrigger
    <3> QED BY <3>1, InsertOpens
  <2> QED BY <1>1, <2>1, <2>2, <2>3, <2>4 DEF Select
<1>2. ASSUME NEW w \in Workers, Body(w) PROVE [Ledger!Next]_(Ledger!ledger)
  <2>1. CASE Write(w) BY <2>1, WriteCloses
  <2>2. CASE Finish(w)
    <3>1. Unclosed' = Unclosed
          BY <2>2, UnclosedMoves DEF Finish, Goto, Unwritten, Syncing
    <3> QED BY <2>2, <3>1 DEF Finish
  <2>3. CASE ~Write(w) /\ ~Finish(w)
    <3>1. /\ up' = up /\ task' = task /\ row' = row
          /\ pc[w] \in Unwritten
          /\ \E label \in Unwritten : pc' = [pc EXCEPT ![w] = label]
          BY <1>2, <2>3 DEF Body, Plan, Gate, UnitSucceeds, UnitFails, UnitAborts, Panic,
             Project, Conclude, Goto, Unwritten, Syncing
    <3>2. Unclosed' = Unclosed BY <3>1, UnclosedMoves
    <3> QED BY <3>1, <3>2
  <2> QED BY <2>1, <2>2, <2>3
<1>3. ASSUME NEW t \in Tasks, Helper(t) PROVE [Ledger!Next]_(Ledger!ledger)
      BY <1>3, <1>a DEF Helper, HelperEnds, HelperCancels, HelperTakesForeign, HelperPutsBack
<1>4. ASSUME Environment PROVE [Ledger!Next]_(Ledger!ledger)
  <2>1. CASE RunStaleRecovery
    <3>1. Unclosed' = Unclosed BY <2>1, UnclosedSame DEF RunStaleRecovery
    <3>2. Ledger!Interrupt("error") BY <2>1, <3>1, SweepInterrupts DEF RunStaleRecovery
    <3> QED BY <1>0, <3>2 DEF Ledger!Next
  <2>2. CASE GoDown
    <3>1. Unclosed' = {} /\ row' = row BY <2>2 DEF GoDown, Unclosed
    <3>2. Ledger!Abandon BY <3>1 DEF Ledger!Abandon
    <3> QED BY <3>2 DEF Ledger!Next
  <2>3. CASE Restart
    <3>1. Unclosed = {} BY <2>3 DEF Restart, Unclosed
    <3>2. \A v \in Workers : pc'[v] = "idle" BY <2>3 DEF Restart
    <3>3. Unclosed' = {} BY <3>2 DEF Unclosed, Syncing
    <3>4. CASE row' = row BY <3>1, <3>3, <3>4
    <3>5. CASE RecoverStaleRunningTasks
      <4>1. Ledger!Interrupt("error") BY <3>1, <3>3, <3>5, SweepInterrupts
      <4> QED BY <1>0, <4>1 DEF Ledger!Next
    <3> QED BY <2>3, <3>4, <3>5 DEF Restart
  <2>4. CASE \/ SixHoursPass \/ Stop \/ \E w \in Workers : Trigger(w)
             \/ \E w \in Workers, t \in Tasks : Cancel(w, t)
        BY <2>4, <1>a DEF SixHoursPass, Stop, Trigger, Cancel
  <2> QED BY <1>4, <2>1, <2>2, <2>3, <2>4 DEF Environment
<1>5. CASE UNCHANGED vars BY <1>5, <1>a DEF vars
<1> QED BY <1>1, <1>2, <1>3, <1>4, <1>5 DEF Next

\* The workers, the sweep and the cancels implement the ledger: an insertion opens a
\* row, the final write closes it, a lost write or the end of the process abandons it,
\* a cancel and the sweep interrupt, and everything else leaves it alone.
THEOREM RowsFormALedger == Spec => TasksAreALedger
<1>1. Init => Ledger!Init BY DEF Init, Ledger!Init, Unclosed, Syncing
<1>2. IInv /\ [Next]_vars => [Ledger!Next]_(Ledger!ledger) BY LedgerStep
<1> QED BY <1>1, <1>2, Invariance, PTL DEF Spec, TasksAreALedger, Ledger!Spec
=============================================================================
