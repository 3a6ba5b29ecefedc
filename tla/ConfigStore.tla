------------------------------ MODULE ConfigStore ------------------------------
(***************************************************************************)
(* The configuration of the service while it is edited: the YAML file, the *)
(* copy in memory (ConfigStore), the handlers that read a copy, edit it    *)
(* and save it whole, and the parts of the running process that take over  *)
(* an accepted edit: the scheduler, the workers, the rate limiters.        *)
(*                                                                         *)
(* Requests run concurrently.  A handler reads the store twice (Current    *)
(* for comparison, Snapshot for editing), saves under saveMu, and hands    *)
(* the result over after saveMu is released.  The process may die at any   *)
(* step and starts again from the file; an operator may edit the file.     *)
(***************************************************************************)
EXTENDS Naturals, FiniteSets

CONSTANTS
  Requests,   \* slots of concurrent HTTP requests
  Account, Group, Endpoint, Path,
  Field,      \* business fields a dataset may publish
  Project,    \* downstream projects that may own a token
  Start,      \* configurations the file may hold when the process first starts
  None,       \* no such account, endpoint or token, an unset reading
  MaxEdits,   \* bound of the model: edits and reloads that are started
  MaxFaults   \* bound of the model: deaths of the process and hand edits, together

VARIABLES
  file,       \* config.yaml, as Load would read it
  cfg,        \* ConfigStore.cfg
  saveMu,     \* the request that holds it, or None
  pc, job,    \* a request: its step, and whether it edits or reloads
  old, snap,  \* the copy it compares, the copy it edits
  up,         \* the process runs
  sched,      \* cron entries: of endpoints, of connection checks, of reports
  reg,        \* the Endpoint of each worker
  limits,     \* the rate of each limiter key
  served,     \* Server.cfg, what the other handlers read
  edits, faults,   \* counters for the bounds
  handEdited, \* the file was edited by hand since it was last read or replaced
  warned,     \* an answer since the start asked for a restart or was an error
  raced       \* two requests handed a configuration over at the same time

requestVars == <<pc, job, old, snap>>
liveVars    == <<sched, reg, limits, served>>
noteVars    == <<edits, faults, handEdited, warned, raced>>
vars == <<file, cfg, saveMu, requestVars, up, liveVars, noteVars>>

\* chk stands for the plan of the connection check, hot for the fields of an
\* endpoint a hot reload takes over (cron, rate, enabled, window, ...; 0 is
\* disabled), late for the fields the update handler stores and ClassifyChange
\* does not look at (display, window_start_field, window_end_field).
AccountRec  == [group : Group, chk : 0..1]
EndpointRec == [account : Account, path : Path, hot : 0..1, late : 0..1]
TokenRec    == [fields : SUBSET Field, scope : {"daily", "child", "detail"}]
Config == [accounts : [Account -> AccountRec \cup {None}],
           endpoints : [Endpoint -> EndpointRec \cup {None}],
           secret : BOOLEAN,
           fields : SUBSET Field,     \* FieldAllowlist of listing-daily-v1
           child  : SUBSET Field,     \* FieldAllowlists of a later version of it
           tokens : [Project -> TokenRec \cup {None}]]

ASSUME StartAssumption ==
  Start \subseteq Config /\ None \notin Config \cup Requests \cup AccountRec \cup EndpointRec \cup TokenRec

AccountsOf(c)  == {a \in Account : c.accounts[a] # None}
EndpointsOf(c) == {e \in Endpoint : c.endpoints[e] # None}
TokensOf(c)    == {p \in Project : c.tokens[p] # None}

-----------------------------------------------------------------------------
(* Validation *)

QuotaGroupOf(c, a) == c.accounts[a].group
limiterKey(c, e)   == <<QuotaGroupOf(c, c.endpoints[e].account), c.endpoints[e].path>>

\* An account, every endpoint on an account, no limiter key used twice (the
\* variants of one endpoint that may share a key are one Endpoint here).
validate(c) ==
  /\ AccountsOf(c) # {}
  /\ \A e \in EndpointsOf(c) : c.endpoints[e].account \in AccountsOf(c)
  /\ \A d, e \in EndpointsOf(c) : d # e => limiterKey(c, d) # limiterKey(c, e)

datasetAPIConfigured(c) == c.secret \/ c.fields # {} \/ TokensOf(c) # {}

validateDatasetAPI(c) ==
  datasetAPIConfigured(c) =>
    /\ c.secret
    /\ \A p \in TokensOf(c) : c.tokens[p].fields # {} /\ c.tokens[p].fields \subseteq c.fields

\* Load validates both halves, Save only the first.
Loads(c) == validateDatasetAPI(c) /\ validate(c)

-----------------------------------------------------------------------------
(* The class of a change *)

DatasetAPI(c) == <<c.secret, c.fields, c.child, c.tokens>>

NeedsRestart(o, n) ==
  \/ (datasetAPIConfigured(o) \/ datasetAPIConfigured(n)) /\ DatasetAPI(o) # DatasetAPI(n)
  \/ AccountsOf(o) # AccountsOf(n)
  \/ \E a \in AccountsOf(o) : o.accounts[a].group # n.accounts[a].group
  \/ EndpointsOf(o) # EndpointsOf(n)
  \/ \E e \in EndpointsOf(o) : \/ o.endpoints[e].account # n.endpoints[e].account
                               \/ o.endpoints[e].path # n.endpoints[e].path

HotDiffers(o, n) ==
  \/ \E a \in AccountsOf(o) : o.accounts[a].chk # n.accounts[a].chk
  \/ \E e \in EndpointsOf(o) : o.endpoints[e].hot # n.endpoints[e].hot

\* Faulty variant: the plan of the connection check is not compared.
ClassifyUnchecked(o, n) ==
  CASE NeedsRestart(o, n) -> "restart"
    [] ~NeedsRestart(o, n) /\ (\E e \in EndpointsOf(o) : o.endpoints[e].hot # n.endpoints[e].hot) -> "hot"
    [] OTHER -> "none"

\* Restart before hot before none.
ClassifyChange(o, n) ==
  CASE NeedsRestart(o, n) -> "restart"
    [] ~NeedsRestart(o, n) /\ HotDiffers(o, n) -> "hot"
    [] OTHER -> "none"

-----------------------------------------------------------------------------
(* What the running process takes from a configuration *)

\* The cron entries of endpoints (only those that have a worker) and of
\* connection checks.
EndpointJobs(c, workers) == {<<e, c.endpoints[e].hot>> : e \in {d \in EndpointsOf(c) \cap workers : c.endpoints[d].hot # 0}}
CheckJobs(c)    == {a \in AccountsOf(c) : c.accounts[a].chk # 0}
Jobs(c, workers, reports) ==
  [endpoints |-> EndpointJobs(c, workers), checks |-> CheckJobs(c), reports |-> reports]

Workers == {e \in Endpoint : reg[e] # None}

\* UpdateOrCreate of the limiter of every endpoint; a key keeps its limiter for
\* as long as the process runs.
RatesAfter(c, rates) ==
  [k \in Group \X Path |->
     IF \E e \in EndpointsOf(c) : limiterKey(c, e) = k
     THEN c.endpoints[CHOOSE e \in EndpointsOf(c) : limiterKey(c, e) = k].hot
     ELSE rates[k]]

NoRates == [k \in Group \X Path |-> None]

TypeOK ==
  /\ file \in Config /\ cfg \in Config
  /\ saveMu \in Requests \cup {None}
  /\ pc \in [Requests -> {"idle", "loaded", "read", "submitted", "locked", "renamed", "saved", "rebuilt"}]
  /\ job \in [Requests -> {"edit", "reload"}]
  /\ old \in [Requests -> Config \cup {None}] /\ snap \in [Requests -> Config \cup {None}]
  /\ up \in BOOLEAN
  /\ sched \in [endpoints : SUBSET (Endpoint \X (0..1)), checks : SUBSET Account, reports : BOOLEAN]
  /\ reg \in [Endpoint -> EndpointRec \cup {None}]
  /\ limits \in [Group \X Path -> {0, 1, None}]
  /\ served \in Config
  /\ edits \in Nat /\ faults \in Nat
  /\ handEdited \in BOOLEAN /\ warned \in BOOLEAN /\ raced \in BOOLEAN

-----------------------------------------------------------------------------
(* Start and death of the process *)

\* What main builds from the configuration it loaded.
Builds(c) ==
  /\ cfg' = c /\ served' = c
  /\ reg' = c.endpoints
  /\ sched' = Jobs(c, EndpointsOf(c), TRUE)
  /\ limits' = RatesAfter(c, NoRates)

NoRequests ==
  /\ pc' = [r \in Requests |-> "idle"] /\ job' = [r \in Requests |-> "edit"]
  /\ old' = [r \in Requests |-> None] /\ snap' = [r \in Requests |-> None]

Init ==
  /\ file \in {c \in Start : Loads(c)} /\ cfg = file /\ served = file
  /\ saveMu = None /\ up = TRUE
  /\ pc = [r \in Requests |-> "idle"] /\ job = [r \in Requests |-> "edit"]
  /\ old = [r \in Requests |-> None] /\ snap = [r \in Requests |-> None]
  /\ reg = file.endpoints
  /\ sched = Jobs(file, EndpointsOf(file), TRUE)
  /\ limits = RatesAfter(file, NoRates)
  /\ edits = 0 /\ faults = 0
  /\ handEdited = FALSE /\ warned = FALSE /\ raced = FALSE

\* The process dies, or apiRestart replaces it; requests die with it.
Crash ==
  /\ up /\ faults < MaxFaults
  /\ up' = FALSE /\ faults' = faults + 1
  /\ saveMu' = None /\ NoRequests
  /\ UNCHANGED <<file, cfg, liveVars, edits, handEdited, warned, raced>>

\* The process is started again; a file that does not load ends it at once.
Restart ==
  /\ ~up /\ Loads(file)
  /\ up' = TRUE /\ Builds(file)
  /\ handEdited' = FALSE /\ warned' = FALSE /\ raced' = FALSE
  /\ UNCHANGED <<file, saveMu, requestVars, edits, faults>>

\* External: the operator changes an endpoint in the file.
EditFile ==
  /\ faults < MaxFaults
  /\ \E e \in EndpointsOf(file), hot \in 0..1, path \in Path :
       file' = [file EXCEPT !.endpoints[e].hot = hot, !.endpoints[e].path = path]
  /\ faults' = faults + 1 /\ handEdited' = TRUE
  /\ UNCHANGED <<cfg, saveMu, requestVars, up, liveVars, edits, warned, raced>>

-----------------------------------------------------------------------------
(* Reading and editing *)

\* Every handler that edits begins with Current ...
ReadCurrent(r) ==
  /\ up /\ pc[r] = "idle" /\ edits < MaxEdits
  /\ edits' = edits + 1
  /\ pc' = [pc EXCEPT ![r] = "read"] /\ job' = [job EXCEPT ![r] = "edit"]
  /\ old' = [old EXCEPT ![r] = cfg]
  /\ UNCHANGED <<file, cfg, saveMu, snap, up, liveVars, faults, handEdited, warned, raced>>

\* ... and edits what Snapshot returns, a second reading.
Submit(r, edited) ==
  /\ pc' = [pc EXCEPT ![r] = "submitted"]
  /\ snap' = [snap EXCEPT ![r] = edited]
  /\ UNCHANGED <<file, cfg, saveMu, job, old, up, liveVars, noteVars>>

\* The request is answered and forgotten.
Leaves(r) ==
  /\ pc' = [pc EXCEPT ![r] = "idle"] /\ job' = [job EXCEPT ![r] = "edit"]
  /\ old' = [old EXCEPT ![r] = None] /\ snap' = [snap EXCEPT ![r] = None]

\* A refused input (400, 404, 409) changes nothing.
Refuse(r) ==
  /\ Leaves(r)
  /\ UNCHANGED <<file, cfg, saveMu, up, liveVars, noteVars>>

\* nextAvailableAccountID: the new account always gets a free id.
apiCreateAccount(r) ==
  \E a \in Account, g \in Group :
    /\ cfg.accounts[a] = None
    /\ Submit(r, [cfg EXCEPT !.accounts[a] = [group |-> g, chk |-> 0]])

apiUpdateAccount(r) ==
  \E a \in AccountsOf(cfg), g \in Group :
    Submit(r, [cfg EXCEPT !.accounts[a].group = g])

apiUpdateConnectionCheck(r) ==
  \E a \in AccountsOf(cfg), chk \in 0..1 :
    Submit(r, [cfg EXCEPT !.accounts[a].chk = chk])

apiDeleteAccount(r) ==
  \E a \in AccountsOf(cfg) :
    /\ \A e \in EndpointsOf(cfg) : cfg.endpoints[e].account # a
    /\ Submit(r, [cfg EXCEPT !.accounts[a] = None])

\* apiCreateEndpoint, and apiCatalogEnable with its template: the name is free,
\* the account exists, the limiter key is free, the table exists.
apiCreateEndpoint(r) ==
  \E e \in Endpoint, a \in AccountsOf(cfg), path \in Path :
    /\ cfg.endpoints[e] = None
    /\ \A d \in EndpointsOf(cfg) : limiterKey(cfg, d) # <<QuotaGroupOf(cfg, a), path>>
    /\ Submit(r, [cfg EXCEPT !.endpoints[e] = [account |-> a, path |-> path, hot |-> 1, late |-> 0]])

\* Every editable field is replaced; the account is not one of them.
apiUpdateEndpoint(r) ==
  \E e \in EndpointsOf(cfg), path \in Path, hot \in 0..1, late \in 0..1 :
    Submit(r, [cfg EXCEPT !.endpoints[e].path = path, !.endpoints[e].hot = hot, !.endpoints[e].late = late])

apiDeleteEndpoint(r) ==
  \E e \in EndpointsOf(cfg) : Submit(r, [cfg EXCEPT !.endpoints[e] = None])

-----------------------------------------------------------------------------
(* Editing what the dataset API publishes *)

\* datasetVersionPublished: a version without a parent has fields of its own,
\* the daily table those of the allowlist, a later version only once saved.
Published(c, dataset) ==
  CASE dataset = "daily" -> c.fields # {}
    [] dataset = "child" -> c.child # {}
    [] dataset = "detail" -> TRUE

\* Faulty variant: the new token inherits no fields.
CreateTokenWithoutFields(r) ==
  \E p \in Project, scope \in {"daily", "child", "detail"} :
    /\ old[r].tokens[p] = None /\ Published(old[r], scope)
    /\ Submit(r, [cfg EXCEPT !.secret = TRUE, !.tokens[p] = [fields |-> {}, scope |-> scope]])

apiCreateDatasetProjectToken(r) ==
  \E p \in Project, scope \in {"daily", "child", "detail"} :
    /\ old[r].tokens[p] = None /\ Published(old[r], scope)
    /\ Submit(r, [cfg EXCEPT !.secret = TRUE, !.tokens[p] = [fields |-> old[r].fields, scope |-> scope]])

apiUpdateDatasetProjectScopes(r) ==
  \E p \in TokensOf(cfg), scope \in {"daily", "child", "detail"} :
    /\ old[r].tokens[p] # None /\ Published(old[r], scope)
    /\ Submit(r, [cfg EXCEPT !.tokens[p].scope = scope])

apiDeleteDatasetProjectToken(r) ==
  \E p \in TokensOf(cfg) :
    /\ old[r].tokens[p] # None
    /\ Submit(r, [cfg EXCEPT !.tokens[p] = None])

completeDatasetFieldAllowlist(existing) == existing \cup Field

apiCompleteDatasetFields(r) ==
  Submit(r, [cfg EXCEPT !.fields = completeDatasetFieldAllowlist(cfg.fields)])

\* normalizeDatasetFieldAllowlistFor: known fields, at least one.
FieldLists == (SUBSET Field) \ {{}}

WithFields(c, fields) ==
  [c EXCEPT !.fields = fields,
            !.tokens = [p \in Project |-> IF c.tokens[p] = None THEN None
                                          ELSE [c.tokens[p] EXCEPT !.fields = fields]]]

\* Faulty variant: a published version may be saved with other fields.
SaveFieldsUnpublished(r) ==
  \E fields \in FieldLists : Submit(r, WithFields(cfg, fields))

\* apiSaveDatasetFieldAllowlist of the daily table: the fields of a published
\* version cannot change; every token gets the new fields.
SaveDailyFields(r) ==
  \E fields \in FieldLists :
    /\ Published(old[r], "daily") => fields = old[r].fields
    /\ Submit(r, WithFields(cfg, fields))

\* ... and of a later version: the inherited fields stay.
SaveChildFields(r) ==
  \E fields \in FieldLists :
    /\ Published(old[r], "child") => fields = old[r].child
    /\ (IF old[r].child # {} THEN old[r].child ELSE old[r].fields) \subseteq fields
    /\ Submit(r, [cfg EXCEPT !.child = fields])

Edit(r) ==
  /\ up /\ pc[r] = "read"
  /\ \/ apiCreateAccount(r) \/ apiUpdateAccount(r) \/ apiUpdateConnectionCheck(r) \/ apiDeleteAccount(r)
     \/ apiCreateEndpoint(r) \/ apiUpdateEndpoint(r) \/ apiDeleteEndpoint(r)
     \/ apiCreateDatasetProjectToken(r) \/ apiUpdateDatasetProjectScopes(r) \/ apiDeleteDatasetProjectToken(r)
     \/ apiCompleteDatasetFields(r) \/ SaveDailyFields(r) \/ SaveChildFields(r)
     \/ Refuse(r)

\* apiSettingsReload reads the file first ...
LoadFile(r) ==
  /\ up /\ pc[r] = "idle" /\ edits < MaxEdits /\ Loads(file)
  /\ edits' = edits + 1
  /\ pc' = [pc EXCEPT ![r] = "loaded"] /\ job' = [job EXCEPT ![r] = "reload"]
  /\ snap' = [snap EXCEPT ![r] = file]
  /\ UNCHANGED <<file, cfg, saveMu, old, up, liveVars, faults, handEdited, warned, raced>>

\* ... and the store afterwards; a structural change is not applied.
ReloadCompares(r) ==
  /\ up /\ pc[r] = "loaded"
  /\ IF ClassifyChange(cfg, snap[r]) = "restart"
     THEN Leaves(r) /\ warned' = TRUE
     ELSE /\ pc' = [pc EXCEPT ![r] = "submitted"]
          /\ old' = [old EXCEPT ![r] = cfg]
          /\ UNCHANGED <<job, snap, warned>>
  /\ UNCHANGED <<file, cfg, saveMu, up, liveVars, edits, faults, handEdited, raced>>

-----------------------------------------------------------------------------
(* Saving: SaveIfCurrent under saveMu *)

\* Faulty variant: the copy in memory is not compared with the one read.
AcceptsStale(r) == validate(snap[r])

\* The configuration the request has read is still in force, and the new one is valid.
Accepts(r) == cfg = old[r] /\ validate(snap[r])

LockSave(r) ==
  /\ up /\ pc[r] = "submitted" /\ saveMu = None /\ Accepts(r)
  /\ saveMu' = r /\ pc' = [pc EXCEPT ![r] = "locked"]
  /\ UNCHANGED <<file, cfg, job, old, snap, up, liveVars, noteVars>>

\* ErrConfigChanged, or the new configuration is invalid: answered with 400.
RejectSave(r) ==
  /\ up /\ pc[r] = "submitted" /\ saveMu = None /\ ~Accepts(r)
  /\ Leaves(r)
  /\ UNCHANGED <<file, cfg, saveMu, up, liveVars, noteVars>>

\* Faulty variant: a failed write leaves the new configuration in memory.
FailWriteSwitched(r) ==
  /\ up /\ pc[r] = "locked"
  /\ cfg' = snap[r] /\ saveMu' = None /\ Leaves(r)
  /\ UNCHANGED <<file, up, liveVars, noteVars>>

\* The backup, the temporary file or the rename fails: 400, nothing changed.
FailWrite(r) ==
  /\ up /\ pc[r] = "locked"
  /\ saveMu' = None /\ Leaves(r)
  /\ UNCHANGED <<file, cfg, up, liveVars, noteVars>>

Rename(r) ==
  /\ up /\ pc[r] = "locked"
  /\ file' = snap[r] /\ handEdited' = FALSE
  /\ pc' = [pc EXCEPT ![r] = "renamed"]
  /\ UNCHANGED <<cfg, saveMu, job, old, snap, up, liveVars, edits, faults, warned, raced>>

Switch(r) ==
  /\ up /\ pc[r] = "renamed"
  /\ cfg' = snap[r] /\ saveMu' = None
  /\ pc' = [pc EXCEPT ![r] = "saved"]
  /\ raced' = (raced \/ \E q \in Requests \ {r} : pc[q] \in {"saved", "rebuilt"})
  /\ UNCHANGED <<file, job, old, snap, up, liveVars, edits, faults, handEdited, warned>>

-----------------------------------------------------------------------------
(* Handing an accepted configuration over to the running parts *)

AppliesNow(r) == job[r] = "reload" \/ ClassifyChange(old[r], snap[r]) = "hot"

\* Nothing to apply now: the answer says whether a restart is needed.
AnswerSaved(r) ==
  /\ up /\ pc[r] = "saved" /\ ~AppliesNow(r)
  /\ served' = snap[r]
  /\ warned' = (warned \/ ClassifyChange(old[r], snap[r]) = "restart")
  /\ Leaves(r)
  /\ UNCHANGED <<file, cfg, saveMu, up, sched, reg, limits, edits, faults, handEdited, raced>>

\* Scheduler.Rebuild: the old entries go, the new ones are registered.
Rebuild(r) ==
  /\ up /\ pc[r] = "saved" /\ AppliesNow(r)
  /\ sched' = Jobs(snap[r], Workers, TRUE)
  /\ pc' = [pc EXCEPT ![r] = "rebuilt"]
  /\ UNCHANGED <<file, cfg, saveMu, job, old, snap, up, reg, limits, served, noteVars>>

\* expandReportStores fails: the report jobs are gone, the handler answers 500
\* and hands nothing else over, although the file is saved.
RebuildFails(r) ==
  /\ up /\ pc[r] = "saved" /\ AppliesNow(r)
  /\ sched' = Jobs(snap[r], Workers, FALSE)
  /\ warned' = TRUE
  /\ Leaves(r)
  /\ UNCHANGED <<file, cfg, saveMu, up, reg, limits, served, edits, faults, handEdited, raced>>

\* ApplyHotReload replaces the whole Endpoint of every worker the configuration
\* names; then the limiters and the pointer of the server.
HandOver(r) ==
  /\ up /\ pc[r] = "rebuilt"
  /\ reg' = [e \in Endpoint |-> IF e \in Workers \cap EndpointsOf(snap[r]) THEN snap[r].endpoints[e] ELSE reg[e]]
  /\ limits' = RatesAfter(snap[r], limits)
  /\ served' = snap[r]
  /\ Leaves(r)
  /\ UNCHANGED <<file, cfg, saveMu, up, sched, noteVars>>

Request(r) ==
  \/ ReadCurrent(r) \/ Edit(r) \/ LoadFile(r) \/ ReloadCompares(r)
  \/ LockSave(r) \/ RejectSave(r) \/ FailWrite(r) \/ Rename(r) \/ Switch(r)
  \/ AnswerSaved(r) \/ Rebuild(r) \/ RebuildFails(r) \/ HandOver(r)

Next == (\E r \in Requests : Request(r)) \/ Crash \/ Restart \/ EditFile

Spec == Init /\ [][Next]_vars

-----------------------------------------------------------------------------
(* Properties *)

\* Whenever no save is in progress the copy in memory is the file, unless the
\* file was edited by hand since: failed writes, concurrent saves and restarts
\* never let the two drift apart.
MemoryIsFile == up /\ saveMu = None /\ ~handEdited => cfg = file

\* While nobody is being served, what runs is what was saved, provided that no
\* answer since the start asked for a restart or was an error, and that no two
\* requests handed their configuration over at the same time.
InForce(c) ==
  /\ Workers = EndpointsOf(c)
  /\ sched = Jobs(c, Workers, TRUE)
  /\ \A e \in EndpointsOf(c) :
       /\ reg[e].account = c.endpoints[e].account /\ reg[e].path = c.endpoints[e].path
       /\ reg[e].hot = c.endpoints[e].hot
       /\ limits[limiterKey(c, e)] = c.endpoints[e].hot
Quiet == \A r \in Requests : pc[r] \notin {"saved", "rebuilt"}
EditsInForce == up /\ Quiet /\ ~warned /\ ~raced => InForce(cfg)

\* Once the daily table is published its fields never go away, whatever edits
\* and reloads overlap.
PublishedFieldsStay ==
  [][~handEdited /\ file.fields # {} => file.fields \subseteq file'.fields]_vars

\* Once a cursor secret and the daily fields exist, no edit leaves a file that
\* the next start would refuse.
ProjectsKeepLoading ==
  [][~handEdited /\ ~handEdited' /\ Loads(file) /\ file.secret /\ file.fields # {} => Loads(file')]_vars

\* The store is a cell that is replaced only by a request that read exactly the
\* configuration it replaces.
Cell == INSTANCE SettingsCell WITH value <- cfg, seen <- old
CompareAndSwap == Cell!Spec

\* A file the service saved is a file it can start from.
SavedFileLoads == ~handEdited => Loads(file)
=============================================================================
