--------------------------- MODULE ConfigStoreProofs ---------------------------
(***************************************************************************)
(* Proofs about ConfigStore, for any number of requests, accounts,         *)
(* endpoints, projects and fields, and any bounds.                         *)
(***************************************************************************)
EXTENDS ConfigStore, TLAPS

-----------------------------------------------------------------------------
(* Edited copies *)

\* What an edit leaves of the part of a configuration that is published.
SameDataset(c, n) == n.fields = c.fields /\ n.secret = c.secret /\ n.tokens = c.tokens

LEMMA EditedAccount ==
  ASSUME NEW c \in Config, NEW a \in Account, NEW v \in AccountRec \cup {None}
  PROVE  [c EXCEPT !.accounts[a] = v] \in Config /\ SameDataset(c, [c EXCEPT !.accounts[a] = v])
  BY DEF Config, SameDataset

LEMMA EditedEndpoint ==
  ASSUME NEW c \in Config, NEW e \in Endpoint, NEW v \in EndpointRec \cup {None}
  PROVE  [c EXCEPT !.endpoints[e] = v] \in Config /\ SameDataset(c, [c EXCEPT !.endpoints[e] = v])
  BY DEF Config, SameDataset

LEMMA EditedToken ==
  ASSUME NEW c \in Config, NEW p \in Project, NEW v \in TokenRec \cup {None}
  PROVE  LET n == [c EXCEPT !.tokens[p] = v]
         IN n \in Config /\ n.fields = c.fields /\ n.secret = c.secret /\ n.tokens = [c.tokens EXCEPT ![p] = v]
  BY DEF Config

LEMMA AccountShape ==
  ASSUME NEW c \in Config, NEW a \in AccountsOf(c)
  PROVE  a \in Account /\ c.accounts[a] \in AccountRec
  BY DEF Config, AccountsOf

LEMMA EndpointShape ==
  ASSUME NEW c \in Config, NEW e \in EndpointsOf(c)
  PROVE  e \in Endpoint /\ c.endpoints[e] \in EndpointRec
  BY DEF Config, EndpointsOf

LEMMA TokenShape ==
  ASSUME NEW c \in Config, NEW p \in TokensOf(c)
  PROVE  p \in Project /\ c.tokens[p] \in TokenRec
  BY DEF Config, TokensOf

\* An edit of accounts or endpoints submits a configuration that publishes the same.
AccountEdit(r) ==
  \/ apiCreateAccount(r) \/ apiUpdateAccount(r) \/ apiUpdateConnectionCheck(r) \/ apiDeleteAccount(r)
  \/ apiCreateEndpoint(r) \/ apiUpdateEndpoint(r) \/ apiDeleteEndpoint(r)

LEMMA AccountEdits ==
  ASSUME NEW r \in Requests, cfg \in Config, AccountEdit(r)
  PROVE  \E n \in Config : Submit(r, n) /\ SameDataset(cfg, n)
<1>1. CASE apiCreateAccount(r)
  <2>1. PICK a \in Account, g \in Group : Submit(r, [cfg EXCEPT !.accounts[a] = [group |-> g, chk |-> 0]])
    BY <1>1 DEF apiCreateAccount
  <2>2. [group |-> g, chk |-> 0] \in AccountRec
    BY DEF AccountRec
  <2> QED BY <2>1, <2>2, EditedAccount
<1>2. CASE apiUpdateAccount(r)
  <2>1. PICK a \in AccountsOf(cfg), g \in Group : Submit(r, [cfg EXCEPT !.accounts[a].group = g])
    BY <1>2 DEF apiUpdateAccount
  <2>2. a \in Account /\ [cfg.accounts[a] EXCEPT !.group = g] \in AccountRec
    BY AccountShape DEF AccountRec
  <2> QED BY <2>1, <2>2, EditedAccount
<1>3. CASE apiUpdateConnectionCheck(r)
  <2>1. PICK a \in AccountsOf(cfg), chk \in 0..1 : Submit(r, [cfg EXCEPT !.accounts[a].chk = chk])
    BY <1>3 DEF apiUpdateConnectionCheck
  <2>2. a \in Account /\ [cfg.accounts[a] EXCEPT !.chk = chk] \in AccountRec
    BY AccountShape DEF AccountRec
  <2> QED BY <2>1, <2>2, EditedAccount
<1>4. CASE apiDeleteAccount(r)
  BY <1>4, EditedAccount DEF apiDeleteAccount, AccountsOf
<1>5. CASE apiCreateEndpoint(r)
  <2>1. PICK e \in Endpoint, a \in AccountsOf(cfg), path \in Path :
          Submit(r, [cfg EXCEPT !.endpoints[e] = [account |-> a, path |-> path, hot |-> 1, late |-> 0]])
    BY <1>5 DEF apiCreateEndpoint
  <2>2. [account |-> a, path |-> path, hot |-> 1, late |-> 0] \in EndpointRec
    BY AccountShape DEF EndpointRec
  <2> QED BY <2>1, <2>2, EditedEndpoint
<1>6. CASE apiUpdateEndpoint(r)
  <2>1. PICK e \in EndpointsOf(cfg), path \in Path, hot \in 0..1, late \in 0..1 :
          Submit(r, [cfg EXCEPT !.endpoints[e].path = path, !.endpoints[e].hot = hot, !.endpoints[e].late = late])
    BY <1>6 DEF apiUpdateEndpoint
  <2> DEFINE n == [cfg EXCEPT !.endpoints[e].path = path, !.endpoints[e].hot = hot, !.endpoints[e].late = late]
             v == [cfg.endpoints[e] EXCEPT !.path = path, !.hot = hot, !.late = late]
  <2>2. e \in Endpoint /\ v \in EndpointRec
    BY EndpointShape DEF EndpointRec
  <2>3. n = [cfg EXCEPT !.endpoints[e] = v]
    BY EndpointShape DEF Config, EndpointRec
  <2> QED BY <2>1, <2>2, <2>3, EditedEndpoint
<1>7. CASE apiDeleteEndpoint(r)
  BY <1>7, EditedEndpoint DEF apiDeleteEndpoint, EndpointsOf
<1> QED BY <1>1, <1>2, <1>3, <1>4, <1>5, <1>6, <1>7 DEF AccountEdit

-----------------------------------------------------------------------------
(* What every accepted change keeps *)

\* The next start serves the projects of this configuration.
Serves(c) == c.secret /\ c.fields # {} /\ validateDatasetAPI(c)

\* Published fields stay published, and a configuration that serves its projects
\* is followed by one that does.
Keeps(c, n) ==
  /\ c.fields # {} => c.fields \subseteq n.fields
  /\ Serves(c) => Serves(n)

LEMMA KeepsTransitive ==
  ASSUME NEW a, NEW b, NEW c, Keeps(a, b), Keeps(b, c)
  PROVE  Keeps(a, c)
  BY DEF Keeps

LEMMA KeepsReflexive ==
  ASSUME NEW c PROVE Keeps(c, c)
  BY DEF Keeps

LEMMA SameDatasetKeeps ==
  ASSUME NEW c, NEW n, SameDataset(c, n)
  PROVE  Keeps(c, n)
  BY DEF SameDataset, Keeps, Serves, validateDatasetAPI, datasetAPIConfigured, TokensOf

\* What Serves says of the tokens.
LEMMA ServesTokens ==
  ASSUME NEW c
  PROVE  Serves(c) <=> /\ c.secret /\ c.fields # {}
                       /\ \A p \in Project : c.tokens[p] # None => c.tokens[p].fields # {} /\ c.tokens[p].fields \subseteq c.fields
  BY DEF Serves, validateDatasetAPI, datasetAPIConfigured, TokensOf

\* A token that is deleted, or replaced by one with the same fields, takes nothing away.
LEMMA ReplacedToken ==
  ASSUME NEW c, NEW n, NEW p \in Project, NEW v,
         c.tokens \in [Project -> TokenRec \cup {None}],
         n.fields = c.fields, n.secret = c.secret, n.tokens = [c.tokens EXCEPT ![p] = v],
         v = None \/ (c.tokens[p] # None /\ v.fields = c.tokens[p].fields)
  PROVE  Serves(c) => Serves(n)
<1> SUFFICES ASSUME Serves(c) PROVE Serves(n)
  OBVIOUS
<1>1. /\ c.secret /\ c.fields # {}
      /\ \A x \in Project : c.tokens[x] # None => c.tokens[x].fields # {} /\ c.tokens[x].fields \subseteq c.fields
  BY ServesTokens
<1>2. \A x \in Project : n.tokens[x] = IF x = p THEN v ELSE c.tokens[x]
  OBVIOUS
<1>3. ASSUME NEW x \in Project, n.tokens[x] # None
      PROVE  n.tokens[x].fields # {} /\ n.tokens[x].fields \subseteq n.fields
  <2>1. CASE x = p
    BY <2>1, <1>1, <1>2, <1>3
  <2>2. CASE x # p
    BY <2>2, <1>1, <1>2, <1>3
  <2> QED BY <2>1, <2>2
<1> QED BY <1>1, <1>3, ServesTokens

DatasetEdit(r) ==
  \/ apiCreateDatasetProjectToken(r) \/ apiUpdateDatasetProjectScopes(r) \/ apiDeleteDatasetProjectToken(r)
  \/ apiCompleteDatasetFields(r) \/ SaveDailyFields(r) \/ SaveChildFields(r)

\* An edit of the dataset API, made from a copy that is at least as new as the one it
\* is compared with, keeps what the latter promised.
LEMMA DatasetEdits ==
  ASSUME NEW r \in Requests, cfg \in Config, old[r] \in Config, Keeps(old[r], cfg), DatasetEdit(r)
  PROVE  \E n \in Config : Submit(r, n) /\ Keeps(old[r], n)
<1> DEFINE o == old[r]
<1>0. /\ None \notin TokenRec
      /\ \A c \in Config : /\ c.fields \subseteq Field /\ c.child \subseteq Field /\ c.secret \in BOOLEAN
                           /\ c.tokens \in [Project -> TokenRec \cup {None}]
  BY StartAssumption DEF Config
<1>1. CASE apiCreateDatasetProjectToken(r)
  <2>1. PICK p \in Project, scope \in {"daily", "child", "detail"} :
          /\ o.tokens[p] = None
          /\ Submit(r, [cfg EXCEPT !.secret = TRUE, !.tokens[p] = [fields |-> o.fields, scope |-> scope]])
    BY <1>1 DEF apiCreateDatasetProjectToken
  <2> DEFINE v == [fields |-> o.fields, scope |-> scope]
             n == [cfg EXCEPT !.secret = TRUE, !.tokens[p] = v]
  <2>2. v \in TokenRec /\ v.fields = o.fields
    BY <1>0 DEF TokenRec
  <2>3. /\ n \in Config /\ n.fields = cfg.fields /\ n.secret = TRUE
        /\ n.tokens = [cfg.tokens EXCEPT ![p] = v]
    BY <2>2 DEF Config
  <2>4. Serves(o) => Serves(n)
    <3> SUFFICES ASSUME Serves(o) PROVE Serves(n)
      OBVIOUS
    <3>1. Serves(cfg) /\ o.fields # {} /\ o.fields \subseteq cfg.fields
      BY ServesTokens DEF Keeps
    <3>2. \A x \in Project : cfg.tokens[x] # None => cfg.tokens[x].fields # {} /\ cfg.tokens[x].fields \subseteq cfg.fields
      BY <3>1, ServesTokens
    <3> HIDE DEF n, v, o
    <3>3. \A x \in Project : n.tokens[x] # None => n.tokens[x].fields # {} /\ n.tokens[x].fields \subseteq n.fields
      BY <3>1, <3>2, <2>2, <2>3, <1>0
    <3> QED BY <3>1, <3>3, <2>3, ServesTokens
  <2>5. Keeps(o, n)
    BY <2>3, <2>4 DEF Keeps
  <2> QED BY <2>1, <2>3, <2>5
<1>2. CASE apiUpdateDatasetProjectScopes(r)
  <2>1. PICK p \in TokensOf(cfg), scope \in {"daily", "child", "detail"} :
          Submit(r, [cfg EXCEPT !.tokens[p].scope = scope])
    BY <1>2 DEF apiUpdateDatasetProjectScopes
  <2> DEFINE v == [cfg.tokens[p] EXCEPT !.scope = scope]
             n == [cfg EXCEPT !.tokens[p].scope = scope]
  <2>2. p \in Project /\ cfg.tokens[p] \in TokenRec /\ v \in TokenRec /\ v.fields = cfg.tokens[p].fields
    BY TokenShape DEF TokenRec
  <2>3. /\ n \in Config /\ n.fields = cfg.fields /\ n.secret = cfg.secret
        /\ n.tokens = [cfg.tokens EXCEPT ![p] = v]
    BY <2>2, EditedToken
  <2>4. cfg.tokens[p] # None
    BY DEF TokensOf
  <2>5. Serves(cfg) => Serves(n)
    <3> HIDE DEF n, v
    <3> QED BY <2>2, <2>3, <2>4, <1>0, ReplacedToken
  <2>6. Keeps(o, n)
    BY <2>3, <2>5 DEF Keeps
  <2> QED BY <2>1, <2>3, <2>6
<1>3. CASE apiDeleteDatasetProjectToken(r)
  <2>1. PICK p \in TokensOf(cfg) : Submit(r, [cfg EXCEPT !.tokens[p] = None])
    BY <1>3 DEF apiDeleteDatasetProjectToken
  <2> DEFINE n == [cfg EXCEPT !.tokens[p] = None]
  <2>2. /\ n \in Config /\ n.fields = cfg.fields /\ n.secret = cfg.secret
        /\ n.tokens = [cfg.tokens EXCEPT ![p] = None]
    BY EditedToken, TokenShape
  <2>3. Serves(cfg) => Serves(n)
    <3> HIDE DEF n
    <3> QED BY <2>2, <1>0, TokenShape, ReplacedToken
  <2>4. Keeps(o, n)
    BY <2>2, <2>3 DEF Keeps
  <2> QED BY <2>1, <2>2, <2>4
<1>4. CASE apiCompleteDatasetFields(r)
  <2> DEFINE n == [cfg EXCEPT !.fields = cfg.fields \cup Field]
  <2>1. Submit(r, n)
    BY <1>4 DEF apiCompleteDatasetFields, completeDatasetFieldAllowlist
  <2>2. n \in Config /\ n.fields = cfg.fields \cup Field /\ n.secret = cfg.secret /\ n.tokens = cfg.tokens
    BY DEF Config
  <2>3. Serves(cfg) => Serves(n)
    <3> HIDE DEF n
    <3> QED BY <2>2, <1>0, ServesTokens
  <2>4. Keeps(o, n)
    BY <2>2, <2>3 DEF Keeps
  <2> QED BY <2>1, <2>2, <2>4
<1>5. CASE SaveDailyFields(r)
  <2>1. PICK fields \in FieldLists : /\ Published(o, "daily") => fields = o.fields
                                     /\ Submit(r, WithFields(cfg, fields))
    BY <1>5 DEF SaveDailyFields
  <2> DEFINE n == WithFields(cfg, fields)
             toks == [p \in Project |-> IF cfg.tokens[p] = None THEN None ELSE [cfg.tokens[p] EXCEPT !.fields = fields]]
  <2>2. o.fields # {} => fields = o.fields
    BY <2>1 DEF Published
  <2>3. fields \subseteq Field /\ fields # {}
    BY DEF FieldLists
  <2>4. \A p \in Project : /\ toks[p] \in TokenRec \cup {None}
                           /\ toks[p] # None => toks[p].fields = fields
    BY <1>0, <2>3 DEF TokenRec
  <2>5. n \in Config /\ n.fields = fields /\ n.secret = cfg.secret /\ n.tokens = toks
    <3>1. toks \in [Project -> TokenRec \cup {None}]
      BY <2>4
    <3>2. n = [cfg EXCEPT !.fields = fields, !.tokens = toks]
      BY DEF WithFields
    <3> HIDE DEF n, toks
    <3> QED BY <2>3, <3>1, <3>2 DEF Config
  <2>6. Serves(cfg) => Serves(n)
    <3> HIDE DEF n, toks
    <3> QED BY <2>3, <2>4, <2>5, ServesTokens
  <2>7. Keeps(o, n)
    BY <2>2, <2>5, <2>6 DEF Keeps
  <2> QED BY <2>1, <2>5, <2>7
<1>6. CASE SaveChildFields(r)
  <2>1. PICK fields \in FieldLists : Submit(r, [cfg EXCEPT !.child = fields])
    BY <1>6 DEF SaveChildFields
  <2> DEFINE n == [cfg EXCEPT !.child = fields]
  <2>2. n \in Config /\ SameDataset(cfg, n)
    BY DEF Config, FieldLists, SameDataset
  <2>3. Keeps(o, n)
    BY <2>2, SameDatasetKeeps, KeepsTransitive
  <2> QED BY <2>1, <2>2, <2>3
<1> QED BY <1>1, <1>2, <1>3, <1>4, <1>5, <1>6 DEF DatasetEdit

\* Both together: what Edit submits.
LEMMA EditKeeps ==
  ASSUME NEW r \in Requests, cfg \in Config, old[r] \in Config, Keeps(old[r], cfg), Edit(r)
  PROVE  Refuse(r) \/ \E n \in Config : Submit(r, n) /\ Keeps(old[r], n)
<1>1. CASE AccountEdit(r)
  BY <1>1, AccountEdits, SameDatasetKeeps, KeepsTransitive
<1>2. CASE DatasetEdit(r)
  BY <1>2, DatasetEdits
<1> QED BY <1>1, <1>2 DEF Edit, AccountEdit, DatasetEdit

-----------------------------------------------------------------------------
(* The inductive invariant *)

\* A request has read what its step needs.
HasRead == {"read", "submitted", "locked", "renamed", "saved", "rebuilt"}
HasCopy == {"loaded", "submitted", "locked", "renamed", "saved", "rebuilt"}
Reads ==
  \A r \in Requests :
    /\ pc[r] \in HasRead <=> old[r] # None
    /\ pc[r] \in HasCopy <=> snap[r] # None
    /\ ~up => pc[r] = "idle"

\* saveMu is held exactly by the request between its check and the switch in memory, so
\* the configuration it has checked is still in force; the file is ahead of the memory
\* only between the rename and the switch.
Saves ==
  /\ \A r \in Requests :
       /\ pc[r] \in {"locked", "renamed"} <=> saveMu = r
       /\ pc[r] \in {"locked", "renamed"} => cfg = old[r]
       /\ pc[r] \in {"locked", "renamed", "saved", "rebuilt"} => validate(snap[r])
       /\ pc[r] = "renamed" /\ ~handEdited => file = snap[r]
  /\ up /\ ~handEdited /\ (\A r \in Requests : pc[r] # "renamed") => cfg = file

\* What was read is kept by what is in force, and by what will be.
Promises ==
  \A r \in Requests :
    /\ old[r] # None => Keeps(old[r], cfg)
    /\ pc[r] \in {"submitted", "locked", "renamed"} => Keeps(old[r], snap[r])

IInv == TypeOK /\ Reads /\ Saves /\ Promises

LEMMA JobsType ==
  ASSUME NEW c \in Config, NEW workers, NEW reports \in BOOLEAN
  PROVE  Jobs(c, workers, reports) \in [endpoints : SUBSET (Endpoint \X (0..1)), checks : SUBSET Account, reports : BOOLEAN]
<1>1. EndpointJobs(c, workers) \subseteq Endpoint \X (0..1)
  <2> SUFFICES ASSUME NEW e \in EndpointsOf(c) PROVE <<e, c.endpoints[e].hot>> \in Endpoint \X (0..1)
    BY DEF EndpointJobs
  <2> QED BY EndpointShape DEF EndpointRec
<1>2. CheckJobs(c) \subseteq Account
  BY DEF CheckJobs, AccountsOf
<1> QED BY <1>1, <1>2 DEF Jobs

LEMMA RatesType ==
  ASSUME NEW c \in Config, NEW rates \in [Group \X Path -> {0, 1, None}]
  PROVE  RatesAfter(c, rates) \in [Group \X Path -> {0, 1, None}]
<1> SUFFICES ASSUME NEW k \in Group \X Path, \E e \in EndpointsOf(c) : limiterKey(c, e) = k
             PROVE  c.endpoints[CHOOSE e \in EndpointsOf(c) : limiterKey(c, e) = k].hot \in {0, 1}
  BY DEF RatesAfter
<1>1. (CHOOSE e \in EndpointsOf(c) : limiterKey(c, e) = k) \in EndpointsOf(c)
  OBVIOUS
<1> QED BY <1>1, EndpointShape DEF EndpointRec

LEMMA NoRatesType == NoRates \in [Group \X Path -> {0, 1, None}]
  BY DEF NoRates

LEMMA BuildsType ==
  ASSUME NEW c \in Config, Builds(c)
  PROVE  /\ cfg' \in Config /\ served' \in Config
         /\ sched' \in [endpoints : SUBSET (Endpoint \X (0..1)), checks : SUBSET Account, reports : BOOLEAN]
         /\ reg' \in [Endpoint -> EndpointRec \cup {None}]
         /\ limits' \in [Group \X Path -> {0, 1, None}]
<1>1. c.endpoints \in [Endpoint -> EndpointRec \cup {None}]
  BY DEF Config
<1> QED BY <1>1, JobsType, RatesType, NoRatesType DEF Builds

LEMMA InitInv == Init => IInv
<1> SUFFICES ASSUME Init PROVE IInv
  OBVIOUS
<1>1. file \in Config /\ cfg = file /\ served = file
  BY StartAssumption DEF Init
<1>2. file.endpoints \in [Endpoint -> EndpointRec \cup {None}]
  BY <1>1 DEF Config
<1>3. TypeOK
  BY <1>1, <1>2, JobsType, RatesType, NoRatesType DEF Init, TypeOK
<1>4. Reads /\ Saves /\ Promises
  BY <1>1, StartAssumption DEF Init, Reads, Saves, Promises, HasRead, HasCopy
<1> QED BY <1>3, <1>4 DEF IInv

LEMMA LeavesType ==
  ASSUME NEW r \in Requests, TypeOK, Leaves(r)
  PROVE  /\ pc' \in [Requests -> {"idle", "loaded", "read", "submitted", "locked", "renamed", "saved", "rebuilt"}]
         /\ job' \in [Requests -> {"edit", "reload"}]
         /\ old' \in [Requests -> Config \cup {None}] /\ snap' \in [Requests -> Config \cup {None}]
  BY DEF Leaves, TypeOK

LEMMA TypeStep == IInv /\ [Next]_vars => TypeOK'
<1> SUFFICES ASSUME IInv, [Next]_vars PROVE TypeOK'
  OBVIOUS
<1>0. None \notin Config /\ TypeOK /\ Reads /\ Promises
  BY StartAssumption DEF IInv
<1> USE DEF requestVars, liveVars, noteVars
<1>r. ASSUME NEW r \in Requests, Request(r) PROVE TypeOK'
  <2>0. /\ pc[r] \in HasRead => old[r] \in Config
        /\ pc[r] \in HasCopy => snap[r] \in Config
    BY <1>0 DEF Reads, TypeOK
  <2>1. CASE ReadCurrent(r)
    BY <1>0, <2>1 DEF ReadCurrent, TypeOK
  <2>2. CASE Edit(r)
    <3>1. old[r] \in Config /\ Keeps(old[r], cfg) /\ cfg \in Config
      BY <1>0, <2>0, <2>2 DEF Edit, HasRead, Promises, TypeOK
    <3>2. Refuse(r) \/ \E n \in Config : Submit(r, n)
      BY <2>2, <3>1, EditKeeps
    <3> QED BY <3>2, <1>0 DEF Refuse, Leaves, Submit, TypeOK
  <2>3. CASE LoadFile(r)
    BY <1>0, <2>3 DEF LoadFile, TypeOK
  <2>4. CASE ReloadCompares(r)
    <3>1. CASE ClassifyChange(cfg, snap[r]) = "restart"
      BY <1>0, <2>4, <3>1, LeavesType DEF ReloadCompares, TypeOK
    <3>2. CASE ClassifyChange(cfg, snap[r]) # "restart"
      BY <1>0, <2>4, <3>2 DEF ReloadCompares, TypeOK
    <3> QED BY <3>1, <3>2
  <2>5. CASE LockSave(r)
    BY <1>0, <2>5 DEF LockSave, TypeOK
  <2>5a. CASE RejectSave(r)
    BY <1>0, <2>5a, LeavesType DEF RejectSave, TypeOK
  <2>5b. CASE FailWrite(r)
    BY <1>0, <2>5b, LeavesType DEF FailWrite, TypeOK
  <2>6. CASE Rename(r) \/ Switch(r)
    BY <1>0, <2>0, <2>6 DEF Rename, Switch, HasCopy, TypeOK
  <2>7. CASE AnswerSaved(r)
    BY <1>0, <2>0, <2>7, LeavesType DEF AnswerSaved, HasCopy, TypeOK
  <2>8. CASE Rebuild(r)
    <3>1. snap[r] \in Config /\ sched' = Jobs(snap[r], Workers, TRUE)
      BY <2>0, <2>8 DEF Rebuild, HasCopy
    <3>2. sched' \in [endpoints : SUBSET (Endpoint \X (0..1)), checks : SUBSET Account, reports : BOOLEAN]
      BY <3>1, JobsType
    <3> QED BY <1>0, <2>8, <3>2 DEF Rebuild, TypeOK
  <2>8a. CASE RebuildFails(r)
    <3>1. snap[r] \in Config /\ sched' = Jobs(snap[r], Workers, FALSE)
      BY <2>0, <2>8a DEF RebuildFails, HasCopy
    <3>2. sched' \in [endpoints : SUBSET (Endpoint \X (0..1)), checks : SUBSET Account, reports : BOOLEAN]
      BY <3>1, JobsType
    <3> QED BY <1>0, <2>8a, <3>2, LeavesType DEF RebuildFails, TypeOK
  <2>9. CASE HandOver(r)
    <3>1. snap[r] \in Config /\ served' = snap[r]
      BY <2>0, <2>9 DEF HandOver, HasCopy
    <3>2. limits' \in [Group \X Path -> {0, 1, None}]
      BY <1>0, <2>9, <3>1, RatesType DEF HandOver, TypeOK
    <3>3. reg' \in [Endpoint -> EndpointRec \cup {None}]
      BY <1>0, <2>9, <3>1, EndpointShape DEF HandOver, TypeOK
    <3> QED BY <1>0, <2>9, <3>1, <3>2, <3>3, LeavesType DEF HandOver, TypeOK
  <2> QED BY <1>r, <2>1, <2>2, <2>3, <2>4, <2>5, <2>5a, <2>5b, <2>6, <2>7, <2>8, <2>8a, <2>9 DEF Request
<1>1. CASE Crash
  <2>1. /\ pc' \in [Requests -> {"idle", "loaded", "read", "submitted", "locked", "renamed", "saved", "rebuilt"}]
        /\ job' \in [Requests -> {"edit", "reload"}]
        /\ old' \in [Requests -> Config \cup {None}] /\ snap' \in [Requests -> Config \cup {None}]
    BY <1>1 DEF Crash, NoRequests
  <2>2. /\ saveMu' = None /\ up' \in BOOLEAN /\ faults' = faults + 1
        /\ UNCHANGED <<file, cfg, liveVars, edits, handEdited, warned, raced>>
    BY <1>1 DEF Crash
  <2> QED BY <1>0, <2>1, <2>2 DEF TypeOK
<1>2. CASE Restart
  <2>1. file \in Config /\ Builds(file)
    BY <1>0, <1>2 DEF Restart, TypeOK
  <2>2. /\ cfg' \in Config /\ served' \in Config
        /\ sched' \in [endpoints : SUBSET (Endpoint \X (0..1)), checks : SUBSET Account, reports : BOOLEAN]
        /\ reg' \in [Endpoint -> EndpointRec \cup {None}]
        /\ limits' \in [Group \X Path -> {0, 1, None}]
    BY <2>1, BuildsType
  <2> QED BY <1>0, <1>2, <2>2 DEF Restart, TypeOK
<1>3. CASE EditFile
  <2>1. PICK e \in EndpointsOf(file), hot \in 0..1, path \in Path :
          file' = [file EXCEPT !.endpoints[e].hot = hot, !.endpoints[e].path = path]
    BY <1>3 DEF EditFile
  <2> DEFINE v == [file.endpoints[e] EXCEPT !.hot = hot, !.path = path]
  <2>0. file \in Config
    BY <1>0 DEF TypeOK
  <2>2. e \in Endpoint /\ v \in EndpointRec
    BY <2>0, EndpointShape DEF EndpointRec
  <2>3. file' = [file EXCEPT !.endpoints[e] = v]
    BY <2>0, <2>1, <2>2, EndpointShape DEF Config, EndpointRec
  <2>4. file' \in Config
    BY <2>0, <2>2, <2>3, EditedEndpoint
  <2> QED BY <1>0, <1>3, <2>4 DEF EditFile, TypeOK
<1>4. CASE UNCHANGED vars
  BY <1>0, <1>4 DEF vars, TypeOK
<1> QED BY <1>r, <1>1, <1>2, <1>3, <1>4 DEF Next

LEMMA ReadsStep == IInv /\ [Next]_vars => Reads'
<1> SUFFICES ASSUME IInv, [Next]_vars, NEW q \in Requests
             PROVE  /\ (pc[q] \in HasRead <=> old[q] # None)'
                    /\ (pc[q] \in HasCopy <=> snap[q] # None)'
                    /\ (~up => pc[q] = "idle")'
  BY DEF Reads
<1>0. /\ None \notin Config /\ cfg # None /\ file # None
      /\ pc \in [Requests -> {"idle", "loaded", "read", "submitted", "locked", "renamed", "saved", "rebuilt"}]
      /\ old \in [Requests -> Config \cup {None}] /\ snap \in [Requests -> Config \cup {None}]
      /\ pc[q] \in HasRead <=> old[q] # None
      /\ pc[q] \in HasCopy <=> snap[q] # None
      /\ ~up => pc[q] = "idle"
      /\ Reads /\ Promises /\ cfg \in Config
  BY StartAssumption DEF IInv, TypeOK, Reads
<1> USE DEF requestVars, liveVars, noteVars
<1>r. ASSUME NEW r \in Requests, Request(r)
      PROVE  /\ (pc[q] \in HasRead <=> old[q] # None)'
             /\ (pc[q] \in HasCopy <=> snap[q] # None)'
             /\ (~up => pc[q] = "idle")'
  <2>1. CASE ReadCurrent(r)
    BY <1>0, <2>1 DEF ReadCurrent, HasRead, HasCopy
  <2>2. CASE Edit(r)
    <3>1. pc[r] = "read" /\ up /\ old[r] \in Config /\ Keeps(old[r], cfg)
      BY <1>0, <2>2 DEF Edit, HasRead, Promises, Reads
    <3>2. Refuse(r) \/ \E n \in Config : Submit(r, n)
      BY <1>0, <2>2, <3>1, EditKeeps
    <3>3. CASE Refuse(r)
      BY <1>0, <3>1, <3>3 DEF Refuse, Leaves, HasRead, HasCopy
    <3>4. ASSUME NEW n \in Config, Submit(r, n)
          PROVE  /\ (pc[q] \in HasRead <=> old[q] # None)'
                 /\ (pc[q] \in HasCopy <=> snap[q] # None)'
                 /\ (~up => pc[q] = "idle")'
      <4>1. n # None
        BY <1>0
      <4> QED BY <1>0, <3>1, <3>4, <4>1 DEF Submit, HasRead, HasCopy
    <3> QED BY <3>2, <3>3, <3>4
  <2>3. CASE LoadFile(r)
    BY <1>0, <2>3 DEF LoadFile, HasRead, HasCopy
  <2>4. CASE ReloadCompares(r)
    BY <1>0, <2>4 DEF ReloadCompares, Leaves, HasRead, HasCopy
  <2>5. CASE LockSave(r)
    BY <1>0, <2>5 DEF LockSave, HasRead, HasCopy
  <2>6. CASE RejectSave(r)
    BY <1>0, <2>6 DEF RejectSave, Leaves, HasRead, HasCopy
  <2>7. CASE FailWrite(r)
    BY <1>0, <2>7 DEF FailWrite, Leaves, HasRead, HasCopy
  <2>8. CASE Rename(r)
    BY <1>0, <2>8 DEF Rename, HasRead, HasCopy
  <2>9. CASE Switch(r)
    BY <1>0, <2>9 DEF Switch, HasRead, HasCopy
  <2>10. CASE AnswerSaved(r)
    BY <1>0, <2>10 DEF AnswerSaved, Leaves, HasRead, HasCopy
  <2>11. CASE Rebuild(r)
    BY <1>0, <2>11 DEF Rebuild, HasRead, HasCopy
  <2>12. CASE RebuildFails(r)
    BY <1>0, <2>12 DEF RebuildFails, Leaves, HasRead, HasCopy
  <2>13. CASE HandOver(r)
    BY <1>0, <2>13 DEF HandOver, Leaves, HasRead, HasCopy
  <2> QED BY <1>r, <2>1, <2>2, <2>3, <2>4, <2>5, <2>6, <2>7, <2>8, <2>9, <2>10, <2>11, <2>12, <2>13 DEF Request
<1>1. CASE Crash
  BY <1>0, <1>1 DEF Crash, NoRequests, HasRead, HasCopy
<1>2. CASE Restart
  BY <1>0, <1>2 DEF Restart
<1>3. CASE EditFile
  BY <1>0, <1>3 DEF EditFile
<1>4. CASE UNCHANGED vars
  BY <1>0, <1>4 DEF vars
<1> QED BY <1>r, <1>1, <1>2, <1>3, <1>4 DEF Next

LEMMA SavesStep == IInv /\ [Next]_vars => Saves'
<1> SUFFICES ASSUME IInv, [Next]_vars PROVE Saves'
  OBVIOUS
<1>0. /\ None \notin Requests
      /\ pc \in [Requests -> {"idle", "loaded", "read", "submitted", "locked", "renamed", "saved", "rebuilt"}]
      /\ old \in [Requests -> Config \cup {None}] /\ snap \in [Requests -> Config \cup {None}]
      /\ cfg \in Config /\ Reads /\ Saves /\ Promises
  BY StartAssumption DEF IInv, TypeOK
<1> USE DEF requestVars, liveVars, noteVars
\* Outside the section that saveMu protects nothing it covers changes.
<1>a. ASSUME NEW r \in Requests, pc[r] \notin {"locked", "renamed"}, pc'[r] \notin {"locked", "renamed"},
             pc'[r] \in {"saved", "rebuilt"} => pc[r] \in {"saved", "rebuilt"} /\ snap' = snap,
             \A q \in Requests \ {r} : pc'[q] = pc[q] /\ old'[q] = old[q] /\ snap'[q] = snap[q],
             UNCHANGED <<file, cfg, saveMu, up, handEdited>>
      PROVE  Saves'
  BY <1>0, <1>a DEF Saves
<1>r. ASSUME NEW r \in Requests, Request(r) PROVE Saves'
  <2>1. CASE ReadCurrent(r)
    BY <1>0, <1>a, <2>1 DEF ReadCurrent
  <2>2. CASE Edit(r)
    <3>1. pc[r] = "read" /\ old[r] \in Config /\ Keeps(old[r], cfg)
      BY <1>0, <2>2 DEF Edit, HasRead, Promises, Reads
    <3>2. Refuse(r) \/ \E n \in Config : Submit(r, n)
      BY <1>0, <2>2, <3>1, EditKeeps
    <3>3. CASE Refuse(r)
      BY <1>0, <1>a, <3>1, <3>3 DEF Refuse, Leaves
    <3>4. ASSUME NEW n \in Config, Submit(r, n) PROVE Saves'
      BY <1>0, <1>a, <3>1, <3>4 DEF Submit
    <3> QED BY <3>2, <3>3, <3>4
  <2>3. CASE LoadFile(r)
    BY <1>0, <1>a, <2>3 DEF LoadFile
  <2>4. CASE ReloadCompares(r)
    BY <1>0, <1>a, <2>4 DEF ReloadCompares, Leaves
  <2>5. CASE LockSave(r)
    BY <1>0, <2>5 DEF LockSave, Accepts, Saves
  <2>6. CASE RejectSave(r)
    BY <1>0, <1>a, <2>6 DEF RejectSave, Leaves
  <2>7. CASE FailWrite(r)
    BY <1>0, <2>7 DEF FailWrite, Leaves, Saves
  <2>8. CASE Rename(r)
    BY <1>0, <2>8 DEF Rename, Saves
  <2>9. CASE Switch(r)
    BY <1>0, <2>9 DEF Switch, Saves
  <2>10. CASE AnswerSaved(r)
    BY <1>0, <1>a, <2>10 DEF AnswerSaved, Leaves
  <2>11. CASE Rebuild(r)
    BY <1>0, <1>a, <2>11 DEF Rebuild
  <2>12. CASE RebuildFails(r)
    BY <1>0, <1>a, <2>12 DEF RebuildFails, Leaves
  <2>13. CASE HandOver(r)
    BY <1>0, <1>a, <2>13 DEF HandOver, Leaves
  <2> QED BY <1>r, <2>1, <2>2, <2>3, <2>4, <2>5, <2>6, <2>7, <2>8, <2>9, <2>10, <2>11, <2>12, <2>13 DEF Request
<1>1. CASE Crash
  BY <1>0, <1>1 DEF Crash, NoRequests, Saves
<1>2. CASE Restart
  BY <1>0, <1>2 DEF Restart, Builds, Saves, Reads
<1>3. CASE EditFile
  BY <1>0, <1>3 DEF EditFile, Saves
<1>4. CASE UNCHANGED vars
  BY <1>0, <1>4 DEF vars, Saves
<1> QED BY <1>r, <1>1, <1>2, <1>3, <1>4 DEF Next

\* A reload that is applied publishes what was published.
LEMMA ReloadKeeps ==
  ASSUME NEW c, NEW n, ClassifyChange(c, n) # "restart"
  PROVE  ~NeedsRestart(c, n) /\ Keeps(c, n)
<1>1. ~NeedsRestart(c, n)
  BY DEF ClassifyChange
<1>2. CASE datasetAPIConfigured(c)
  <2>1. DatasetAPI(c) = DatasetAPI(n)
    BY <1>1, <1>2 DEF NeedsRestart
  <2>2. SameDataset(c, n)
    BY <2>1 DEF DatasetAPI, SameDataset
  <2> QED BY <1>1, <2>2, SameDatasetKeeps
<1>3. CASE ~datasetAPIConfigured(c)
  <2>1. c.fields = {}
    BY <1>3 DEF datasetAPIConfigured
  <2> QED BY <1>1, <2>1 DEF Keeps, Serves
<1> QED BY <1>2, <1>3

LEMMA PromisesStep == IInv /\ [Next]_vars => Promises'
<1> SUFFICES ASSUME IInv, [Next]_vars PROVE Promises'
  OBVIOUS
<1>0. /\ None \notin Config /\ cfg \in Config
      /\ pc \in [Requests -> {"idle", "loaded", "read", "submitted", "locked", "renamed", "saved", "rebuilt"}]
      /\ old \in [Requests -> Config \cup {None}] /\ snap \in [Requests -> Config \cup {None}]
      /\ Reads /\ Saves /\ Promises
  BY StartAssumption DEF IInv, TypeOK
<1> USE DEF requestVars, liveVars, noteVars
\* A step that changes neither what is in force nor what was read and submitted.
<1>a. ASSUME cfg' = cfg,
             \A q \in Requests :
               /\ old'[q] \in {old[q], None}
               /\ pc'[q] \in {"submitted", "locked", "renamed"} =>
                    pc[q] \in {"submitted", "locked", "renamed"} /\ old'[q] = old[q] /\ snap'[q] = snap[q]
      PROVE  Promises'
  BY <1>0, <1>a DEF Promises
<1>r. ASSUME NEW r \in Requests, Request(r) PROVE Promises'
  <2>1. CASE ReadCurrent(r)
    <3>1. /\ cfg' = cfg /\ old' = [old EXCEPT ![r] = cfg] /\ snap' = snap /\ pc' = [pc EXCEPT ![r] = "read"]
      BY <2>1 DEF ReadCurrent
    <3> QED BY <1>0, <3>1, KeepsReflexive DEF Promises
  <2>2. CASE Edit(r)
    <3>1. pc[r] = "read" /\ old[r] \in Config /\ Keeps(old[r], cfg)
      BY <1>0, <2>2 DEF Edit, HasRead, Promises, Reads
    <3>2. Refuse(r) \/ \E n \in Config : Submit(r, n) /\ Keeps(old[r], n)
      BY <1>0, <2>2, <3>1, EditKeeps
    <3>3. CASE Refuse(r)
      BY <1>0, <1>a, <3>1, <3>3 DEF Refuse, Leaves
    <3>4. ASSUME NEW n \in Config, Submit(r, n), Keeps(old[r], n) PROVE Promises'
      BY <1>0, <3>4 DEF Submit, Promises
    <3> QED BY <3>2, <3>3, <3>4
  <2>3. CASE LoadFile(r)
    BY <1>0, <1>a, <2>3 DEF LoadFile
  <2>4. CASE ReloadCompares(r)
    <3>1. CASE ClassifyChange(cfg, snap[r]) = "restart"
      BY <1>0, <1>a, <2>4, <3>1 DEF ReloadCompares, Leaves
    <3>2. CASE ClassifyChange(cfg, snap[r]) # "restart"
      <4>1. Keeps(cfg, cfg) /\ Keeps(cfg, snap[r])
        BY <3>2, ReloadKeeps, KeepsReflexive
      <4>2. /\ cfg' = cfg /\ old' = [old EXCEPT ![r] = cfg] /\ snap' = snap /\ pc' = [pc EXCEPT ![r] = "submitted"]
        BY <2>4, <3>2 DEF ReloadCompares
      <4> QED BY <1>0, <4>1, <4>2 DEF Promises
    <3> QED BY <3>1, <3>2
  <2>5. CASE LockSave(r)
    BY <1>0, <1>a, <2>5 DEF LockSave
  <2>6. CASE RejectSave(r)
    BY <1>0, <1>a, <2>6 DEF RejectSave, Leaves
  <2>7. CASE FailWrite(r)
    BY <1>0, <1>a, <2>7 DEF FailWrite, Leaves
  <2>8. CASE Rename(r)
    BY <1>0, <1>a, <2>8 DEF Rename
  <2>9. CASE Switch(r)
    <3>1. pc[r] = "renamed" /\ cfg' = snap[r] /\ old' = old /\ snap' = snap /\ pc' = [pc EXCEPT ![r] = "saved"]
      BY <2>9 DEF Switch
    <3>2. cfg = old[r] /\ Keeps(old[r], snap[r])
      BY <1>0, <3>1 DEF Saves, Promises
    <3>3. \A q \in Requests : old[q] # None => Keeps(old[q], cfg')
      BY <1>0, <3>1, <3>2, KeepsTransitive DEF Promises
    <3> QED BY <1>0, <3>1, <3>3 DEF Promises
  <2>10. CASE AnswerSaved(r)
    BY <1>0, <1>a, <2>10 DEF AnswerSaved, Leaves
  <2>11. CASE Rebuild(r)
    BY <1>0, <1>a, <2>11 DEF Rebuild
  <2>12. CASE RebuildFails(r)
    BY <1>0, <1>a, <2>12 DEF RebuildFails, Leaves
  <2>13. CASE HandOver(r)
    BY <1>0, <1>a, <2>13 DEF HandOver, Leaves
  <2> QED BY <1>r, <2>1, <2>2, <2>3, <2>4, <2>5, <2>6, <2>7, <2>8, <2>9, <2>10, <2>11, <2>12, <2>13 DEF Request
<1>1. CASE Crash
  BY <1>0, <1>a, <1>1 DEF Crash, NoRequests
<1>2. CASE Restart
  BY <1>0, <1>2 DEF Restart, Promises, Reads, HasRead
<1>3. CASE EditFile
  BY <1>0, <1>a, <1>3 DEF EditFile
<1>4. CASE UNCHANGED vars
  BY <1>0, <1>a, <1>4 DEF vars
<1> QED BY <1>r, <1>1, <1>2, <1>3, <1>4 DEF Next

LEMMA Invariance == Spec => []IInv
<1>1. IInv /\ [Next]_vars => IInv'
  BY TypeStep, ReadsStep, SavesStep, PromisesStep DEF IInv
<1> QED BY InitInv, <1>1, PTL DEF Spec

\* Every variable has its type.
THEOREM TypeCorrect == Spec => []TypeOK
<1>1. IInv => TypeOK
  BY DEF IInv
<1> QED BY Invariance, <1>1, PTL

\* Memory and file never drift apart (ConfigStore.save, config.Load).
THEOREM MemoryMatchesFile == Spec => []MemoryIsFile
<1>1. IInv => MemoryIsFile
  <2> SUFFICES ASSUME IInv, up, saveMu = None, ~handEdited PROVE cfg = file
    BY DEF MemoryIsFile
  <2>1. \A r \in Requests : pc[r] # "renamed"
    BY StartAssumption DEF IInv, Saves
  <2> QED BY <2>1 DEF IInv, Saves
<1> QED BY Invariance, <1>1, PTL

\* How the file changes while nobody edits it by hand.
LEMMA FileStep ==
  IInv /\ [Next]_vars /\ ~handEdited =>
    \/ file' = file
    \/ handEdited' /\ file'.fields = file.fields
    \/ Keeps(file, file') /\ validate(file')
<1> SUFFICES ASSUME IInv, [Next]_vars, ~handEdited, file' # file
             PROVE  \/ handEdited' /\ file'.fields = file.fields
                    \/ Keeps(file, file') /\ validate(file')
  OBVIOUS
<1> USE DEF requestVars, liveVars, noteVars
<1>1. ASSUME NEW r \in Requests, Request(r) PROVE Keeps(file, file') /\ validate(file')
  <2>1. CASE Rename(r)
    <3>1. pc[r] = "locked" /\ up /\ file' = snap[r]
      BY <2>1 DEF Rename
    <3>2. saveMu = r /\ cfg = old[r] /\ validate(snap[r]) /\ Keeps(old[r], snap[r])
      BY <3>1 DEF IInv, Saves, Promises
    <3>3. \A q \in Requests : pc[q] # "renamed"
      BY <3>1, <3>2 DEF IInv, Saves
    <3>4. cfg = file
      BY <3>1, <3>3 DEF IInv, Saves
    <3> QED BY <3>1, <3>2, <3>4
  <2>2. CASE Edit(r)
    <3>1. old[r] \in Config /\ Keeps(old[r], cfg) /\ cfg \in Config
      BY <2>2 DEF Edit, HasRead, IInv, Promises, Reads, TypeOK
    <3>2. Refuse(r) \/ \E n \in Config : Submit(r, n)
      BY <2>2, <3>1, EditKeeps
    <3> QED BY <3>2 DEF Refuse, Submit
  <2> QED BY <1>1, <2>1, <2>2 DEF Request, ReadCurrent, LoadFile, ReloadCompares, LockSave, RejectSave,
             FailWrite, Switch, AnswerSaved, Rebuild, RebuildFails, HandOver
<1>2. CASE EditFile
  <2>1. PICK e \in EndpointsOf(file), hot \in 0..1, path \in Path :
          file' = [file EXCEPT !.endpoints[e].hot = hot, !.endpoints[e].path = path]
    BY <1>2 DEF EditFile
  <2>2. file \in Config
    BY DEF IInv, TypeOK
  <2>3. file'.fields = file.fields
    BY <2>1, <2>2 DEF Config
  <2> QED BY <1>2, <2>3 DEF EditFile
<1> QED BY <1>1, <1>2 DEF Next, Crash, Restart, vars

\* The fields of a published dataset never go away (apiSaveDatasetFieldAllowlist,
\* apiCompleteDatasetFields, apiSettingsReload).
THEOREM FieldsArePermanent == Spec => PublishedFieldsStay
<1>1. IInv /\ [Next]_vars => [~handEdited /\ file.fields # {} => file.fields \subseteq file'.fields]_vars
  <2> SUFFICES ASSUME IInv, [Next]_vars, ~handEdited, file.fields # {}
               PROVE  file.fields \subseteq file'.fields
    OBVIOUS
  <2> QED BY FileStep DEF Keeps
<1> QED BY Invariance, <1>1, PTL DEF Spec, PublishedFieldsStay

\* A service that serves its projects can be started again after any edits, although
\* Save does not check what Load checks.
THEOREM ProjectsAreLoadable == Spec => ProjectsKeepLoading
<1>1. IInv /\ [Next]_vars =>
        [~handEdited /\ ~handEdited' /\ Loads(file) /\ file.secret /\ file.fields # {} => Loads(file')]_vars
  <2> SUFFICES ASSUME IInv, [Next]_vars, ~handEdited, ~handEdited', Loads(file), file.secret, file.fields # {}
               PROVE  Loads(file')
    OBVIOUS
  <2>1. Serves(file) /\ validate(file)
    BY DEF Serves, Loads
  <2>2. CASE file' = file
    BY <2>1, <2>2
  <2>3. CASE Keeps(file, file') /\ validate(file')
    BY <2>1, <2>3 DEF Keeps, Serves, Loads
  <2> QED BY <2>2, <2>3, FileStep
<1> QED BY Invariance, <1>1, PTL DEF Spec, ProjectsKeepLoading

\* The store implements a cell with compare-and-swap (ConfigStore.SaveIfCurrent):
\* reads and answers of requests, the switch in memory and the death of the process map
\* to its steps, every other step to a stutter.
THEOREM StoreIsACell == Spec => CompareAndSwap
<1>1. Init => Cell!Init
  BY DEF Init, Cell!Init
<1>2. IInv /\ [Next]_vars => [Cell!Next]_(Cell!cell)
  <2> SUFFICES ASSUME IInv, [Next]_vars PROVE Cell!Next \/ UNCHANGED <<cfg, old>>
    BY DEF Cell!cell
  <2> USE DEF requestVars, liveVars, noteVars, Cell!Next, Cell!Read, Cell!Leave, Cell!CompareAndSwap, Cell!Reopen
  <2>r. ASSUME NEW r \in Requests, Request(r) PROVE Cell!Next \/ UNCHANGED <<cfg, old>>
    <3>1. CASE ReadCurrent(r)
      BY <3>1 DEF ReadCurrent
    <3>2. CASE Edit(r)
      <4>1. old[r] \in Config /\ Keeps(old[r], cfg) /\ cfg \in Config
        BY <3>2 DEF Edit, HasRead, IInv, Promises, Reads, TypeOK
      <4>2. Refuse(r) \/ \E n \in Config : Submit(r, n)
        BY <3>2, <4>1, EditKeeps
      <4> QED BY <4>2 DEF Refuse, Leaves, Submit
    <3>3. CASE LoadFile(r) \/ LockSave(r) \/ Rename(r) \/ Rebuild(r)
      BY <3>3 DEF LoadFile, LockSave, Rename, Rebuild
    <3>4. CASE ReloadCompares(r)
      BY <3>4 DEF ReloadCompares, Leaves
    <3>5. CASE RejectSave(r) \/ FailWrite(r) \/ AnswerSaved(r) \/ RebuildFails(r) \/ HandOver(r)
      BY <3>5 DEF RejectSave, FailWrite, AnswerSaved, RebuildFails, HandOver, Leaves
    <3>6. CASE Switch(r)
      BY <3>6 DEF Switch, IInv, Saves
    <3> QED BY <2>r, <3>1, <3>2, <3>3, <3>4, <3>5, <3>6 DEF Request
  <2>1. CASE Crash
    BY <2>1 DEF Crash, NoRequests
  <2>2. CASE Restart
    <3>1. old = [r \in Requests |-> None]
      BY <2>2 DEF Restart, IInv, TypeOK, Reads, HasRead
    <3> QED BY <2>2, <3>1 DEF Restart
  <2> QED BY <2>r, <2>1, <2>2 DEF Next, EditFile, vars
<1> QED BY Invariance, <1>1, <1>2, PTL DEF Spec, CompareAndSwap, Cell!Spec

-----------------------------------------------------------------------------
(* What runs is what was saved *)

\* InForce, with the running parts as parameters.
Matches(c, rg, sc, li) ==
  LET workers == {e \in Endpoint : rg[e] # None}
  IN /\ workers = EndpointsOf(c)
     /\ sc = Jobs(c, workers, TRUE)
     /\ \A e \in EndpointsOf(c) :
          /\ rg[e].account = c.endpoints[e].account /\ rg[e].path = c.endpoints[e].path
          /\ rg[e].hot = c.endpoints[e].hot
          /\ li[limiterKey(c, e)] = c.endpoints[e].hot

LEMMA InForceMatches == InForce(cfg) <=> Matches(cfg, reg, sched, limits)
  BY DEF InForce, Matches, Workers

Post == {"saved", "rebuilt"}

\* Between the switch and the hand over the running parts match the configuration that
\* was replaced, and only one request is there as long as raced is false.
Hands ==
  /\ validate(cfg)
  /\ \A r \in Requests :
       /\ pc[r] = "read" => job[r] = "edit"
       /\ job[r] = "reload" /\ pc[r] \in {"submitted", "locked", "renamed", "saved", "rebuilt"}
            => ~NeedsRestart(old[r], snap[r])
  /\ up /\ ~warned /\ ~raced =>
       /\ \A r, q \in Requests : pc[r] \in Post /\ pc[q] \in Post => r = q
       /\ (\A r \in Requests : pc[r] \notin Post) => Matches(cfg, reg, sched, limits)
       /\ \A r \in Requests :
            /\ pc[r] \in Post => cfg = snap[r] /\ validate(old[r])
            /\ pc[r] = "saved" => Matches(old[r], reg, sched, limits)
            /\ pc[r] = "rebuilt" => /\ ~NeedsRestart(old[r], snap[r])
                                    /\ Workers = EndpointsOf(old[r])
                                    /\ sched = Jobs(snap[r], Workers, TRUE)

LEMMA KeyIsTyped ==
  ASSUME NEW c \in Config, validate(c), NEW e \in EndpointsOf(c)
  PROVE  /\ c.endpoints[e].account \in AccountsOf(c)
         /\ limiterKey(c, e) \in Group \X Path
<1>1. c.endpoints[e].account \in AccountsOf(c)
  BY DEF validate
<1>2. c.accounts[c.endpoints[e].account] \in AccountRec /\ c.endpoints[e] \in EndpointRec
  BY <1>1, AccountShape, EndpointShape
<1> QED BY <1>1, <1>2 DEF limiterKey, QuotaGroupOf, AccountRec, EndpointRec

\* No two endpoints share a limiter, so each gets its own rate.
LEMMA RatesAreOwn ==
  ASSUME NEW c \in Config, validate(c), NEW e \in EndpointsOf(c), NEW rates
  PROVE  RatesAfter(c, rates)[limiterKey(c, e)] = c.endpoints[e].hot
<1> DEFINE k == limiterKey(c, e)
           d == CHOOSE x \in EndpointsOf(c) : limiterKey(c, x) = k
<1>1. k \in Group \X Path
  BY KeyIsTyped
<1>2. d \in EndpointsOf(c) /\ limiterKey(c, d) = k
  OBVIOUS
<1>3. d = e
  BY <1>2 DEF validate
<1>4. RatesAfter(c, rates)[k] = c.endpoints[d].hot
  BY <1>1, <1>2 DEF RatesAfter
<1> QED BY <1>3, <1>4

LEMMA BuiltMatches ==
  ASSUME NEW c \in Config, validate(c), NEW rates
  PROVE  Matches(c, c.endpoints, Jobs(c, EndpointsOf(c), TRUE), RatesAfter(c, rates))
<1>1. {e \in Endpoint : c.endpoints[e] # None} = EndpointsOf(c)
  BY DEF EndpointsOf
<1> QED BY <1>1, RatesAreOwn DEF Matches

\* A change of no class the running parts look at leaves them as they have to be.
LEMMA UnchangedMatches ==
  ASSUME NEW o \in Config, NEW n \in Config, validate(o), NEW rg, NEW sc, NEW li,
         Matches(o, rg, sc, li), ~NeedsRestart(o, n), ~HotDiffers(o, n)
  PROVE  Matches(n, rg, sc, li)
<1> DEFINE workers == {e \in Endpoint : rg[e] # None}
<1>1. /\ EndpointsOf(n) = EndpointsOf(o) /\ AccountsOf(n) = AccountsOf(o)
      /\ \A e \in EndpointsOf(o) : /\ n.endpoints[e].account = o.endpoints[e].account
                                   /\ n.endpoints[e].path = o.endpoints[e].path
                                   /\ n.endpoints[e].hot = o.endpoints[e].hot
      /\ \A a \in AccountsOf(o) : /\ n.accounts[a].group = o.accounts[a].group
                                  /\ n.accounts[a].chk = o.accounts[a].chk
  BY DEF NeedsRestart, HotDiffers
<1>2. \A e \in EndpointsOf(o) : limiterKey(n, e) = limiterKey(o, e)
  BY <1>1, KeyIsTyped DEF limiterKey, QuotaGroupOf
<1>3. EndpointJobs(n, workers) = EndpointJobs(o, workers) /\ CheckJobs(n) = CheckJobs(o)
  <2>1. EndpointJobs(n, workers) = EndpointJobs(o, workers)
    BY <1>1 DEF EndpointJobs
  <2>2. CheckJobs(n) = CheckJobs(o)
    BY <1>1 DEF CheckJobs
  <2> QED BY <2>1, <2>2
<1>4. Jobs(n, workers, TRUE) = Jobs(o, workers, TRUE)
  BY <1>3 DEF Jobs
<1> QED BY <1>1, <1>2, <1>4 DEF Matches

LEMMA HandsInit == Init => Hands
<1> SUFFICES ASSUME Init PROVE Hands
  OBVIOUS
<1>1. file \in Config /\ cfg = file /\ validate(file)
  BY StartAssumption DEF Init, Loads
<1>2. Matches(cfg, reg, sched, limits)
  BY <1>1, BuiltMatches DEF Init
<1> QED BY <1>1, <1>2 DEF Init, Hands, Post

LEMMA HandsStep == IInv /\ Hands /\ [Next]_vars => Hands'
<1> SUFFICES ASSUME IInv, Hands, [Next]_vars PROVE Hands'
  OBVIOUS
<1>0. /\ pc \in [Requests -> {"idle", "loaded", "read", "submitted", "locked", "renamed", "saved", "rebuilt"}]
      /\ old \in [Requests -> Config \cup {None}] /\ snap \in [Requests -> Config \cup {None}]
      /\ job \in [Requests -> {"edit", "reload"}] /\ cfg \in Config /\ file \in Config
      /\ reg \in [Endpoint -> EndpointRec \cup {None}]
      /\ Reads /\ Saves /\ Promises /\ Hands
  BY DEF IInv, TypeOK
<1> USE DEF requestVars, liveVars, noteVars
\* A step of requests that are not handing over, and that leaves the rest alone.
<1>a. ASSUME NEW r \in Requests, pc[r] \notin Post, pc'[r] \notin Post,
             \A q \in Requests \ {r} : pc'[q] = pc[q] /\ old'[q] = old[q] /\ snap'[q] = snap[q] /\ job'[q] = job[q],
             pc'[r] = "read" => job'[r] = "edit",
             job'[r] = "reload" /\ pc'[r] \in {"submitted", "locked", "renamed"} => ~NeedsRestart(old'[r], snap'[r]),
             UNCHANGED <<cfg, up, reg, sched, limits, raced>>, warned => warned'
      PROVE  Hands'
  BY <1>0, <1>a DEF Hands, Post, Workers
<1>r. ASSUME NEW r \in Requests, Request(r) PROVE Hands'
  <2>1. CASE ReadCurrent(r)
    BY <1>0, <1>a, <2>1 DEF ReadCurrent, Post
  <2>2. CASE Edit(r)
    <3>1. pc[r] = "read" /\ old[r] \in Config /\ Keeps(old[r], cfg)
      BY <1>0, <2>2 DEF Edit, HasRead, Promises, Reads
    <3>2. Refuse(r) \/ \E n \in Config : Submit(r, n)
      BY <1>0, <2>2, <3>1, EditKeeps
    <3>3. CASE Refuse(r)
      BY <1>0, <1>a, <3>1, <3>3 DEF Refuse, Leaves, Post
    <3>4. ASSUME NEW n \in Config, Submit(r, n) PROVE Hands'
      BY <1>0, <1>a, <3>1, <3>4 DEF Submit, Post, Hands
    <3> QED BY <3>2, <3>3, <3>4
  <2>3. CASE LoadFile(r)
    BY <1>0, <1>a, <2>3 DEF LoadFile, Post
  <2>4. CASE ReloadCompares(r)
    <3>1. CASE ClassifyChange(cfg, snap[r]) = "restart"
      BY <1>0, <1>a, <2>4, <3>1 DEF ReloadCompares, Leaves, Post
    <3>2. CASE ClassifyChange(cfg, snap[r]) # "restart"
      <4>1. ~NeedsRestart(cfg, snap[r])
        BY <3>2, ReloadKeeps
      <4> QED BY <1>0, <1>a, <2>4, <3>2, <4>1 DEF ReloadCompares, Post
    <3> QED BY <3>1, <3>2
  <2>5. CASE LockSave(r)
    BY <1>0, <1>a, <2>5 DEF LockSave, Post, Hands
  <2>6. CASE RejectSave(r)
    BY <1>0, <1>a, <2>6 DEF RejectSave, Leaves, Post
  <2>7. CASE FailWrite(r)
    BY <1>0, <1>a, <2>7 DEF FailWrite, Leaves, Post
  <2>8. CASE Rename(r)
    BY <1>0, <1>a, <2>8 DEF Rename, Post, Hands
  <2>9. CASE Switch(r)
    <3>1. /\ pc[r] = "renamed" /\ cfg' = snap[r] /\ pc' = [pc EXCEPT ![r] = "saved"]
          /\ raced' = (raced \/ \E q \in Requests \ {r} : pc[q] \in Post)
          /\ UNCHANGED <<job, old, snap, up, reg, sched, limits, warned>>
      BY <2>9 DEF Switch, Post
    <3>2. cfg = old[r] /\ validate(snap[r]) /\ validate(cfg)
      BY <1>0, <3>1 DEF Saves, Hands
    <3>3. ASSUME up, ~warned, ~raced'
          PROVE  /\ \A q \in Requests \ {r} : pc'[q] \notin Post
                 /\ Matches(old[r], reg, sched, limits)
      BY <1>0, <3>1, <3>2, <3>3 DEF Hands, Post
    <3> QED BY <1>0, <3>1, <3>2, <3>3 DEF Hands, Post
  <2>10. CASE AnswerSaved(r)
    <3>1. /\ pc[r] = "saved" /\ ~AppliesNow(r) /\ pc' = [pc EXCEPT ![r] = "idle"]
          /\ warned' = (warned \/ ClassifyChange(old[r], snap[r]) = "restart")
          /\ \A q \in Requests \ {r} : old'[q] = old[q] /\ snap'[q] = snap[q] /\ job'[q] = job[q]
          /\ UNCHANGED <<cfg, up, reg, sched, limits, raced>>
      BY <1>0, <2>10 DEF AnswerSaved, Leaves
    <3>2. ASSUME up, ~warned', ~raced
          PROVE  /\ \A q \in Requests : pc'[q] \notin Post
                 /\ Matches(cfg, reg, sched, limits)
      <4>1. /\ ~warned /\ cfg = snap[r] /\ validate(old[r]) /\ Matches(old[r], reg, sched, limits)
            /\ \A q \in Requests \ {r} : pc[q] \notin Post
        BY <1>0, <3>1, <3>2 DEF Hands, Post
      <4>2. ClassifyChange(old[r], snap[r]) \notin {"restart", "hot"}
        BY <3>1, <3>2 DEF AppliesNow
      <4>3. ~NeedsRestart(old[r], snap[r]) /\ ~HotDiffers(old[r], snap[r])
        BY <4>2 DEF ClassifyChange
      <4>4. old[r] \in Config /\ snap[r] \in Config
        BY <1>0, <3>1 DEF Reads, HasRead, HasCopy
      <4>5. Matches(snap[r], reg, sched, limits)
        BY <4>1, <4>3, <4>4, UnchangedMatches
      <4> QED BY <1>0, <3>1, <4>1, <4>5 DEF Post
    <3> QED BY <1>0, <3>1, <3>2 DEF Hands, Post
  <2>11. CASE Rebuild(r)
    <3>1. /\ pc[r] = "saved" /\ AppliesNow(r) /\ pc' = [pc EXCEPT ![r] = "rebuilt"]
          /\ sched' = Jobs(snap[r], Workers, TRUE)
          /\ UNCHANGED <<cfg, job, old, snap, up, reg, limits, warned, raced>>
      BY <2>11 DEF Rebuild
    <3>2. ~NeedsRestart(old[r], snap[r])
      <4>1. CASE job[r] = "reload"
        BY <1>0, <3>1, <4>1 DEF Hands
      <4>2. CASE ClassifyChange(old[r], snap[r]) = "hot"
        BY <4>2 DEF ClassifyChange
      <4> QED BY <3>1, <4>1, <4>2 DEF AppliesNow
    <3>3. Workers' = Workers
      BY <3>1 DEF Workers
    <3>4. ASSUME up, ~warned, ~raced
          PROVE  /\ Workers = EndpointsOf(old[r])
                 /\ \A q \in Requests \ {r} : pc'[q] \notin Post
                 /\ cfg = snap[r] /\ validate(old[r])
      BY <1>0, <3>1, <3>4 DEF Hands, Post, Matches, Workers
    <3> QED BY <1>0, <3>1, <3>2, <3>3, <3>4 DEF Hands, Post
  <2>12. CASE RebuildFails(r)
    BY <1>0, <2>12 DEF RebuildFails, Leaves, Hands
  <2>13. CASE HandOver(r)
    <3>1. /\ pc[r] = "rebuilt" /\ pc' = [pc EXCEPT ![r] = "idle"]
          /\ reg' = [e \in Endpoint |-> IF e \in Workers \cap EndpointsOf(snap[r]) THEN snap[r].endpoints[e] ELSE reg[e]]
          /\ limits' = RatesAfter(snap[r], limits)
          /\ \A q \in Requests \ {r} : old'[q] = old[q] /\ snap'[q] = snap[q] /\ job'[q] = job[q]
          /\ UNCHANGED <<cfg, up, sched, warned, raced>>
      BY <1>0, <2>13 DEF HandOver, Leaves
    <3>2. ASSUME up, ~warned, ~raced
          PROVE  /\ \A q \in Requests : pc'[q] \notin Post
                 /\ Matches(cfg, reg', sched, limits')
      <4>1. /\ cfg = snap[r] /\ ~NeedsRestart(old[r], snap[r]) /\ Workers = EndpointsOf(old[r])
            /\ sched = Jobs(snap[r], Workers, TRUE)
            /\ \A q \in Requests \ {r} : pc[q] \notin Post
        BY <1>0, <3>1, <3>2 DEF Hands, Post
      <4>2. Workers = EndpointsOf(cfg) /\ validate(cfg)
        BY <1>0, <4>1 DEF NeedsRestart, Hands
      <4>3. \A e \in EndpointsOf(cfg) : reg'[e] = cfg.endpoints[e]
        BY <1>0, <3>1, <4>1, <4>2 DEF EndpointsOf
      <4>4. {e \in Endpoint : reg'[e] # None} = EndpointsOf(cfg)
        BY <1>0, <3>1, <4>1, <4>2, <4>3 DEF EndpointsOf, Workers
      <4>5. \A e \in EndpointsOf(cfg) : limits'[limiterKey(cfg, e)] = cfg.endpoints[e].hot
        BY <1>0, <3>1, <4>1, <4>2, RatesAreOwn
      <4>6. Matches(cfg, reg', sched, limits')
        BY <4>1, <4>2, <4>3, <4>4, <4>5 DEF Matches
      <4> QED BY <1>0, <3>1, <4>1, <4>6 DEF Post
    <3> QED BY <1>0, <3>1, <3>2 DEF Hands, Post
  <2> QED BY <1>r, <2>1, <2>2, <2>3, <2>4, <2>5, <2>6, <2>7, <2>8, <2>9, <2>10, <2>11, <2>12, <2>13 DEF Request
<1>1. CASE Crash
  BY <1>0, <1>1 DEF Crash, NoRequests, Hands
<1>2. CASE Restart
  <2>1. validate(file) /\ Builds(file) /\ pc' = pc /\ ~up
    BY <1>2 DEF Restart, Loads
  <2>2. cfg' = file /\ Matches(file, reg', sched', limits')
    BY <1>0, <2>1, BuiltMatches DEF Builds
  <2>3. \A q \in Requests : pc'[q] = "idle"
    BY <1>0, <2>1 DEF Reads
  <2> QED BY <2>1, <2>2, <2>3 DEF Hands, Post
<1>3. CASE EditFile
  BY <1>0, <1>3 DEF EditFile, Hands, Workers
<1>4. CASE UNCHANGED vars
  BY <1>0, <1>4 DEF vars, Hands, Workers
<1> QED BY <1>r, <1>1, <1>2, <1>3, <1>4 DEF Next

\* Between requests the running parts are those of the configuration in force
\* (applyConfigWrite, Scheduler.Rebuild, ApplyHotReload).
THEOREM RunningIsSaved == Spec => []EditsInForce
<1>1. Hands => EditsInForce
  BY InForceMatches DEF Hands, EditsInForce, Quiet, Post
<1>2. Init => Hands
  BY HandsInit
<1>3. IInv /\ Hands /\ [Next]_vars => Hands'
  BY HandsStep
<1> QED BY Invariance, <1>1, <1>2, <1>3, PTL DEF Spec
=============================================================================
