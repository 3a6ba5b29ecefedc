----------------------------- MODULE RequestProofs -----------------------------
(***************************************************************************)
(* The two things a signed request waits for: its limiter and its token.   *)
(*                                                                         *)
(* TokenHolder.  SingleFlight is inductive once the types are known:       *)
(* inFlight is set and cleared together with the leader's step into and    *)
(* out of its fetch, and the step that clears it releases every waiter.    *)
(*                                                                         *)
(* RateLimiter.  A bucket keeps accounts: since its rate was last changed, *)
(* what it let through from any call on, and what it still holds, is at    *)
(* most its capacity and what came back since that call (Paid).  A call    *)
(* moves a token from the second to the first, a tick adds to both sides,  *)
(* a reload of the same rate leaves all of it alone.                       *)
(***************************************************************************)
EXTENDS TokenHolder, RateLimiter, TLAPS

IInv == TypeOK /\ SingleFlight

USE DEF fieldVars, Purposes

\* The types are right at the start and after every step.
LEMMA TypeInit == Init => TypeOK
BY DEF Init, TypeOK

LEMMA TypeStep == ASSUME TypeOK, [Next]_vars PROVE TypeOK'
<1> USE DEF TypeOK, Goto
<1>1. ASSUME NEW c \in Callers, Request(c) PROVE TypeOK'
      BY <1>1 DEF Request
<1>2. ASSUME NEW c \in Callers, CheckConnection(c) PROVE TypeOK'
      BY <1>2 DEF CheckConnection
<1>3. ASSUME NEW c \in Callers, Send(c) PROVE TypeOK'
      BY <1>3 DEF Send
<1>4. ASSUME NEW c \in Callers, Get(c) PROVE TypeOK'
      BY <1>4 DEF Get
<1>5. ASSUME NEW c \in Callers, Enter(c) PROVE TypeOK'
      BY <1>5 DEF Enter
<1>6. ASSUME NEW c \in Callers, ReadShared(c) PROVE TypeOK'
      BY <1>6 DEF ReadShared, Served
<1>7. ASSUME NEW c \in Callers, GiveUp(c) PROVE TypeOK'
      BY <1>7 DEF GiveUp
<1>8. ASSUME NEW c \in Callers, NEW ok \in BOOLEAN, Publish(c, ok) PROVE TypeOK'
  <2>1. Served(c) \in {"send", "get", "idle"} BY DEF Served
  <2>2. pc' \in [Callers -> {"idle", "get", "enter", "fetch", "wait", "woken", "send"}]
        BY <1>8, <2>1 DEF Publish
  <2>3. cached' \in BOOLEAN /\ fresh' \in BOOLEAN /\ inFlight' \in BOOLEAN /\ err' \in BOOLEAN
        BY <1>8 DEF Publish
  <2>4. purpose' \in [Callers -> Purposes] /\ resending' \subseteq Callers
        BY <1>8 DEF Publish
  <2>5. failedWait' \subseteq Callers BY <1>8 DEF Publish
  <2> QED BY <2>2, <2>3, <2>4, <2>5
<1>9. ASSUME Expire PROVE TypeOK' BY <1>9 DEF Expire
<1>10. CASE UNCHANGED vars BY <1>10 DEF vars
<1> QED BY <1>1, <1>2, <1>3, <1>4, <1>5, <1>6, <1>7, <1>8, <1>9, <1>10 DEF Next, Step

\* A step that moves one caller, neither into nor out of a fetch or a wait,
\* keeps the flight as it is.
LEMMA OtherSteps ==
  ASSUME TypeOK, SingleFlight, NEW c \in Callers, NEW label,
         pc[c] # "fetch", label \notin {"fetch", "wait"},
         Goto(c, label), inFlight' = inFlight
  PROVE  SingleFlight'
BY DEF SingleFlight, TypeOK, Goto

LEMMA SingleFlightStep == ASSUME IInv, [Next]_vars PROVE SingleFlight'
<1> USE DEF IInv
<1>1. ASSUME NEW c \in Callers, Request(c) PROVE SingleFlight'
      BY <1>1, OtherSteps DEF Request
<1>2. ASSUME NEW c \in Callers, CheckConnection(c) PROVE SingleFlight'
      BY <1>2, OtherSteps DEF CheckConnection
<1>3. ASSUME NEW c \in Callers, Send(c) PROVE SingleFlight'
      BY <1>3, OtherSteps DEF Send
<1>4. ASSUME NEW c \in Callers, Get(c) PROVE SingleFlight'
  <2>1. pc[c] # "fetch" /\ inFlight' = inFlight
        /\ (Goto(c, "send") \/ Goto(c, "enter"))
        BY <1>4 DEF Get
  <2> QED BY <2>1, OtherSteps
<1>5. ASSUME NEW c \in Callers, Enter(c) PROVE SingleFlight'
  <2>1. CASE inFlight
        BY <1>5, <2>1 DEF Enter, Goto, SingleFlight, TypeOK
  <2>2. CASE ~inFlight
        BY <1>5, <2>2 DEF Enter, Goto, SingleFlight, TypeOK
  <2> QED BY <2>1, <2>2
<1>6. ASSUME NEW c \in Callers, ReadShared(c) PROVE SingleFlight'
  <2>1. Served(c) \in {"send", "get", "idle"} BY DEF Served, TypeOK
  <2>2. pc[c] # "fetch" /\ inFlight' = inFlight
        /\ Goto(c, IF err \/ ~cached THEN "idle" ELSE Served(c))
        BY <1>6 DEF ReadShared
  <2>3. (IF err \/ ~cached THEN "idle" ELSE Served(c)) \notin {"fetch", "wait"}
        BY <2>1
  <2> QED BY <2>2, <2>3, OtherSteps
<1>7. ASSUME NEW c \in Callers, GiveUp(c) PROVE SingleFlight'
  <2>1. pc[c] # "fetch" /\ inFlight' = inFlight /\ Goto(c, "idle")
        BY <1>7 DEF GiveUp
  <2> QED BY <2>1, OtherSteps
<1>8. ASSUME NEW c \in Callers, NEW ok \in BOOLEAN, Publish(c, ok) PROVE SingleFlight'
  <2>1. Served(c) \in {"send", "get", "idle"} BY DEF Served, TypeOK
  <2>2. ~inFlight' BY <1>8 DEF Publish
  <2>3. \A d \in Callers : pc'[d] # "fetch"
        BY <1>8, <2>1 DEF Publish, SingleFlight, TypeOK
  <2>4. \A d \in Callers : pc'[d] # "wait"
        BY <1>8, <2>1 DEF Publish, TypeOK
  <2> QED BY <2>2, <2>3, <2>4 DEF SingleFlight
<1>9. CASE Expire BY <1>9 DEF Expire, SingleFlight
<1>10. CASE UNCHANGED vars BY <1>10 DEF vars, SingleFlight
<1> QED BY <1>1, <1>2, <1>3, <1>4, <1>5, <1>6, <1>7, <1>8, <1>9, <1>10 DEF Next, Step

\* The invariant holds in every reachable state.
THEOREM Invariance == Spec => []IInv
<1>1. Init => IInv BY TypeInit DEF Init, IInv, SingleFlight
<1>2. IInv /\ [Next]_vars => IInv' BY TypeStep, SingleFlightStep DEF IInv
<1> QED BY <1>1, <1>2, PTL DEF Spec

\* Every variable keeps its type.
THEOREM TypeCorrect == Spec => []TypeOK
<1>1. IInv => TypeOK BY DEF IInv
<1> QED BY <1>1, Invariance, PTL

\* However many callers of an account meet, one of them fetches, and a caller
\* waits only while somebody will release it.
THEOREM FlightIsSingle == Spec => []SingleFlight
<1>1. IInv => SingleFlight BY DEF IInv
<1> QED BY <1>1, Invariance, PTL

-----------------------------------------------------------------------------
(* RateLimiter: the invariant *)

\* What the bucket could let through now, in parts.
Level(b) ==
  IF Serial(b)
  THEN IF Spaced(b) THEN Scale ELSE (now - lastFire[b]) * rate[b].share
  ELSE Refilled(b)

\* The accounts of a bucket from its i-th call on.
Paid(b) ==
  \A i \in since[b] + 1..Len(passes[b]) :
    (Len(passes[b]) - i + 1) * Scale + Level(b)
      <= rate[b].bucket * Scale + (now - passes[b][i]) * rate[b].share

Kept(b) ==
  \A j \in 1..Len(passes[b]) : \A i \in since[b] + 1..j :
    (j - i + 1 - rate[b].bucket) * Scale <= (passes[b][j] - passes[b][i]) * rate[b].share

\* No time of a bucket is ahead of the clock, a bucket nobody asked is blank, and the
\* accounts are in order.
BucketOK(b) ==
  /\ lastFill[b] <= now /\ lastFire[b] <= now /\ since[b] <= Len(passes[b])
  /\ b \notin made => passes[b] = << >> /\ since[b] = 0
  /\ Paid(b) /\ Kept(b)

Accounts == \A b \in Buckets : BucketOK(b)

\* Callers ask buckets that exist.
Asked == \A w \in Waiters : {at[w], goal[w]} \subseteq made \cup {NoBucket}

\* A cooldown is forgotten only when it is over, with all that were learned before.
CooldownsKnown ==
  \A s \in Sellers : until[s] <= cooled[s] /\ (until[s] = cooled[s] \/ cooled[s] <= now)

LimiterInv == LimiterTypeOK /\ Asked /\ Accounts /\ CooldownsKnown

-----------------------------------------------------------------------------
(* RateLimiter: types *)

\* What is known of the rate of a bucket.
LEMMA RateFacts ==
  ASSUME LimiterTypeOK, NEW b \in Buckets
  PROVE  /\ rate[b] \in Rates[b] /\ rate[b] \in AllRates
         /\ rate[b].bucket \in Nat /\ rate[b].bucket >= 1
         /\ rate[b].interval \in Nat /\ rate[b].interval >= 1
         /\ rate[b].share \in Nat /\ rate[b].share >= 1
         /\ rate[b].share * rate[b].interval = Scale
         /\ Scale \in Nat
BY LimiterAssumption DEF LimiterTypeOK, IsRate

\* The same for any rate that is given to a bucket.
LEMMA OwnFacts ==
  ASSUME NEW b \in Buckets, NEW r \in Rates[b]
  PROVE  r \in AllRates /\ r.bucket \in Nat /\ r.bucket * Scale \in Nat
<1>1. r \in AllRates /\ r.bucket \in Nat /\ Scale \in Nat
      BY LimiterAssumption DEF AllRates, IsRate
<1> QED BY <1>1

\* Of two numbers.
LEMMA ProductNat ==
  ASSUME NEW x \in Nat, NEW y \in Nat PROVE x * y \in Nat
OBVIOUS

\* A refilled bucket holds a number of parts, at most its capacity.
LEMMA RefilledFacts ==
  ASSUME LimiterTypeOK, NEW b \in Buckets, lastFill[b] <= now
  PROVE  Refilled(b) \in Nat /\ Refilled(b) <= rate[b].bucket * Scale
<1>1. rate[b].bucket * Scale \in Nat BY RateFacts, ProductNat
<1>2. now - lastFill[b] \in Nat /\ tokens[b] \in Nat BY DEF LimiterTypeOK
<1>3. (now - lastFill[b]) * rate[b].share \in Nat BY <1>2, RateFacts, ProductNat
<1> DEFINE x == rate[b].bucket * Scale
           y == tokens[b] + (now - lastFill[b]) * rate[b].share
<1>4. x \in Nat /\ y \in Nat BY <1>1, <1>2, <1>3
<1> HIDE DEF x, y
<1>5. Lower(x, y) \in Nat /\ Lower(x, y) <= x BY <1>4 DEF Lower
<1> QED BY <1>5 DEF Refilled, x, y

\* The level is between nothing and the capacity.
LEMMA LevelRange ==
  ASSUME LimiterTypeOK, NEW b \in Buckets, lastFill[b] <= now, lastFire[b] <= now
  PROVE  Level(b) \in Nat /\ Level(b) <= rate[b].bucket * Scale
<1>1. CASE ~Serial(b) BY <1>1, RefilledFacts DEF Level
<1>2. CASE Serial(b)
  <2>1. rate[b].bucket * Scale = Scale /\ Scale \in Nat BY <1>2, RateFacts DEF Serial
  <2>2. CASE Spaced(b) BY <1>2, <2>1, <2>2 DEF Level
  <2>3. CASE ~Spaced(b)
    <3> DEFINE d == now - lastFire[b]
               k == rate[b].share
               n == rate[b].interval
    <3>0. /\ now \in Nat /\ n \in Nat
          /\ lastFire[b] \in Nat \cup {Never} /\ lastFire[b] # Never
          BY <2>3, RateFacts DEF Spaced, LimiterTypeOK
    <3>1. d \in Nat /\ d < n BY <2>3, <3>0 DEF Spaced
    <3>2. k \in Nat /\ n \in Nat /\ k * n = Scale BY RateFacts
    <3>3. Level(b) = d * k BY <1>2, <2>3 DEF Level
    <3> HIDE DEF d, k, n
    <3>4. n - d \in Nat /\ (n - d) * k \in Nat BY <3>1, <3>2, ProductNat
    <3>5. d * k \in Nat /\ d * k + (n - d) * k = k * n BY <3>1, <3>2, ProductNat
    <3> QED BY <2>1, <3>2, <3>3, <3>4, <3>5
  <2> QED BY <2>2, <2>3
<1> QED BY <1>1, <1>2

\* The first call at a bucket that is missing.
LEMMA CreateTypes ==
  ASSUME LimiterTypeOK, NEW b \in Buckets, NEW own \in [Missing(b) -> AllRates],
         Create(b, own)
  PROVE  /\ made' \subseteq Buckets
         /\ rate' \in [Buckets -> AllRates] /\ \A x \in Buckets : rate'[x] \in Rates[x]
         /\ tokens' \in [Buckets -> Nat] /\ lastFill' \in [Buckets -> Nat]
         /\ UNCHANGED <<lastFire, passes, since>>
<1>1. Missing(b) \subseteq Buckets BY LimiterAssumption DEF Missing
<1>2. made' \subseteq Buckets BY <1>1 DEF Create, LimiterTypeOK
<1>3. \A x \in Missing(b) : own[x] \in Rates[x] BY DEF Create
<1>4. rate' \in [Buckets -> AllRates] /\ \A x \in Buckets : rate'[x] \in Rates[x]
      BY <1>1, <1>3 DEF Create, LimiterTypeOK
<1>5. \A x \in Missing(b) : own[x].bucket * Scale \in Nat BY <1>1, <1>3, OwnFacts
<1>6. tokens' \in [Buckets -> Nat] BY <1>5 DEF Create, LimiterTypeOK
<1>7. lastFill' \in [Buckets -> Nat] BY DEF Create, LimiterTypeOK
<1> QED BY <1>2, <1>4, <1>6, <1>7 DEF Create

\* What tryAcquire and nextWait do to the tokens.
LEMMA RefillTypes ==
  ASSUME LimiterTypeOK, NEW b \in Buckets, lastFill[b] <= now,
         NEW taken \in Nat, Serial(b) \/ taken <= Refilled(b), Refill(b, taken)
  PROVE  tokens' \in [Buckets -> Nat] /\ lastFill' \in [Buckets -> Nat]
<1>1. CASE Serial(b) BY <1>1 DEF Refill, LimiterTypeOK
<1>2. CASE ~Serial(b)
  <2>1. Refilled(b) - taken \in Nat BY <1>2, RefilledFacts
  <2> QED BY <1>2, <2>1 DEF Refill, LimiterTypeOK
<1> QED BY <1>1, <1>2

\* A sleep is a number of ticks.
LEMMA NextWaitType ==
  ASSUME LimiterTypeOK, NEW b \in Buckets, lastFill[b] <= now, lastFire[b] <= now
  PROVE  NextWait(b) \in Int
<1>1. CASE Serial(b)
  <2>1. now \in Int /\ lastFire[b] \in Int BY DEF LimiterTypeOK, Never
  <2>2. rate[b].interval \in Nat BY RateFacts
  <2>3. NextWait(b) = IF Spaced(b) THEN 0 ELSE rate[b].interval - (now - lastFire[b])
        BY <1>1 DEF NextWait
  <2> QED BY <2>1, <2>2, <2>3
<1>2. CASE ~Serial(b)
  <2> DEFINE k == rate[b].share
             m == Scale - Refilled(b)
  <2>1. k \in Nat /\ k >= 1 /\ m \in Int BY RateFacts, RefilledFacts
  <2>2. NextWait(b) = IF Refilled(b) >= Scale THEN 0 ELSE (2 * m + k) \div (2 * k)
        BY <1>2 DEF NextWait
  <2> HIDE DEF k, m
  <2>3. (2 * m + k) \div (2 * k) \in Int BY <2>1
  <2> QED BY <2>2, <2>3
<1> QED BY <1>1, <1>2

\* The locals of a goroutine that leaves.
LEMMA LeaveTypes ==
  ASSUME LimiterTypeOK, NEW w \in Waiters, Leave(w)
  PROVE  /\ place' \in [Waiters -> Places]
         /\ goal' \in [Waiters -> Buckets \cup {NoBucket}]
         /\ at' \in [Waiters -> Buckets \cup {NoBucket}]
         /\ seller' \in [Waiters -> Sellers \cup {NoSeller}] /\ wake' \in [Waiters -> Nat]
         /\ \A v \in Waiters : place'[v] # "out" => at'[v] \in Buckets /\ goal'[v] \in Buckets
         /\ \A v \in Waiters :
              place'[v] \in {"check", "hold", "recheck"} => seller'[v] \in Sellers
BY DEF Leave, Move, LimiterTypeOK, Places

USE DEF bucketVars, callVars

LEMMA LimiterTypeInit == LimiterInit => LimiterTypeOK
<1> SUFFICES ASSUME LimiterInit PROVE LimiterTypeOK OBVIOUS
<1>1. \A b \in Buckets : rate[b] \in Rates[b]
      BY LimiterAssumption DEF LimiterInit
<1>2. rate \in [Buckets -> AllRates] BY <1>1 DEF LimiterInit, AllRates
<1>3. \A b \in Buckets : rate[b].bucket * Scale \in Nat BY <1>1, OwnFacts
<1>4. tokens \in [Buckets -> Nat] BY <1>3 DEF LimiterInit
<1>5. now \in Nat /\ made \subseteq Buckets /\ lastFill \in [Buckets -> Nat]
      /\ lastFire \in [Buckets -> Nat \cup {Never}] /\ since \in [Buckets -> Nat]
      BY DEF LimiterInit
<1>6. passes \in [Buckets -> Seq(Nat)]
  <2>1. << >> \in Seq(Nat) OBVIOUS
  <2> QED BY <2>1 DEF LimiterInit
<1>7. until \in [Sellers -> Nat \cup {Never}] /\ cooled \in [Sellers -> Nat]
      BY DEF LimiterInit
<1>8. /\ place \in [Waiters -> Places] /\ seller \in [Waiters -> Sellers \cup {NoSeller}]
      /\ goal \in [Waiters -> Buckets \cup {NoBucket}]
      /\ at \in [Waiters -> Buckets \cup {NoBucket}] /\ wake \in [Waiters -> Nat]
      /\ \A w \in Waiters : place[w] = "out"
      BY DEF LimiterInit, Places
<1> QED BY <1>1, <1>2, <1>4, <1>5, <1>6, <1>7, <1>8 DEF LimiterTypeOK

\* The types after every step, given that no time of a bucket is ahead of the clock.
LEMMA LimiterTypeStep ==
  ASSUME LimiterTypeOK, Accounts, [LimiterNext]_limiterVars
  PROVE  LimiterTypeOK'
<1> DEFINE Buckets1 ==
      /\ made' \subseteq Buckets
      /\ rate' \in [Buckets -> AllRates] /\ \A b \in Buckets : rate'[b] \in Rates[b]
      /\ tokens' \in [Buckets -> Nat] /\ lastFill' \in [Buckets -> Nat]
      /\ lastFire' \in [Buckets -> Nat \cup {Never}]
      /\ passes' \in [Buckets -> Seq(Nat)] /\ since' \in [Buckets -> Nat]
<1> DEFINE Calls1 ==
      /\ place' \in [Waiters -> Places]
      /\ goal' \in [Waiters -> Buckets \cup {NoBucket}]
      /\ at' \in [Waiters -> Buckets \cup {NoBucket}]
      /\ seller' \in [Waiters -> Sellers \cup {NoSeller}] /\ wake' \in [Waiters -> Nat]
      /\ \A v \in Waiters : place'[v] # "out" => at'[v] \in Buckets /\ goal'[v] \in Buckets
      /\ \A v \in Waiters :
           place'[v] \in {"check", "hold", "recheck"} => seller'[v] \in Sellers
<1> DEFINE Times1 ==
      /\ now' \in Nat /\ until' \in [Sellers -> Nat \cup {Never}]
      /\ cooled' \in [Sellers -> Nat]
<1>a. Buckets1 /\ Calls1 /\ Times1 => LimiterTypeOK' BY DEF LimiterTypeOK
<1>b. UNCHANGED bucketVars => Buckets1 BY DEF LimiterTypeOK
<1>c. UNCHANGED callVars => Calls1 BY DEF LimiterTypeOK
<1>d. UNCHANGED <<now, until, cooled>> => Times1 BY DEF LimiterTypeOK
<1>e. ASSUME NEW w \in Waiters, Leave(w) PROVE Calls1 BY <1>e, LeaveTypes
<1>f. ASSUME NEW w \in Waiters, seller[w] # NoSeller, ForgetExpired(seller[w])
      PROVE until' \in [Sellers -> Nat \cup {Never}]
      BY <1>f DEF ForgetExpired, LimiterTypeOK
<1> HIDE DEF Buckets1, Calls1, Times1
<1>1. ASSUME NEW w \in Waiters, NEW b \in Buckets, NEW s \in Sellers \cup {NoSeller},
             Ask(w, b, s)
      PROVE  LimiterTypeOK'
  <2>1. PICK own \in [Missing(b) -> AllRates] : Create(b, own) BY <1>1 DEF Ask
  <2>2. Buckets1 BY <2>1, CreateTypes DEF Buckets1, LimiterTypeOK
  <2>3. Calls1
        BY <1>1, LimiterAssumption DEF Ask, Move, Calls1, LimiterTypeOK, Places
  <2>4. Times1 BY <1>1, <1>d DEF Ask
  <2> QED BY <2>2, <2>3, <2>4, <1>a
<1>g. ASSUME NEW w \in Waiters, NEW label \in Places, place[w] # "out", Move(w, label),
             label \in {"check", "hold", "recheck"} => seller[w] \in Sellers,
             at' = at \/ at' = [at EXCEPT ![w] = goal[w]], UNCHANGED <<goal, seller>>,
             wake' \in [Waiters -> Nat]
      PROVE  Calls1
      BY <1>g DEF Calls1, Move, LimiterTypeOK
<1>2. ASSUME NEW w \in Waiters, CheckSeller(w) PROVE LimiterTypeOK'
  <2>1. place[w] = "check" /\ seller[w] \in Sellers BY <1>2 DEF CheckSeller, LimiterTypeOK
  <2>2. Times1
        BY <1>2, <1>f, <2>1, LimiterAssumption DEF CheckSeller, Times1, LimiterTypeOK
  <2>3. CASE Cooling(seller[w])
    <3>1. until[seller[w]] \in Nat BY <2>1, <2>3 DEF Cooling, LimiterTypeOK
    <3>2. Move(w, "hold") /\ wake' = [wake EXCEPT ![w] = until[seller[w]]]
          /\ UNCHANGED <<goal, at, seller>>
          BY <1>2, <2>3 DEF CheckSeller
    <3>3. wake' \in [Waiters -> Nat] BY <3>1, <3>2 DEF LimiterTypeOK
    <3>4. Calls1 BY <2>1, <3>2, <3>3, <1>g DEF Places
    <3> QED BY <1>2, <2>2, <3>4, <1>a, <1>b DEF CheckSeller
  <2>4. CASE ~Cooling(seller[w])
    <3>1. Move(w, "try") /\ UNCHANGED <<goal, at, seller, wake>>
          BY <1>2, <2>4 DEF CheckSeller
    <3>2. wake' \in [Waiters -> Nat] BY <3>1 DEF LimiterTypeOK
    <3>3. Calls1 BY <2>1, <3>1, <3>2, <1>g DEF Places
    <3> QED BY <1>2, <2>2, <3>3, <1>a, <1>b DEF CheckSeller
  <2> QED BY <2>3, <2>4
<1>3. ASSUME NEW w \in Waiters, TryAcquire(w) PROVE LimiterTypeOK'
  <2> DEFINE b == at[w]
  <2>1. b \in Buckets /\ place[w] = "try" BY <1>3 DEF TryAcquire, LimiterTypeOK
  <2>2. lastFill[b] <= now BY <2>1 DEF Accounts, BucketOK
  <2>3. Times1 BY <1>3, <1>d DEF TryAcquire
  <2>4. wake' \in [Waiters -> Nat] BY <1>3 DEF TryAcquire, LimiterTypeOK
  <2>5. UNCHANGED <<made, rate, since, goal, seller>> BY <1>3 DEF TryAcquire
  <2>6. CASE HasToken(b)
    <3>1. /\ passes' = [passes EXCEPT ![b] = Append(@, now)]
          /\ lastFire' = IF Serial(b) THEN [lastFire EXCEPT ![b] = now] ELSE lastFire
          /\ Refill(b, Scale) /\ at' = [at EXCEPT ![w] = goal[w]]
          BY <1>3, <2>6 DEF TryAcquire
    <3>2. PICK label \in {"try", "recheck", "sent"} :
             Move(w, label) /\ (label = "recheck" => seller[w] # NoSeller)
          BY <1>3, <2>6 DEF TryAcquire
    <3>3. Scale \in Nat /\ (Serial(b) \/ Scale <= Refilled(b))
          BY <2>1, <2>2, <2>6, RateFacts, RefilledFacts DEF HasToken
    <3> HIDE DEF b
    <3>4. tokens' \in [Buckets -> Nat] /\ lastFill' \in [Buckets -> Nat]
          BY <2>1, <2>2, <3>1, <3>3, RefillTypes
    <3>5. passes' \in [Buckets -> Seq(Nat)]
      <4>1. Append(passes[b], now) \in Seq(Nat) BY <2>1 DEF LimiterTypeOK
      <4> QED BY <3>1, <4>1 DEF LimiterTypeOK
    <3>6. lastFire' \in [Buckets -> Nat \cup {Never}] BY <3>1 DEF LimiterTypeOK
    <3>7. Buckets1 BY <2>5, <3>4, <3>5, <3>6 DEF Buckets1, LimiterTypeOK
    <3>8. seller[w] \in Sellers \cup {NoSeller} BY DEF LimiterTypeOK
    <3>9. Calls1 BY <2>1, <2>4, <2>5, <3>1, <3>2, <3>8, <1>g DEF Places
    <3> QED BY <2>3, <3>7, <3>9, <1>a
  <2>7. CASE ~HasToken(b)
    <3>1. Refill(b, 0) /\ Move(w, "plan") /\ UNCHANGED <<passes, lastFire, at>>
          BY <1>3, <2>7 DEF TryAcquire
    <3> HIDE DEF b
    <3>2. tokens' \in [Buckets -> Nat] /\ lastFill' \in [Buckets -> Nat]
          BY <2>1, <2>2, <3>1, RefillTypes, RefilledFacts
    <3>3. Buckets1 BY <2>5, <3>1, <3>2 DEF Buckets1, LimiterTypeOK
    <3>4. Calls1 BY <2>1, <2>4, <2>5, <3>1, <1>g DEF Places
    <3> QED BY <2>3, <3>3, <3>4, <1>a
  <2> QED BY <2>6, <2>7
<1>4. ASSUME NEW w \in Waiters, PlanSleep(w) PROVE LimiterTypeOK'
  <2> DEFINE b == at[w]
  <2>1. b \in Buckets /\ place[w] = "plan" BY <1>4 DEF PlanSleep, LimiterTypeOK
  <2>2. lastFill[b] <= now /\ lastFire[b] <= now BY <2>1 DEF Accounts, BucketOK
  <2>3. Times1 BY <1>4, <1>d DEF PlanSleep
  <2>4. Refill(b, 0) /\ UNCHANGED <<made, rate, lastFire, passes, since, goal, at, seller>>
        BY <1>4 DEF PlanSleep
  <2>5. \/ Move(w, "try") /\ UNCHANGED wake
        \/ Move(w, "sleep") /\ wake' = [wake EXCEPT ![w] = now + NextWait(b)]
           /\ ~(NextWait(b) <= 0)
        BY <1>4 DEF PlanSleep
  <2> HIDE DEF b
  <2>6. wake' \in [Waiters -> Nat]
    <3>1. now \in Nat /\ NextWait(b) \in Int BY <2>1, <2>2, NextWaitType DEF LimiterTypeOK
    <3>2. NextWait(b) <= 0 \/ now + NextWait(b) \in Nat BY <3>1
    <3> QED BY <2>5, <3>2 DEF LimiterTypeOK
  <2>7. tokens' \in [Buckets -> Nat] /\ lastFill' \in [Buckets -> Nat]
        BY <2>1, <2>2, <2>4, RefillTypes, RefilledFacts
  <2>8. Buckets1 BY <2>4, <2>7 DEF Buckets1, LimiterTypeOK
  <2>9. Calls1 BY <2>1, <2>4, <2>5, <2>6, <1>g DEF Places
  <2> QED BY <2>3, <2>8, <2>9, <1>a
<1>5. ASSUME NEW w \in Waiters, Awake(w) PROVE LimiterTypeOK'
  <2>1. place[w] # "out" /\ Move(w, "try") /\ UNCHANGED <<goal, at, seller>>
        BY <1>5 DEF Awake
  <2>2. wake' \in [Waiters -> Nat] BY <1>5 DEF Awake, LimiterTypeOK
  <2>3. Calls1 BY <2>1, <2>2, <1>g DEF Places
  <2> QED BY <1>5, <2>3, <1>a, <1>b, <1>d DEF Awake
<1>6. ASSUME NEW w \in Waiters, Abandon(w) PROVE LimiterTypeOK'
      BY <1>6, <1>a, <1>b, <1>d, <1>e DEF Abandon
<1>7. ASSUME NEW w \in Waiters, RecheckSeller(w) PROVE LimiterTypeOK'
  <2>1. place[w] = "recheck" /\ seller[w] \in Sellers
        BY <1>7 DEF RecheckSeller, LimiterTypeOK
  <2>2. Times1
        BY <1>7, <1>f, <2>1, LimiterAssumption DEF RecheckSeller, Times1, LimiterTypeOK
  <2>3. (Move(w, "check") \/ Move(w, "sent")) /\ UNCHANGED <<goal, at, seller, wake>>
        BY <1>7 DEF RecheckSeller
  <2>4. wake' \in [Waiters -> Nat] BY <2>3 DEF LimiterTypeOK
  <2>5. Calls1 BY <2>1, <2>3, <2>4, <1>g DEF Places
  <2> QED BY <1>7, <2>2, <2>5, <1>a, <1>b DEF RecheckSeller
<1>8. ASSUME NEW w \in Waiters, Answered(w) PROVE LimiterTypeOK'
      BY <1>8, <1>a, <1>b, <1>d, <1>e DEF Answered
<1>9. ASSUME NEW w \in Waiters, NEW length \in Cooldowns, RateLimited(w, length)
      PROVE  LimiterTypeOK'
  <2> DEFINE s == seller[w]
  <2>1. s \in Sellers BY <1>9 DEF RateLimited, LimiterTypeOK
  <2>2. length \in Nat /\ now \in Nat BY LimiterAssumption DEF LimiterTypeOK
  <2>3. CASE length > 0
    <3>1. /\ until' = [until EXCEPT ![s] = Higher(until[s], now + length)]
          /\ cooled' = [cooled EXCEPT ![s] = Higher(cooled[s], now + length)]
          BY <1>9, <2>3 DEF RateLimited
    <3> HIDE DEF s
    <3>2. until[s] \in Int /\ cooled[s] \in Nat BY <2>1 DEF LimiterTypeOK, Never
    <3>3. Higher(until[s], now + length) \in Nat /\ Higher(cooled[s], now + length) \in Nat
          BY <2>2, <3>2 DEF Higher
    <3>4. now' = now BY <1>9 DEF RateLimited
    <3> QED BY <1>9, <3>1, <3>3, <3>4, <1>a, <1>b, <1>e DEF RateLimited, Times1, LimiterTypeOK
  <2>4. CASE ~(length > 0)
        BY <1>9, <2>4, <1>a, <1>b, <1>d, <1>e DEF RateLimited
  <2> QED BY <2>3, <2>4
<1>10. ASSUME NEW b \in Buckets, NEW r \in Rates[b], UpdateOrCreate(b, r)
       PROVE  LimiterTypeOK'
  <2>1. Calls1 /\ Times1 BY <1>10, <1>c, <1>d DEF UpdateOrCreate, Update
  <2>2. CASE b \in made
    <3>1. /\ rate' = [rate EXCEPT ![b] = r]
          /\ since' = since \/ since' = [since EXCEPT ![b] = Len(passes[b])]
          /\ UNCHANGED <<made, tokens, lastFill, lastFire, passes>>
          BY <1>10, <2>2 DEF UpdateOrCreate, Update
    <3>2. Len(passes[b]) \in Nat BY DEF LimiterTypeOK
    <3>3. r \in AllRates BY OwnFacts
    <3> QED BY <2>1, <3>1, <3>2, <3>3, <1>a DEF Buckets1, LimiterTypeOK
  <2>3. CASE b \notin made
    <3>1. PICK own \in [Missing(b) -> AllRates] : Create(b, own)
          BY <1>10, <2>3 DEF UpdateOrCreate, Update
    <3>2. Buckets1 BY <3>1, CreateTypes DEF Buckets1, LimiterTypeOK
    <3> QED BY <2>1, <3>2, <1>a
  <2> QED BY <2>2, <2>3
<1>11. CASE Tick
  <2>1. Times1 BY <1>11 DEF Tick, Times1, LimiterTypeOK
  <2> QED BY <1>11, <2>1, <1>a, <1>b, <1>c DEF Tick
<1>12. CASE UNCHANGED limiterVars BY <1>12 DEF limiterVars, LimiterTypeOK
<1> QED BY <1>1, <1>2, <1>3, <1>4, <1>5, <1>6, <1>7, <1>8, <1>9, <1>10, <1>11, <1>12
        DEF LimiterNext, Waiting, Surroundings

-----------------------------------------------------------------------------
(* RateLimiter: the accounts of a bucket *)

\* The types of the times of a bucket.
LEMMA TimeFacts ==
  ASSUME LimiterTypeOK, NEW b \in Buckets
  PROVE  /\ now \in Nat /\ tokens[b] \in Nat /\ lastFill[b] \in Nat /\ lastFire[b] \in Int
         /\ passes[b] \in Seq(Nat) /\ Len(passes[b]) \in Nat /\ since[b] \in Nat
<1>1. lastFire[b] \in Nat \cup {Never} BY DEF LimiterTypeOK
<1>2. lastFire[b] \in Int BY <1>1 DEF Never
<1> QED BY <1>2 DEF LimiterTypeOK

\* A serial bucket after another tick.
LEMMA SerialTick ==
  ASSUME NEW n \in Nat, NEW d \in Nat, NEW k \in Nat
  PROVE  /\ (IF d + 1 >= n THEN k * n ELSE (d + 1) * k) \in Int
         /\ (IF d + 1 >= n THEN k * n ELSE (d + 1) * k)
              <= (IF d >= n THEN k * n ELSE d * k) + k
<1>1. (d + 1) * k = d * k + k /\ d * k \in Nat /\ k * n \in Nat OBVIOUS
<1>2. CASE d >= n BY <1>1, <1>2
<1>3. CASE d < n /\ d + 1 >= n
  <2>1. n = d + 1 BY <1>3
  <2>2. k * n = (d + 1) * k BY <2>1
  <2> QED BY <1>1, <1>3, <2>2
<1>4. CASE d + 1 < n BY <1>1, <1>4
<1> QED BY <1>2, <1>3, <1>4

\* A bucket of several after another tick.
LEMMA FillTick ==
  ASSUME NEW c \in Int, NEW t \in Nat, NEW e \in Nat, NEW k \in Nat
  PROVE  /\ Lower(c, t + (e + 1) * k) \in Int
         /\ Lower(c, t + (e + 1) * k) <= Lower(c, t + e * k) + k
<1> DEFINE x == e * k
<1>1. (e + 1) * k = x + k /\ x \in Nat OBVIOUS
<1> HIDE DEF x
<1>2. /\ Lower(c, t + (x + k)) \in Int
      /\ Lower(c, t + (x + k)) <= Lower(c, t + x) + k
      BY <1>1 DEF Lower
<1> QED BY <1>1, <1>2 DEF x

\* A bucket that nothing happened to, at the same time.
LEMMA BucketUntouched ==
  ASSUME NEW b \in Buckets, BucketOK(b), now' = now,
         rate'[b] = rate[b], tokens'[b] = tokens[b], lastFill'[b] = lastFill[b],
         lastFire'[b] = lastFire[b], passes'[b] = passes[b], since'[b] = since[b],
         b \notin made' => b \notin made
  PROVE  BucketOK(b)'
BY DEF BucketOK, Paid, Kept, Level, Serial, Spaced, Refilled

\* A tick adds at most the share of a tick to the level.
LEMMA LevelTicks ==
  ASSUME LimiterTypeOK, NEW b \in Buckets, lastFill[b] <= now, lastFire[b] <= now, Tick
  PROVE  Level(b)' \in Int /\ Level(b)' <= Level(b) + rate[b].share
<1>1. /\ now' = now + 1 /\ now \in Nat /\ rate' = rate /\ tokens' = tokens
      /\ lastFill' = lastFill /\ lastFire' = lastFire
      BY DEF Tick, LimiterTypeOK
<1>2. /\ rate[b].share \in Nat /\ rate[b].interval \in Nat
      /\ rate[b].share * rate[b].interval = Scale /\ Scale \in Nat
      BY RateFacts
<1>3. now - lastFire[b] \in Nat /\ now - lastFill[b] \in Nat BY TimeFacts
<1>4. /\ now' - lastFire[b] = now - lastFire[b] + 1
      /\ now' - lastFill[b] = now - lastFill[b] + 1
  <2>1. lastFire[b] \in Int /\ lastFill[b] \in Int BY TimeFacts
  <2>2. now' = now + 1 /\ now \in Int BY <1>1
  <2> QED BY <2>1, <2>2
<1>5. CASE Serial(b) /\ lastFire[b] = Never
  <2>1. Level(b) = Scale /\ Level(b)' = Scale
        BY <1>1, <1>5 DEF Level, Serial, Spaced
  <2> QED BY <1>2, <2>1
<1>6. CASE Serial(b) /\ lastFire[b] # Never
  <2> DEFINE d == now - lastFire[b]
             k == rate[b].share
             n == rate[b].interval
  <2>1. Level(b) = IF d >= n THEN k * n ELSE d * k
        BY <1>2, <1>6 DEF Level, Spaced
  <2>2. Level(b)' = IF d + 1 >= n THEN k * n ELSE (d + 1) * k
        BY <1>1, <1>2, <1>4, <1>6 DEF Level, Spaced, Serial
  <2>3. d \in Nat /\ k \in Nat /\ n \in Nat BY <1>2, <1>3
  <2> HIDE DEF d, k, n
  <2>4. Level(b)' \in Int /\ Level(b)' <= Level(b) + k BY <2>1, <2>2, <2>3, SerialTick
  <2> QED BY <2>4 DEF k
<1>7. CASE ~Serial(b)
  <2> DEFINE c == rate[b].bucket * Scale
             e == now - lastFill[b]
             k == rate[b].share
  <2>1. Level(b) = Lower(c, tokens[b] + e * k) BY <1>7 DEF Level, Refilled
  <2>2. Level(b)' = Lower(c, tokens[b] + (e + 1) * k)
        BY <1>1, <1>4, <1>7 DEF Level, Refilled, Serial
  <2>3. c \in Int /\ e \in Nat /\ k \in Nat /\ tokens[b] \in Nat
        BY <1>2, <1>3, RateFacts, TimeFacts, ProductNat
  <2> HIDE DEF c, e, k
  <2>4. Level(b)' \in Int /\ Level(b)' <= Level(b) + k BY <2>1, <2>2, <2>3, FillTick
  <2> QED BY <2>4 DEF k
<1> QED BY <1>5, <1>6, <1>7

\* What the accounts say of a call and the new one.
LEMMA Settle ==
  ASSUME NEW m \in Int, NEW cap \in Int, NEW u \in Nat, NEW L \in Nat, NEW d \in Int,
         m * u + L <= cap * u + d
  PROVE  (m - cap) * u <= d
<1>1. (m - cap) * u = m * u - cap * u /\ m * u \in Int /\ cap * u \in Int OBVIOUS
<1> QED BY <1>1

\* A call may join the accounts when they are in order with it: what they say of the
\* calls before it is what the property says of it.
LEMMA KeptWithNew ==
  ASSUME NEW b \in Buckets, LimiterTypeOK, Kept(b), Paid(b)', since[b] <= Len(passes[b]),
         passes'[b] = Append(passes[b], now), rate'[b] = rate[b], since'[b] = since[b],
         now' = now, Level(b)' \in Nat
  PROVE  Kept(b)'
<1> DEFINE n == Len(passes[b])
           L == Level(b)'
           k == rate[b].share
           cap == rate[b].bucket
<1>1. passes[b] \in Seq(Nat) /\ n \in Nat /\ now \in Nat /\ since[b] \in Nat
      BY TimeFacts
<1>2. Len(passes'[b]) = n + 1 /\ passes'[b][n + 1] = now
      /\ \A i \in 1..n : passes'[b][i] = passes[b][i]
      BY <1>1
<1>3. k \in Nat /\ cap \in Nat /\ Scale \in Nat BY RateFacts
<1> SUFFICES ASSUME NEW j \in 1..n + 1, NEW i \in since[b] + 1..j
             PROVE  (j - i + 1 - cap) * Scale <= (passes'[b][j] - passes'[b][i]) * k
    BY <1>2 DEF Kept
<1>4. CASE j <= n
  <2>1. j \in 1..n /\ i \in 1..n BY <1>1, <1>4
  <2> QED BY <1>2, <2>1 DEF Kept
<1>5. CASE j = n + 1
  <2>1. i \in since[b] + 1..n + 1 BY <1>5
  <2>2. i \in since'[b] + 1..Len(passes'[b]) BY <1>2, <2>1
  <2>3. (Len(passes'[b]) - i + 1) * Scale + L
          <= rate'[b].bucket * Scale + (now' - passes'[b][i]) * rate'[b].share
        BY <2>2 DEF Paid
  <2>4. passes'[b][i] \in Nat
    <3>1. i \in 1..n \/ i = n + 1 BY <1>1, <2>1
    <3> QED BY <1>1, <1>2, <3>1
  <2> DEFINE e == now - passes'[b][i]
             m == n + 1 - i + 1
  <2>5. Len(passes'[b]) - i + 1 = m /\ now' - passes'[b][i] = e BY <1>2
  <2>6. m * Scale + L <= cap * Scale + e * k
    <3> HIDE DEF L, e, m
    <3> QED BY <2>3, <2>5
  <2>7. e \in Int /\ m \in Int /\ L \in Nat BY <1>1, <2>1, <2>4
  <2>8. j - i + 1 - cap = m - cap /\ passes'[b][j] = now BY <1>1, <1>2, <1>3, <1>5
  <2> HIDE DEF e, m, L, cap, k
  <2>9. e * k \in Int BY <1>3, <2>7
  <2>10. (m - cap) * Scale <= e * k BY <1>3, <2>6, <2>7, <2>9, Settle
  <2> QED BY <2>8, <2>10 DEF e
<1> QED BY <1>1, <1>4, <1>5

\* refillLocked writes down what the bucket holds anyway.
LEMMA RefillKeepsLevel ==
  ASSUME LimiterTypeOK, NEW b \in Buckets, lastFill[b] <= now, ~Serial(b),
         NEW taken \in Nat, taken <= Refilled(b), Refill(b, taken),
         now' = now, rate'[b] = rate[b]
  PROVE  Level(b)' = Level(b) - taken /\ lastFill'[b] = now
<1>1. tokens'[b] = Refilled(b) - taken /\ lastFill'[b] = now
      BY DEF Refill, LimiterTypeOK
<1>2. ~Serial(b)' BY DEF Serial
<1>3. now' - lastFill'[b] = 0 BY <1>1, TimeFacts
<1>4. Level(b)' = Lower(rate[b].bucket * Scale, Refilled(b) - taken + 0 * rate[b].share)
      BY <1>1, <1>2, <1>3 DEF Level, Refilled
<1>5. Level(b) = Refilled(b) BY DEF Level
<1> DEFINE c == rate[b].bucket * Scale
           k == rate[b].share
           x == Refilled(b)
<1>6. c \in Nat /\ k \in Nat /\ x \in Nat /\ x <= c
      BY RateFacts, RefilledFacts, ProductNat
<1>7. Level(b)' = Lower(c, x - taken + 0 * k) BY <1>4
<1> HIDE DEF c, k, x
<1>8. 0 * k = 0 BY <1>6
<1>9. Level(b)' = x - taken BY <1>6, <1>7, <1>8 DEF Lower
<1> QED BY <1>1, <1>5, <1>9 DEF x

\* nextWait, and tryAcquire that finds no token.
LEMMA BucketRefilled ==
  ASSUME LimiterTypeOK, NEW b \in Buckets, BucketOK(b), Refill(b, 0), now' = now,
         rate'[b] = rate[b], UNCHANGED <<made, lastFire, passes, since>>
  PROVE  BucketOK(b)'
<1>1. CASE Serial(b)
  <2>1. UNCHANGED <<tokens, lastFill>> BY <1>1 DEF Refill
  <2> QED BY <2>1, BucketUntouched
<1>2. CASE ~Serial(b)
  <2>1. lastFill[b] <= now BY DEF BucketOK
  <2>2. Refilled(b) \in Nat BY <2>1, RefilledFacts
  <2>3. Level(b)' = Level(b) - 0 /\ lastFill'[b] = now
        BY <1>2, <2>1, <2>2, RefillKeepsLevel
  <2>4. Level(b) \in Nat BY <2>1, LevelRange DEF BucketOK
  <2>5. Level(b)' = Level(b) BY <2>3, <2>4
  <2>6. Paid(b)' BY <2>5 DEF BucketOK, Paid
  <2>7. Kept(b)' BY DEF BucketOK, Kept
  <2>8. lastFill'[b] <= now' /\ lastFire'[b] <= now'
        BY <2>3, TimeFacts DEF BucketOK
  <2>9. since'[b] <= Len(passes'[b])
        /\ (b \notin made' => passes'[b] = << >> /\ since'[b] = 0)
        BY DEF BucketOK
  <2> QED BY <2>6, <2>7, <2>8, <2>9 DEF BucketOK
<1> QED BY <1>1, <1>2

\* A call that is let through takes a token out of the level.
LEMMA LevelTaken ==
  ASSUME LimiterTypeOK, NEW b \in Buckets, lastFill[b] <= now, lastFire[b] <= now,
         HasToken(b), Refill(b, Scale), now' = now, rate'[b] = rate[b],
         lastFire' = IF Serial(b) THEN [lastFire EXCEPT ![b] = now] ELSE lastFire
  PROVE  /\ Level(b)' = Level(b) - Scale /\ Level(b)' \in Nat
         /\ lastFill'[b] <= now' /\ lastFire'[b] <= now'
<1>0. Scale \in Nat BY RateFacts
<1>1. CASE Serial(b)
  <2>1. lastFire'[b] = now /\ lastFill'[b] = lastFill[b]
        BY <1>1 DEF Refill, LimiterTypeOK
  <2>2. Level(b) = Scale BY <1>1 DEF HasToken, Level
  <2>3. Level(b)' = 0
    <3>1. Serial(b)' BY <1>1 DEF Serial
    <3>2. now' - lastFire'[b] = 0 BY <2>1, TimeFacts
    <3>3. ~Spaced(b)'
          BY <2>1, <3>2, RateFacts, TimeFacts DEF Spaced, Never
    <3>4. Level(b)' = 0 * rate[b].share BY <3>1, <3>2, <3>3 DEF Level
    <3> QED BY <3>4, RateFacts
  <2> QED BY <1>0, <2>1, <2>2, <2>3, TimeFacts
<1>2. CASE ~Serial(b)
  <2>1. Scale <= Refilled(b) /\ Refilled(b) \in Nat
        BY <1>0, <1>2, RefilledFacts DEF HasToken
  <2>2. Level(b)' = Level(b) - Scale /\ lastFill'[b] = now
        BY <1>0, <1>2, <2>1, RefillKeepsLevel
  <2>3. Level(b) = Refilled(b) BY <1>2 DEF Level
  <2>4. lastFire' = lastFire BY <1>2
  <2> QED BY <1>0, <2>1, <2>2, <2>3, <2>4, TimeFacts
<1> QED BY <1>1, <1>2

LEMMA BucketTaken ==
  ASSUME LimiterTypeOK, NEW b \in Buckets, BucketOK(b), b \in made,
         HasToken(b), Refill(b, Scale), now' = now, UNCHANGED <<made, rate, since>>,
         passes' = [passes EXCEPT ![b] = Append(@, now)],
         lastFire' = IF Serial(b) THEN [lastFire EXCEPT ![b] = now] ELSE lastFire
  PROVE  BucketOK(b)'
<1> DEFINE n == Len(passes[b])
           k == rate[b].share
           cap == rate[b].bucket
           L == Level(b)
<1>1. lastFill[b] <= now /\ lastFire[b] <= now /\ since[b] <= n /\ Paid(b) /\ Kept(b)
      BY DEF BucketOK
<1>2. /\ Level(b)' = L - Scale /\ Level(b)' \in Nat
      /\ lastFill'[b] <= now' /\ lastFire'[b] <= now'
      BY <1>1, LevelTaken
<1>3. passes'[b] = Append(passes[b], now) BY DEF LimiterTypeOK
<1>4. Len(passes'[b]) = n + 1 /\ passes'[b][n + 1] = now
      /\ \A i \in 1..n : passes'[b][i] = passes[b][i]
      BY <1>3, TimeFacts
<1>5. L \in Nat /\ L <= cap * Scale BY <1>1, LevelRange
<1>6. k \in Nat /\ cap \in Nat /\ Scale \in Nat /\ n \in Nat /\ since[b] \in Nat /\ now \in Nat
      BY RateFacts, TimeFacts
<1>7. Paid(b)'
  <2> SUFFICES ASSUME NEW i \in since'[b] + 1..Len(passes'[b])
               PROVE  (Len(passes'[b]) - i + 1) * Scale + Level(b)'
                        <= rate'[b].bucket * Scale + (now' - passes'[b][i]) * rate'[b].share
      BY DEF Paid
  <2>0. i \in since[b] + 1..n + 1 BY <1>4
  <2>1. CASE i <= n
    <3>1. i \in since[b] + 1..n /\ i \in 1..n BY <1>6, <2>0, <2>1
    <3>2. (n - i + 1) * Scale + L <= cap * Scale + (now - passes[b][i]) * k
          BY <1>1, <3>1 DEF Paid
    <3> DEFINE m == n - i + 1
               r == cap * Scale + (now - passes[b][i]) * k
    <3>3. m \in Int /\ Len(passes'[b]) - i + 1 = m + 1 BY <1>4, <1>6, <2>0
    <3>4. m * Scale + L <= r BY <3>2
    <3>5. passes'[b][i] = passes[b][i] BY <1>4, <3>1
    <3> HIDE DEF m, L
    <3>6. (m + 1) * Scale + (L - Scale) = m * Scale + L BY <1>5, <1>6, <3>3
    <3>7. r = rate'[b].bucket * Scale + (now' - passes'[b][i]) * rate'[b].share
          BY <3>5
    <3> HIDE DEF r
    <3> QED BY <1>2, <3>3, <3>4, <3>6, <3>7
  <2>2. CASE i = n + 1
    <3>1. Len(passes'[b]) - i + 1 = 1 /\ now' - passes'[b][i] = 0 BY <1>4, <1>6, <2>2
    <3>2. cap * Scale \in Nat BY <1>6, ProductNat
    <3> HIDE DEF L
    <3>3. 1 * Scale + (L - Scale) = L /\ 0 * k = 0 BY <1>5, <1>6
    <3>4. L <= cap * Scale + 0 * k BY <1>5, <3>2, <3>3
    <3> QED BY <1>2, <3>1, <3>3, <3>4
  <2> QED BY <1>6, <2>0, <2>1, <2>2
<1>8. Kept(b)' BY <1>1, <1>2, <1>3, <1>7, KeptWithNew
<1>9. since'[b] <= Len(passes'[b]) BY <1>1, <1>4, <1>6
<1> QED BY <1>2, <1>7, <1>8, <1>9 DEF BucketOK

\* A tick adds to what a bucket holds no more than to what came back.
LEMMA BucketTicks ==
  ASSUME LimiterTypeOK, NEW b \in Buckets, BucketOK(b), Tick PROVE BucketOK(b)'
<1>1. now' = now + 1 /\ UNCHANGED bucketVars BY DEF Tick
<1>2. lastFill[b] <= now /\ lastFire[b] <= now /\ Paid(b) /\ Kept(b) BY DEF BucketOK
<1>3. lastFill'[b] <= now' /\ lastFire'[b] <= now' BY <1>1, <1>2, TimeFacts
<1>4. Kept(b)' BY <1>1, <1>2 DEF Kept
<1>5. Paid(b)'
  <2> SUFFICES ASSUME NEW i \in since[b] + 1..Len(passes[b])
               PROVE  (Len(passes[b]) - i + 1) * Scale + Level(b)'
                        <= rate[b].bucket * Scale + (now' - passes[b][i]) * rate[b].share
      BY <1>1 DEF Paid
  <2> DEFINE M == (Len(passes[b]) - i + 1) * Scale
             C == rate[b].bucket * Scale
             e == now - passes[b][i]
             k == rate[b].share
             L == Level(b)
  <2>1. M + L <= C + e * k BY <1>2 DEF Paid
  <2>2. Level(b)' \in Int /\ Level(b)' <= L + k BY <1>2, LevelTicks
  <2>3. i \in 1..Len(passes[b]) BY TimeFacts
  <2>4. passes[b][i] \in Nat BY <2>3, TimeFacts
  <2>a. now \in Nat BY TimeFacts
  <2>5. e \in Int /\ now' - passes[b][i] = e + 1 BY <1>1, <2>4, <2>a
  <2>6. M \in Int /\ C \in Int /\ k \in Nat BY <2>3, RateFacts, TimeFacts
  <2>7. L \in Nat BY <1>2, LevelRange
  <2> HIDE DEF M, C, e, k, L
  <2>9. (e + 1) * k = e * k + k /\ e * k \in Int BY <2>5, <2>6
  <2>10. M + Level(b)' <= C + (e + 1) * k BY <2>1, <2>2, <2>6, <2>7, <2>9
  <2> QED BY <2>5, <2>10 DEF M, C, k
<1> QED BY <1>1, <1>2, <1>3, <1>4, <1>5 DEF BucketOK

\* A new bucket has nothing on its accounts; the others stay as they were.
LEMMA CreateAccounts ==
  ASSUME LimiterTypeOK, Accounts, NEW b \in Buckets, NEW own \in [Missing(b) -> AllRates],
         Create(b, own), now' = now, NEW x \in Buckets
  PROVE  BucketOK(x)'
<1>1. BucketOK(x) BY DEF Accounts
<1>2. UNCHANGED <<lastFire, passes, since>> /\ made' = made \cup Missing(b)
      BY DEF Create
<1>3. CASE x \in Missing(b)
  <2>1. x \notin made BY <1>3 DEF Missing
  <2>2. passes[x] = << >> /\ since[x] = 0 /\ lastFire[x] <= now BY <1>1, <2>1 DEF BucketOK
  <2>3. lastFill'[x] = now BY <1>3 DEF Create
  <2>4. lastFill'[x] <= now' BY <2>3, TimeFacts
  <2>5. Len(passes'[x]) = 0 /\ since'[x] = 0 BY <1>2, <2>2
  <2>6. Paid(x)' /\ Kept(x)' BY <2>5 DEF Paid, Kept
  <2>7. x \in made' BY <1>2, <1>3
  <2> QED BY <1>2, <2>2, <2>4, <2>5, <2>6, <2>7 DEF BucketOK
<1>4. CASE x \notin Missing(b)
  <2>1. rate'[x] = rate[x] /\ tokens'[x] = tokens[x] /\ lastFill'[x] = lastFill[x]
        BY <1>4 DEF Create
  <2> QED BY <1>1, <1>2, <2>1, BucketUntouched
<1> QED BY <1>3, <1>4

\* A reload that changes the rate opens new accounts.
LEMMA UpdateAccounts ==
  ASSUME LimiterTypeOK, Accounts, NEW b \in Buckets, NEW r \in Rates[b],
         UpdateOrCreate(b, r), b \in made, NEW x \in Buckets
  PROVE  BucketOK(x)'
<1>1. BucketOK(x) BY DEF Accounts
<1>2. /\ rate' = [rate EXCEPT ![b] = r] /\ now' = now
      /\ since' = IF rate[b] = r THEN since ELSE [since EXCEPT ![b] = Len(passes[b])]
      /\ UNCHANGED <<made, tokens, lastFill, lastFire, passes>>
      BY DEF UpdateOrCreate, Update
<1>3. CASE x # b \/ rate[b] = r
  <2>1. rate'[x] = rate[x] /\ since'[x] = since[x] BY <1>2, <1>3 DEF LimiterTypeOK
  <2> QED BY <1>1, <1>2, <2>1, BucketUntouched
<1>4. CASE x = b /\ rate[b] # r
  <2>1. since'[x] = Len(passes'[x]) BY <1>2, <1>4 DEF LimiterTypeOK
  <2>2. Len(passes'[x]) \in Nat BY <1>2, TimeFacts
  <2>3. Paid(x)' BY <2>1, <2>2 DEF Paid
  <2>4. Kept(x)' BY <2>1, <2>2 DEF Kept
  <2>5. x \in made' BY <1>2, <1>4
  <2>6. lastFill'[x] <= now' /\ lastFire'[x] <= now' BY <1>1, <1>2 DEF BucketOK
  <2> QED BY <2>1, <2>2, <2>3, <2>4, <2>5, <2>6 DEF BucketOK
<1> QED BY <1>3, <1>4

\* The accounts after every step.
LEMMA AccountsStep ==
  ASSUME LimiterTypeOK, Asked, Accounts, [LimiterNext]_limiterVars
  PROVE  Accounts'
<1> SUFFICES ASSUME NEW x \in Buckets PROVE BucketOK(x)' BY DEF Accounts
<1>a. BucketOK(x) BY DEF Accounts
<1>b. ASSUME UNCHANGED <<now, bucketVars>> PROVE BucketOK(x)'
      BY <1>a, <1>b, BucketUntouched
<1>1. ASSUME NEW w \in Waiters, NEW b \in Buckets, NEW s \in Sellers \cup {NoSeller},
             Ask(w, b, s)
      PROVE  BucketOK(x)'
  <2>1. PICK own \in [Missing(b) -> AllRates] : Create(b, own) BY <1>1 DEF Ask
  <2>2. now' = now BY <1>1 DEF Ask
  <2> QED BY <2>1, <2>2, CreateAccounts
<1>2. ASSUME NEW w \in Waiters, CheckSeller(w) PROVE BucketOK(x)'
      BY <1>2, <1>b DEF CheckSeller
<1>3. ASSUME NEW w \in Waiters, TryAcquire(w) PROVE BucketOK(x)'
  <2> DEFINE b == at[w]
  <2>1. b \in Buckets /\ b \in made
        BY <1>3, LimiterAssumption DEF TryAcquire, LimiterTypeOK, Asked
  <2>2. now' = now /\ UNCHANGED <<made, rate, since>> BY <1>3 DEF TryAcquire
  <2>3. CASE HasToken(b)
    <3>1. /\ passes' = [passes EXCEPT ![b] = Append(@, now)]
          /\ lastFire' = IF Serial(b) THEN [lastFire EXCEPT ![b] = now] ELSE lastFire
          /\ Refill(b, Scale)
          BY <1>3, <2>3 DEF TryAcquire
    <3> HIDE DEF b
    <3>2. CASE x = b BY <1>a, <2>1, <2>2, <2>3, <3>1, <3>2, BucketTaken
    <3>3. CASE x # b
      <4>1. tokens'[x] = tokens[x] /\ lastFill'[x] = lastFill[x]
            BY <3>1, <3>3 DEF Refill, LimiterTypeOK
      <4>2. passes'[x] = passes[x] /\ lastFire'[x] = lastFire[x]
            BY <3>1, <3>3 DEF LimiterTypeOK
      <4> QED BY <1>a, <2>2, <4>1, <4>2, BucketUntouched
    <3> QED BY <3>2, <3>3
  <2>4. CASE ~HasToken(b)
    <3>1. Refill(b, 0) /\ UNCHANGED <<passes, lastFire>>
          BY <1>3, <2>4 DEF TryAcquire
    <3> HIDE DEF b
    <3>2. CASE x = b BY <1>a, <2>2, <3>1, <3>2, BucketRefilled
    <3>3. CASE x # b
      <4>1. tokens'[x] = tokens[x] /\ lastFill'[x] = lastFill[x]
            BY <3>1, <3>3 DEF Refill, LimiterTypeOK
      <4> QED BY <1>a, <2>2, <3>1, <4>1, BucketUntouched
    <3> QED BY <3>2, <3>3
  <2> QED BY <2>3, <2>4
<1>4. ASSUME NEW w \in Waiters, PlanSleep(w) PROVE BucketOK(x)'
  <2> DEFINE b == at[w]
  <2>1. b \in Buckets BY <1>4 DEF PlanSleep, LimiterTypeOK
  <2>2. Refill(b, 0) /\ now' = now /\ UNCHANGED <<made, rate, lastFire, passes, since>>
        BY <1>4 DEF PlanSleep
  <2> HIDE DEF b
  <2>3. CASE x = b BY <1>a, <2>2, <2>3, BucketRefilled
  <2>4. CASE x # b
    <3>1. tokens'[x] = tokens[x] /\ lastFill'[x] = lastFill[x]
          BY <2>2, <2>4 DEF Refill, LimiterTypeOK
    <3> QED BY <1>a, <2>2, <3>1, BucketUntouched
  <2> QED BY <2>3, <2>4
<1>5. ASSUME NEW w \in Waiters, Awake(w) \/ Abandon(w) \/ RecheckSeller(w) \/ Answered(w)
      PROVE  BucketOK(x)'
      BY <1>5, <1>b DEF Awake, Abandon, RecheckSeller, Answered
<1>6. ASSUME NEW w \in Waiters, NEW length \in Cooldowns, RateLimited(w, length)
      PROVE  BucketOK(x)'
      BY <1>6, <1>b DEF RateLimited
<1>7. ASSUME NEW b \in Buckets, NEW r \in Rates[b], UpdateOrCreate(b, r)
      PROVE  BucketOK(x)'
  <2>1. CASE b \in made BY <1>7, <2>1, UpdateAccounts
  <2>2. CASE b \notin made
    <3>1. PICK own \in [Missing(b) -> AllRates] : Create(b, own)
          BY <1>7, <2>2 DEF UpdateOrCreate, Update
    <3>2. now' = now BY <1>7 DEF UpdateOrCreate
    <3> QED BY <3>1, <3>2, CreateAccounts
  <2> QED BY <2>1, <2>2
<1>8. CASE Tick BY <1>8, <1>a, BucketTicks
<1>9. CASE UNCHANGED limiterVars BY <1>9, <1>b DEF limiterVars
<1> QED BY <1>1, <1>2, <1>3, <1>4, <1>5, <1>6, <1>7, <1>8, <1>9
        DEF LimiterNext, Waiting, Surroundings

-----------------------------------------------------------------------------
(* RateLimiter: callers and cooldowns *)

LEMMA AskedStep ==
  ASSUME LimiterTypeOK, Asked, [LimiterNext]_limiterVars PROVE Asked'
<1>a. ASSUME NEW w \in Waiters, Leave(w), made' = made PROVE Asked'
      BY <1>a DEF Leave, Asked, LimiterTypeOK
<1>b. ASSUME UNCHANGED <<at, goal>>, made \subseteq made' PROVE Asked'
      BY <1>b DEF Asked
<1>1. ASSUME NEW w \in Waiters, NEW b \in Buckets, NEW s \in Sellers \cup {NoSeller},
             Ask(w, b, s)
      PROVE  Asked'
  <2>1. made' = made \cup Missing(b) BY <1>1 DEF Ask, Create
  <2>2. {b, Group[b]} \subseteq made' \cup {NoBucket} BY <2>1 DEF Missing
  <2>3. /\ goal' = [goal EXCEPT ![w] = b]
        /\ at' = [at EXCEPT ![w] = IF Group[b] = NoBucket THEN b ELSE Group[b]]
        BY <1>1 DEF Ask
  <2> QED BY <2>1, <2>2, <2>3 DEF Asked, LimiterTypeOK
<1>2. ASSUME NEW w \in Waiters, TryAcquire(w) PROVE Asked'
  <2>1. made' = made /\ goal' = goal /\ (at' = at \/ at' = [at EXCEPT ![w] = goal[w]])
        BY <1>2 DEF TryAcquire
  <2> QED BY <2>1 DEF Asked, LimiterTypeOK
<1>3. ASSUME NEW w \in Waiters,
             CheckSeller(w) \/ PlanSleep(w) \/ Awake(w) \/ RecheckSeller(w)
      PROVE  Asked'
      BY <1>3, <1>b DEF CheckSeller, PlanSleep, Awake, RecheckSeller
<1>4. ASSUME NEW w \in Waiters, Abandon(w) \/ Answered(w) PROVE Asked'
      BY <1>4, <1>a DEF Abandon, Answered
<1>5. ASSUME NEW w \in Waiters, NEW length \in Cooldowns, RateLimited(w, length)
      PROVE  Asked'
      BY <1>5, <1>a DEF RateLimited
<1>6. ASSUME NEW b \in Buckets, NEW r \in Rates[b], UpdateOrCreate(b, r) PROVE Asked'
  <2>1. made \subseteq made' BY <1>6 DEF UpdateOrCreate, Update, Create
  <2> QED BY <1>6, <2>1, <1>b DEF UpdateOrCreate, Update
<1>7. CASE Tick \/ UNCHANGED limiterVars BY <1>7, <1>b DEF Tick, limiterVars
<1> QED BY <1>1, <1>2, <1>3, <1>4, <1>5, <1>6, <1>7 DEF LimiterNext, Waiting, Surroundings

\* Forgetting a cooldown loses only what is over.
LEMMA ForgetKnown ==
  ASSUME LimiterTypeOK, CooldownsKnown, NEW s \in Sellers, ForgetExpired(s),
         UNCHANGED <<now, cooled>>
  PROVE  CooldownsKnown' /\ (~Cooling(s) => cooled[s] <= now)
<1>1. until[s] \in Int /\ now \in Nat /\ cooled[s] \in Nat BY DEF LimiterTypeOK, Never
<1>2. ~Cooling(s) => cooled[s] <= now BY <1>1 DEF Cooling, CooldownsKnown, Never
<1>3. CASE Cooling(s) BY <1>3 DEF ForgetExpired, CooldownsKnown
<1>4. CASE ~Cooling(s)
  <2>1. until' = [until EXCEPT ![s] = Never] BY <1>4 DEF ForgetExpired
  <2>2. until'[s] <= cooled'[s] /\ cooled'[s] <= now'
        BY <1>1, <1>2, <1>4, <2>1 DEF LimiterTypeOK, Never
  <2>3. \A t \in Sellers \ {s} : until'[t] = until[t] BY <2>1 DEF LimiterTypeOK
  <2> QED BY <2>2, <2>3 DEF CooldownsKnown
<1> QED BY <1>2, <1>3, <1>4

\* What is learned together is known together.
LEMMA HigherKnown ==
  ASSUME NEW u \in Int, NEW c \in Nat, NEW e \in Nat, NEW t \in Nat,
         u <= c, u = c \/ c <= t, t < e
  PROVE  Higher(u, e) = Higher(c, e)
BY DEF Higher

LEMMA CooldownsKnownStep ==
  ASSUME LimiterTypeOK, CooldownsKnown, [LimiterNext]_limiterVars PROVE CooldownsKnown'
<1>a. ASSUME UNCHANGED <<now, until, cooled>> PROVE CooldownsKnown'
      BY <1>a DEF CooldownsKnown
<1>1. ASSUME NEW w \in Waiters, CheckSeller(w) \/ RecheckSeller(w) PROVE CooldownsKnown'
  <2>1. seller[w] \in Sellers BY <1>1 DEF CheckSeller, RecheckSeller, LimiterTypeOK
  <2>2. ForgetExpired(seller[w]) /\ UNCHANGED <<now, cooled>>
        BY <1>1 DEF CheckSeller, RecheckSeller
  <2> QED BY <2>1, <2>2, ForgetKnown
<1>2. ASSUME NEW w \in Waiters, NEW length \in Cooldowns, RateLimited(w, length)
      PROVE  CooldownsKnown'
  <2> DEFINE s == seller[w]
             e == now + length
  <2>1. s \in Sellers BY <1>2 DEF RateLimited, LimiterTypeOK
  <2>2. CASE length > 0
    <3>1. /\ until' = [until EXCEPT ![s] = Higher(until[s], e)]
          /\ cooled' = [cooled EXCEPT ![s] = Higher(cooled[s], e)] /\ now' = now
          BY <1>2, <2>2 DEF RateLimited
    <3>2. e \in Nat /\ now < e /\ now \in Nat
          BY <2>2, LimiterAssumption DEF LimiterTypeOK
    <3> HIDE DEF s, e
    <3>3. until[s] \in Int /\ cooled[s] \in Nat BY <2>1 DEF LimiterTypeOK, Never
    <3>4. until[s] <= cooled[s] /\ (until[s] = cooled[s] \/ cooled[s] <= now)
          BY <2>1 DEF CooldownsKnown
    <3>5. Higher(until[s], e) = Higher(cooled[s], e)
          BY <3>2, <3>3, <3>4, HigherKnown
    <3>6. until'[s] = cooled'[s] /\ cooled'[s] \in Nat
          BY <2>1, <3>1, <3>2, <3>3, <3>5 DEF LimiterTypeOK, Higher
    <3>7. \A t \in Sellers \ {s} : until'[t] = until[t] /\ cooled'[t] = cooled[t]
          BY <3>1 DEF LimiterTypeOK
    <3>8. \A t \in Sellers \ {s} :
            until'[t] <= cooled'[t] /\ (until'[t] = cooled'[t] \/ cooled'[t] <= now')
          BY <3>1, <3>7 DEF CooldownsKnown
    <3> QED BY <3>6, <3>8 DEF CooldownsKnown
  <2>3. CASE ~(length > 0) BY <1>2, <2>3, <1>a DEF RateLimited
  <2> QED BY <2>2, <2>3
<1>3. CASE Tick
  <2>1. now' = now + 1 /\ UNCHANGED <<until, cooled>> BY <1>3 DEF Tick
  <2>2. now \in Nat /\ \A s \in Sellers : cooled[s] \in Nat BY DEF LimiterTypeOK
  <2> QED BY <2>1, <2>2 DEF CooldownsKnown
<1>4. ASSUME NEW w \in Waiters, NEW b \in Buckets, NEW s \in Sellers \cup {NoSeller},
             Ask(w, b, s)
      PROVE  CooldownsKnown'
      BY <1>4, <1>a DEF Ask
<1>5. ASSUME NEW w \in Waiters,
             TryAcquire(w) \/ PlanSleep(w) \/ Awake(w) \/ Abandon(w) \/ Answered(w)
      PROVE  CooldownsKnown'
      BY <1>5, <1>a DEF TryAcquire, PlanSleep, Awake, Abandon, Answered
<1>6. ASSUME NEW b \in Buckets, NEW r \in Rates[b], UpdateOrCreate(b, r)
      PROVE  CooldownsKnown'
      BY <1>6, <1>a DEF UpdateOrCreate
<1>7. CASE UNCHANGED limiterVars BY <1>7, <1>a DEF limiterVars
<1> QED BY <1>1, <1>2, <1>3, <1>4, <1>5, <1>6, <1>7 DEF LimiterNext, Waiting, Surroundings

-----------------------------------------------------------------------------
(* RateLimiter: the theorems *)

LEMMA LimiterInvInit == LimiterInit => LimiterInv
<1> SUFFICES ASSUME LimiterInit PROVE LimiterInv OBVIOUS
<1>1. LimiterTypeOK BY LimiterTypeInit
<1>2. Asked BY DEF LimiterInit, Asked
<1>3. CooldownsKnown BY DEF LimiterInit, CooldownsKnown, Never
<1>4. Accounts
  <2> SUFFICES ASSUME NEW b \in Buckets PROVE BucketOK(b) BY DEF Accounts
  <2>1. /\ now = 0 /\ lastFill[b] = 0 /\ lastFire[b] = -1 /\ since[b] = 0
        /\ passes[b] = << >>
        BY DEF LimiterInit, Never
  <2>2. Len(passes[b]) = 0 BY <2>1
  <2>3. Paid(b) /\ Kept(b) BY <2>1, <2>2 DEF Paid, Kept
  <2> QED BY <2>1, <2>2, <2>3 DEF BucketOK
<1> QED BY <1>1, <1>2, <1>3, <1>4 DEF LimiterInv

LEMMA LimiterInvStep ==
  ASSUME LimiterInv, [LimiterNext]_limiterVars PROVE LimiterInv'
<1>1. \A b \in Buckets : lastFill[b] <= now /\ lastFire[b] <= now
      BY DEF LimiterInv, Accounts, BucketOK
<1>2. LimiterTypeOK' BY <1>1, LimiterTypeStep DEF LimiterInv
<1>3. Asked' /\ Accounts' /\ CooldownsKnown'
      BY AskedStep, AccountsStep, CooldownsKnownStep DEF LimiterInv
<1> QED BY <1>2, <1>3 DEF LimiterInv

\* The invariant holds in every reachable state.
THEOREM LimiterInvariance == LimiterSpec => []LimiterInv
<1> QED BY LimiterInvInit, LimiterInvStep, PTL DEF LimiterSpec

\* Every variable keeps its type.
THEOREM LimiterTypeCorrect == LimiterSpec => []LimiterTypeOK
<1>1. LimiterInv => LimiterTypeOK BY DEF LimiterInv
<1> QED BY <1>1, LimiterInvariance, PTL

\* While the rate of a bucket is not changed it keeps it, whatever capacity and interval
\* are, whoever asks, and however often a reload writes the same rate again.
THEOREM RatesAreKept == LimiterSpec => []RateKept
<1>1. LimiterInv => RateKept BY DEF LimiterInv, Accounts, BucketOK, Kept, RateKept
<1> QED BY <1>1, LimiterInvariance, PTL

\* The only way of a query out of the limiter is a look at the cooldown that finds
\* every one that was learned to be over.
LEMMA CooldownHeldStep ==
  ASSUME LimiterInv, [LimiterNext]_limiterVars, NEW w \in Waiters,
         seller[w] # NoSeller, place[w] # "sent", place'[w] = "sent"
  PROVE  cooled[seller[w]] <= now
<1>0. LimiterTypeOK /\ CooldownsKnown BY DEF LimiterInv
<1>1. ASSUME NEW v \in Waiters, RecheckSeller(v) PROVE cooled[seller[w]] <= now
  <2>1. v = w BY <1>0, <1>1 DEF RecheckSeller, Move, LimiterTypeOK
  <2>2. ~Cooling(seller[w]) BY <1>0, <1>1, <2>1 DEF RecheckSeller, Move, LimiterTypeOK
  <2>3. seller[w] \in Sellers BY <1>0 DEF LimiterTypeOK
  <2>4. ForgetExpired(seller[w]) /\ UNCHANGED <<now, cooled>>
        BY <1>1, <2>1 DEF RecheckSeller
  <2> QED BY <1>0, <2>2, <2>3, <2>4, ForgetKnown
<1>2. ASSUME NEW v \in Waiters, TryAcquire(v) PROVE FALSE
  <2>1. v = w BY <1>0, <1>2 DEF TryAcquire, Move, LimiterTypeOK
  <2>2. place'[w] \in {"try", "recheck", "plan"}
        BY <1>0, <1>2, <2>1 DEF TryAcquire, Move, LimiterTypeOK
  <2> QED BY <2>2
<1>3. ASSUME NEW v \in Waiters, NEW b \in Buckets, NEW s \in Sellers \cup {NoSeller},
             Ask(v, b, s)
      PROVE  FALSE
      BY <1>0, <1>3 DEF Ask, Move, LimiterTypeOK
<1>4. ASSUME NEW v \in Waiters, CheckSeller(v) \/ PlanSleep(v) \/ Awake(v) PROVE FALSE
      BY <1>0, <1>4 DEF CheckSeller, PlanSleep, Awake, Move, LimiterTypeOK
<1>5. ASSUME NEW v \in Waiters, Abandon(v) \/ Answered(v) PROVE FALSE
      BY <1>0, <1>5 DEF Abandon, Answered, Leave, Move, LimiterTypeOK
<1>6. ASSUME NEW v \in Waiters, NEW length \in Cooldowns, RateLimited(v, length)
      PROVE  FALSE
      BY <1>0, <1>6 DEF RateLimited, Leave, Move, LimiterTypeOK
<1>7. ASSUME NEW b \in Buckets, NEW r \in Rates[b], UpdateOrCreate(b, r) PROVE FALSE
      BY <1>7 DEF UpdateOrCreate
<1>8. CASE Tick \/ UNCHANGED limiterVars BY <1>8 DEF Tick, limiterVars
<1> QED BY <1>1, <1>2, <1>3, <1>4, <1>5, <1>6, <1>7, <1>8
        DEF LimiterNext, Waiting, Surroundings

\* A cooldown binds every query of the seller that is not yet sent, whichever call
\* learned it: a query that waited for a token meanwhile looks again.
THEOREM CooldownsAreHeld == LimiterSpec => CooldownHeld
<1>1. LimiterInv /\ [LimiterNext]_limiterVars =>
        [\A w \in Waiters :
           (seller[w] # NoSeller /\ place[w] # "sent" /\ place'[w] = "sent") =>
             cooled[seller[w]] <= now]_limiterVars
      BY CooldownHeldStep
<1> QED BY <1>1, LimiterInvariance, PTL DEF LimiterSpec, CooldownHeld
=============================================================================
