------------------------------ MODULE RateLimiter ------------------------------
(***************************************************************************)
(* worker.Limiter, its registry, and reportexport.SellerRateLimiter.       *)
(*                                                                         *)
(* A call of an endpoint asks the bucket of its quota group and then its   *)
(* own; a query of a formal report also waits out the cooldown of its      *)
(* seller.  A hot reload changes rates under the callers.  A step is one   *)
(* critical section of a mutex or one end of a timer; every critical       *)
(* section reads the clock once.  Tokens are floats that grow linearly in  *)
(* time: here they are counted in parts, Scale of them to a token, and     *)
(* bucket and interval are those NewLimiter leaves after its clamping.     *)
(***************************************************************************)
EXTENDS Integers, Sequences

CONSTANTS
  Waiters,    \* goroutines that call Wait
  Buckets,    \* the limiters: of paths, of quota groups, of the report runner
  Group,      \* bucket -> the bucket of its quota group, or NoBucket
  Rates,      \* bucket -> the rates it may have: [bucket, interval, share]
  Scale,      \* parts of a token
  Sellers,
  NoBucket, NoSeller,
  Cooldowns,  \* lengths of a seller cooldown
  MaxNow      \* bound on the clock

\* A token comes back part by part: share parts in a tick, all of it in an interval.
IsRate(r) ==
  /\ r.bucket \in Nat /\ r.interval \in Nat /\ r.share \in Nat
  /\ r.bucket >= 1 /\ r.interval >= 1 /\ r.share >= 1
  /\ r.share * r.interval = Scale

AllRates == UNION {Rates[b] : b \in Buckets}

ASSUME LimiterAssumption ==
  /\ MaxNow \in Nat /\ Scale \in Nat /\ Cooldowns \subseteq Nat
  /\ NoBucket \notin Buckets /\ NoSeller \notin Sellers
  /\ Group \in [Buckets -> Buckets \cup {NoBucket}]
  /\ \A b \in Buckets : Rates[b] # {} /\ \A r \in Rates[b] : IsRate(r)

VARIABLES
  now,
  \* the registry and its limiters: which exist, capacity and interval, tokens (in
  \* parts), lastFill, lastFire
  made, rate, tokens, lastFill, lastFire,
  until,      \* SellerRateLimiter: the end of a seller's cooldown
  \* a goroutine: where it is, the limiter it called, the bucket it asks now, the seller
  \* of its query, the end of its timer
  place, goal, at, seller, wake,
  \* history: when each bucket let calls through, how many of them before its rate
  \* was last changed, and the latest end of the cooldowns learned of a seller
  passes, since, cooled

bucketVars  == <<made, rate, tokens, lastFill, lastFire, passes, since>>
callVars    == <<place, goal, at, seller, wake>>
limiterVars == <<now, made, rate, tokens, lastFill, lastFire, until,
                 place, goal, at, seller, wake, passes, since, cooled>>

Never == -1   \* the zero time of lastFire and of a seller without a cooldown

Places == {"out", "check", "hold", "try", "plan", "sleep", "recheck", "sent"}

\* Every variable keeps its type.
LimiterTypeOK ==
  /\ now \in Nat
  /\ made \subseteq Buckets
  /\ rate \in [Buckets -> AllRates] /\ \A b \in Buckets : rate[b] \in Rates[b]
  /\ tokens \in [Buckets -> Nat] /\ lastFill \in [Buckets -> Nat]
  /\ lastFire \in [Buckets -> Nat \cup {Never}]
  /\ until \in [Sellers -> Nat \cup {Never}]
  /\ place \in [Waiters -> Places]
  /\ goal \in [Waiters -> Buckets \cup {NoBucket}]
  /\ at \in [Waiters -> Buckets \cup {NoBucket}]
  /\ seller \in [Waiters -> Sellers \cup {NoSeller}]
  /\ \A w \in Waiters : place[w] # "out" => at[w] \in Buckets /\ goal[w] \in Buckets
  /\ \A w \in Waiters :
       place[w] \in {"check", "hold", "recheck"} => seller[w] \in Sellers
  /\ wake \in [Waiters -> Nat]
  /\ passes \in [Buckets -> Seq(Nat)] /\ since \in [Buckets -> Nat]
  /\ cooled \in [Sellers -> Nat]

Move(w, label) == place' = [place EXCEPT ![w] = label]

Lower(a, b)  == IF a <= b THEN a ELSE b
Higher(a, b) == IF a <= b THEN b ELSE a

-----------------------------------------------------------------------------
(* The bucket *)

Serial(b) == rate[b].bucket = 1

\* Serial: the time since the last call is long enough, or there was none.
Spaced(b) == lastFire[b] = Never \/ now - lastFire[b] >= rate[b].interval

\* refillLocked: linear in time, up to the capacity.  (Its early return for no time
\* elapsed leaves nothing out: two readings of the clock differ by less than a tick.)
Refilled(b) ==
  Lower(rate[b].bucket * Scale, tokens[b] + (now - lastFill[b]) * rate[b].share)

\* tryAcquire succeeds.
HasToken(b) == IF Serial(b) THEN Spaced(b) ELSE Refilled(b) >= Scale

\* What tryAcquire and nextWait leave behind when they take `taken` parts.
Refill(b, taken) ==
  IF Serial(b)
  THEN UNCHANGED <<tokens, lastFill>>
  ELSE /\ tokens' = [tokens EXCEPT ![b] = Refilled(b) - taken]
       /\ lastFill' = [lastFill EXCEPT ![b] = now]

\* nextWait: what is missing of a token or an interval, rounded.
NextWait(b) ==
  IF Serial(b)
  THEN IF Spaced(b) THEN 0 ELSE rate[b].interval - (now - lastFire[b])
  ELSE IF Refilled(b) >= Scale THEN 0
       ELSE (2 * (Scale - Refilled(b)) + rate[b].share) \div (2 * rate[b].share)

\* The buckets that Get and UpdateOrCreate add for b: its own and its group's.
Missing(b) == ({b, Group[b]} \ {NoBucket}) \ made

\* NewLimiter for those, each with a rate of its own: full.
Create(b, own) ==
  /\ \A x \in Missing(b) : own[x] \in Rates[x]
  /\ made' = made \cup Missing(b)
  /\ rate' = [x \in Buckets |-> IF x \in Missing(b) THEN own[x] ELSE rate[x]]
  /\ tokens' = [x \in Buckets |->
                  IF x \in Missing(b) THEN own[x].bucket * Scale ELSE tokens[x]]
  /\ lastFill' = [x \in Buckets |-> IF x \in Missing(b) THEN now ELSE lastFill[x]]
  /\ UNCHANGED <<lastFire, passes, since>>

-----------------------------------------------------------------------------
(* Wait and WaitSeller *)

\* A goroutine calls Wait on the limiter b, or WaitSeller on the report runner's, which
\* has no group.  Get makes a missing bucket with the rate the caller knows.
Ask(w, b, s) ==
  /\ place[w] = "out"
  /\ s # NoSeller => Group[b] = NoBucket
  /\ \E own \in [Missing(b) -> AllRates] : Create(b, own)
  /\ goal' = [goal EXCEPT ![w] = b]
  /\ at' = [at EXCEPT ![w] = IF Group[b] = NoBucket THEN b ELSE Group[b]]
  /\ seller' = [seller EXCEPT ![w] = s]
  /\ Move(w, IF s = NoSeller THEN "try" ELSE "check")
  /\ UNCHANGED <<now, until, wake, cooled>>

\* The call is over, with the locals of its goroutine.
Leave(w) ==
  /\ Move(w, "out")
  /\ goal' = [goal EXCEPT ![w] = NoBucket] /\ at' = [at EXCEPT ![w] = NoBucket]
  /\ seller' = [seller EXCEPT ![w] = NoSeller]
  /\ wake' = [wake EXCEPT ![w] = 0]

\* cooldownRemaining: an expired cooldown is forgotten.
Cooling(s)       == until[s] # Never /\ until[s] > now
ForgetExpired(s) == until' = IF Cooling(s) THEN until ELSE [until EXCEPT ![s] = Never]

\* The head of WaitSeller's loop: sleep out the cooldown, if there is one.
CheckSeller(w) ==
  /\ place[w] = "check"
  /\ ForgetExpired(seller[w])
  /\ IF Cooling(seller[w])
     THEN Move(w, "hold") /\ wake' = [wake EXCEPT ![w] = until[seller[w]]]
     ELSE Move(w, "try") /\ UNCHANGED wake
  /\ UNCHANGED <<now, bucketVars, goal, at, seller, cooled>>

\* tryAcquire at the bucket the goroutine is at.  With a token it goes on to its own
\* bucket, to the second look at the cooldown, or back to its caller.
TryAcquire(w) ==
  LET b == at[w] IN
  /\ place[w] = "try"
  /\ IF HasToken(b)
     THEN /\ passes' = [passes EXCEPT ![b] = Append(@, now)]
          /\ lastFire' = IF Serial(b) THEN [lastFire EXCEPT ![b] = now] ELSE lastFire
          /\ Refill(b, Scale)
          /\ at' = [at EXCEPT ![w] = goal[w]]
          /\ Move(w, IF b # goal[w] THEN "try"
                     ELSE IF seller[w] # NoSeller THEN "recheck" ELSE "sent")
     ELSE /\ Refill(b, 0)
          /\ Move(w, "plan")
          /\ UNCHANGED <<passes, lastFire, at>>
  /\ UNCHANGED <<now, made, rate, since, until, goal, seller, wake, cooled>>

\* nextWait: sleep, or try again at once.
PlanSleep(w) ==
  LET b == at[w] IN
  /\ place[w] = "plan"
  /\ Refill(b, 0)
  /\ IF NextWait(b) <= 0
     THEN Move(w, "try") /\ UNCHANGED wake
     ELSE Move(w, "sleep") /\ wake' = [wake EXCEPT ![w] = now + NextWait(b)]
  /\ UNCHANGED <<now, made, rate, lastFire, passes, since, until, goal, at, seller,
                 cooled>>

\* The timer fires.
Awake(w) ==
  /\ place[w] \in {"sleep", "hold"}
  /\ now >= wake[w]
  /\ Move(w, "try") /\ wake' = [wake EXCEPT ![w] = 0]
  /\ UNCHANGED <<now, bucketVars, until, goal, at, seller, cooled>>

\* The context has ended, by a cancel, a deadline or the end of the process: only a
\* goroutine that sleeps looks.  The token it may have of the group's bucket is lost.
Abandon(w) ==
  /\ place[w] \in {"sleep", "hold"}
  /\ Leave(w)
  /\ UNCHANGED <<now, bucketVars, until, cooled>>

\* Faulty variant: once through the limiter, a query is sent.
RecheckNothing(w) ==
  /\ place[w] = "recheck"
  /\ Move(w, "sent")
  /\ UNCHANGED <<now, bucketVars, until, goal, at, seller, wake, cooled>>

\* The foot of WaitSeller's loop: a cooldown learned in the meantime sends it back.
RecheckSeller(w) ==
  /\ place[w] = "recheck"
  /\ ForgetExpired(seller[w])
  /\ Move(w, IF Cooling(seller[w]) THEN "check" ELSE "sent")
  /\ UNCHANGED <<now, bucketVars, goal, at, seller, wake, cooled>>

-----------------------------------------------------------------------------
(* The request itself, the clock, and a reload *)

\* The request that Wait let go is answered.
Answered(w) ==
  /\ place[w] = "sent"
  /\ Leave(w)
  /\ UNCHANGED <<now, bucketVars, until, cooled>>

\* A query is answered "too many requests": CooldownSeller, which only ever extends.
RateLimited(w, length) ==
  LET s == seller[w] IN
  /\ place[w] = "sent" /\ s # NoSeller
  /\ Leave(w)
  /\ IF length > 0
     THEN /\ until' = [until EXCEPT ![s] = Higher(@, now + length)]
          /\ cooled' = [cooled EXCEPT ![s] = Higher(@, now + length)]
     ELSE UNCHANGED <<until, cooled>>
  /\ UNCHANGED <<now, bucketVars>>

\* Faulty variant: the reload puts a new limiter in the place of the old one.
UpdateByNew(b, r) ==
  /\ rate' = [rate EXCEPT ![b] = r]
  /\ since' = IF rate[b] = r THEN since ELSE [since EXCEPT ![b] = Len(passes[b])]
  /\ tokens' = [tokens EXCEPT ![b] = r.bucket * Scale]
  /\ lastFill' = [lastFill EXCEPT ![b] = now]
  /\ lastFire' = [lastFire EXCEPT ![b] = Never]
  /\ UNCHANGED <<made, passes>>

\* Update: only capacity and interval of the limiter are written.
Update(b, r) ==
  /\ rate' = [rate EXCEPT ![b] = r]
  /\ since' = IF rate[b] = r THEN since ELSE [since EXCEPT ![b] = Len(passes[b])]
  /\ UNCHANGED <<made, tokens, lastFill, lastFire, passes>>

\* UpdateOrCreate, for any endpoint of a saved configuration, changed or not.
UpdateOrCreate(b, r) ==
  /\ IF b \in made
     THEN Update(b, r)
     ELSE \E own \in [Missing(b) -> AllRates] : own[b] = r /\ Create(b, own)
  /\ UNCHANGED <<now, until, callVars, cooled>>

Tick ==
  /\ now < MaxNow
  /\ now' = now + 1
  /\ UNCHANGED <<bucketVars, until, callVars, cooled>>

-----------------------------------------------------------------------------
\* A process starts with the report runner's limiter and an empty registry.
LimiterInit ==
  /\ now = 0
  /\ made = {b \in Buckets : Group[b] = NoBucket /\ \A x \in Buckets : Group[x] # b}
  /\ rate = [b \in Buckets |-> CHOOSE r \in Rates[b] : TRUE]
  /\ tokens = [b \in Buckets |-> rate[b].bucket * Scale]
  /\ lastFill = [b \in Buckets |-> 0]
  /\ lastFire = [b \in Buckets |-> Never]
  /\ until = [s \in Sellers |-> Never]
  /\ place = [w \in Waiters |-> "out"]
  /\ goal = [w \in Waiters |-> NoBucket] /\ at = [w \in Waiters |-> NoBucket]
  /\ seller = [w \in Waiters |-> NoSeller]
  /\ wake = [w \in Waiters |-> 0]
  /\ passes = [b \in Buckets |-> << >>] /\ since = [b \in Buckets |-> 0]
  /\ cooled = [s \in Sellers |-> 0]

Waiting(w) ==
  \/ CheckSeller(w) \/ TryAcquire(w) \/ PlanSleep(w) \/ Awake(w) \/ Abandon(w)
  \/ RecheckSeller(w)

Surroundings ==
  \/ \E b \in Buckets : Group[b] # NoBucket /\ \E r \in Rates[b] : UpdateOrCreate(b, r)
  \/ Tick

LimiterNext ==
  \/ \E w \in Waiters :
       \/ \E b \in Buckets, s \in Sellers \cup {NoSeller} : Ask(w, b, s)
       \/ Waiting(w) \/ Answered(w)
       \/ \E length \in Cooldowns : RateLimited(w, length)
  \/ Surroundings

LimiterSpec == LimiterInit /\ [][LimiterNext]_limiterVars

-----------------------------------------------------------------------------
(* Properties *)

\* While the rate of a bucket stays what it is, and however often a reload writes it
\* again, any n calls it lets through in a row take at least n - capacity intervals:
\* capacity at once and one in each interval, and one after the other if it is serial.
RateKept ==
  \A b \in Buckets : \A j \in 1..Len(passes[b]) : \A i \in since[b] + 1..j :
    (j - i + 1 - rate[b].bucket) * Scale <= (passes[b][j] - passes[b][i]) * rate[b].share

\* No query of a seller is sent before every cooldown learned from an answer to an
\* earlier one is over, whichever call learned it and whatever the query waited for.
CooldownHeld ==
  [][\A w \in Waiters :
       (seller[w] # NoSeller /\ place[w] # "sent" /\ place'[w] = "sent") =>
         cooled[seller[w]] <= now]_limiterVars

-----------------------------------------------------------------------------
(* Claims of the comments that the code does not keep *)

\* limiter.go: with bucket=1 every call is at least an interval after the one before,
\* and a change of the rate needs no special care of tokens and times.
SerialIsSpaced ==
  [][\A b \in Buckets :
       LET n == Len(passes[b]) IN
       (n > 0 /\ passes'[b] # passes[b] /\ Serial(b)) =>
         now - passes[b][n] >= rate[b].interval]_limiterVars
=============================================================================
