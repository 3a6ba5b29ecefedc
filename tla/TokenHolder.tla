------------------------------ MODULE TokenHolder ------------------------------
(***************************************************************************)
(* The access token of one account: api.TokenHolder and its callers.       *)
(*                                                                         *)
(* Workers, report runs and connection checks of one account share one     *)
(* TokenHolder.  A signed request asks Get for the cached token; a request *)
(* refused as expired forces a refresh and is sent once more.  Refreshes   *)
(* are single flight: the first caller fetches, the others wait for its    *)
(* done channel and then read the shared fields.  A step is one critical   *)
(* section of h.mu or one remote call, so a waiter reads the fields some   *)
(* time after the channel was closed.  A token has no value here: what     *)
(* counts is whether one is cached and still believed to be fresh.         *)
(***************************************************************************)
CONSTANTS Callers   \* goroutines of one account

VARIABLES
  \* the fields under h.mu: token # "", now < expireAt, inFlight, err # nil
  cached, fresh, inFlight, err,
  \* a caller: where it is, why it needs the token, whether it is resending
  pc, purpose, resending,
  \* history: the waiters whose own refresh failed
  failedWait

fieldVars == <<cached, fresh, inFlight, err>>
vars == <<cached, fresh, inFlight, err, pc, purpose, resending, failedWait>>

\* "get": the token of a request; "force": after a refusal; "check": a
\* connection check or the test button, which only want the refresh.
Purposes == {"get", "force", "check"}

\* Every variable keeps its type.
TypeOK ==
  /\ cached \in BOOLEAN /\ fresh \in BOOLEAN /\ inFlight \in BOOLEAN /\ err \in BOOLEAN
  /\ pc \in [Callers -> {"idle", "get", "enter", "fetch", "wait", "woken", "send"}]
  /\ purpose \in [Callers -> Purposes]
  /\ resending \subseteq Callers
  /\ failedWait \subseteq Callers

Goto(c, label) == pc' = [pc EXCEPT ![c] = label]

\* Where a caller goes with a token, or the nil error of ForceRefresh, in hand.
Served(c) ==
  CASE purpose[c] = "get"   -> "send"
    [] purpose[c] = "force" -> "get"
    [] purpose[c] = "check" -> "idle"

-----------------------------------------------------------------------------
(* Requests *)

\* DoSignedJSON and FetchWithShapeAndHeaders start with a first attempt.
Request(c) ==
  /\ pc[c] = "idle"
  /\ Goto(c, "get")
  /\ resending' = resending \ {c}
  /\ UNCHANGED <<fieldVars, purpose, failedWait>>

\* The connection check job and the configuration page force a refresh.
CheckConnection(c) ==
  /\ pc[c] = "idle"
  /\ purpose' = [purpose EXCEPT ![c] = "check"]
  /\ Goto(c, "enter")
  /\ UNCHANGED <<fieldVars, resending, failedWait>>

\* The attempt is answered: done, failed, or, once, refused as expired (upstream
\* may drop a token whenever it likes).
Send(c) ==
  /\ pc[c] = "send"
  /\ \/ /\ Goto(c, "idle")
        /\ UNCHANGED <<purpose, resending>>
     \/ /\ c \notin resending
        /\ resending' = resending \cup {c}
        /\ purpose' = [purpose EXCEPT ![c] = "force"]
        /\ Goto(c, "enter")
  /\ UNCHANGED <<fieldVars, failedWait>>

-----------------------------------------------------------------------------
(* Get and refreshAndWait *)

\* Get: the cached token while it lasts, a refresh otherwise.
Get(c) ==
  /\ pc[c] = "get"
  /\ purpose' = [purpose EXCEPT ![c] = "get"]
  /\ Goto(c, IF cached /\ fresh THEN "send" ELSE "enter")
  /\ UNCHANGED <<fieldVars, resending, failedWait>>

\* Faulty variant: nobody looks whether a refresh is in flight.
EnterAlways(c) ==
  /\ pc[c] = "enter"
  /\ Goto(c, "fetch") /\ inFlight' = TRUE /\ err' = FALSE
  /\ UNCHANGED <<cached, fresh, purpose, resending, failedWait>>

\* The first caller fetches and resets err; the others wait on its channel.
Enter(c) ==
  /\ pc[c] = "enter"
  /\ IF inFlight
     THEN Goto(c, "wait") /\ UNCHANGED <<inFlight, err>>
     ELSE Goto(c, "fetch") /\ inFlight' = TRUE /\ err' = FALSE
  /\ UNCHANGED <<cached, fresh, purpose, resending, failedWait>>

\* Faulty variant: after a failed fetch the channel is left open.
PublishLeavesWaiters(c, ok) ==
  /\ pc[c] = "fetch"
  /\ inFlight' = FALSE /\ err' = ~ok
  /\ cached' = (cached \/ ok) /\ fresh' = (fresh \/ ok)
  /\ pc' = [d \in Callers |->
              IF d = c THEN (IF ok THEN Served(c) ELSE "idle")
              ELSE IF pc[d] = "wait" /\ ok THEN "woken" ELSE pc[d]]
  /\ UNCHANGED <<purpose, resending, failedWait>>

\* The fetch is over (its failure may be the leader's own context): the result
\* is stored, a failure leaves the old token alone, and closing the channel
\* releases every waiter.
Publish(c, ok) ==
  /\ pc[c] = "fetch"
  /\ inFlight' = FALSE /\ err' = ~ok
  /\ cached' = (cached \/ ok) /\ fresh' = (fresh \/ ok)
  /\ pc' = [d \in Callers |->
              IF d = c THEN (IF ok THEN Served(c) ELSE "idle")
              ELSE IF pc[d] = "wait" THEN "woken" ELSE pc[d]]
  /\ failedWait' = IF ok THEN failedWait
                   ELSE failedWait \cup {d \in Callers : pc[d] = "wait"}
  /\ UNCHANGED <<purpose, resending>>

\* A released waiter reads whatever err and token are by now.
ReadShared(c) ==
  /\ pc[c] = "woken"
  /\ Goto(c, IF err \/ ~cached THEN "idle" ELSE Served(c))
  /\ failedWait' = failedWait \ {c}
  /\ UNCHANGED <<fieldVars, purpose, resending>>

\* The waiter's own context ends; with both channels ready select picks either.
GiveUp(c) ==
  /\ pc[c] \in {"wait", "woken"}
  /\ Goto(c, "idle")
  /\ failedWait' = failedWait \ {c}
  /\ UNCHANGED <<fieldVars, purpose, resending>>

\* expireAt passes.
Expire ==
  /\ fresh
  /\ fresh' = FALSE
  /\ UNCHANGED <<cached, inFlight, err, pc, purpose, resending, failedWait>>

-----------------------------------------------------------------------------
Init ==
  /\ cached = FALSE /\ fresh = FALSE /\ inFlight = FALSE /\ err = FALSE
  /\ pc = [c \in Callers |-> "idle"]
  /\ purpose = [c \in Callers |-> "get"]
  /\ resending = {} /\ failedWait = {}

Step(c) ==
  \/ Send(c) \/ Get(c) \/ Enter(c) \/ ReadShared(c) \/ GiveUp(c)
  \/ \E ok \in BOOLEAN : Publish(c, ok)

Next ==
  \/ \E c \in Callers : Request(c) \/ CheckConnection(c) \/ Step(c)
  \/ Expire

Spec == Init /\ [][Next]_vars

\* Goroutines run, and every HTTP call ends by its 60 s timeout.  A waiter is not
\* assumed to have a deadline of its own.
FairSpec ==
  /\ Spec
  /\ \A c \in Callers :
       WF_vars(Send(c) \/ Get(c) \/ Enter(c) \/ ReadShared(c)
               \/ \E ok \in BOOLEAN : Publish(c, ok))

-----------------------------------------------------------------------------
(* Properties *)

\* The token endpoint never sees two requests of one account at a time, and
\* nobody waits on a channel that no running refresh will close.
SingleFlight ==
  /\ \A c, d \in Callers : (pc[c] = "fetch" /\ pc[d] = "fetch") => c = d
  /\ inFlight <=> \E c \in Callers : pc[c] = "fetch"
  /\ \A c \in Callers : pc[c] = "wait" => inFlight

\* Every request and check comes to an end, whoever fails.
CallsReturn == \A c \in Callers : pc[c] # "idle" ~> pc[c] = "idle"

\* token.go: on failure all waiters share the one error.  A waiter whose refresh
\* failed returns with an error.
FailedRefreshIsShared ==
  [][\A c \in Callers :
       (pc[c] = "woken" /\ c \in failedWait /\ pc'[c] # "woken") => pc'[c] = "idle"]_vars

=============================================================================
