----------------------------- MODULE MCRateLimiter -----------------------------
(* Small instances of RateLimiter for TLC. *)
EXTENDS RateLimiter, TLC

CONSTANTS w1, w2, path, group, report

TwoWaiters     == {w1, w2}
WaiterSymmetry == Permutations(TwoWaiters)

\* The limiter of a path, the bucket of its quota group, that of the report runner.
ThreeBuckets == {path, group, report}
GroupOf      == (path :> group) @@ (group :> NoBucket) @@ (report :> NoBucket)

\* A bucket of two, a serial one, and a serial one that is faster than both.
Pair    == [bucket |-> 2, interval |-> 2, share |-> 1]
Single  == [bucket |-> 1, interval |-> 2, share |-> 1]
Fast    == [bucket |-> 1, interval |-> 1, share |-> 2]
RatesOf == (path :> {Pair, Single}) @@ (group :> {Fast}) @@ (report :> {Single})

\* Calls of endpoints and calls of the report runner share nothing: a behaviour has
\* calls of one of the two kinds.
OneKind ==
  \/ group \notin made
  \/ passes[report] = << >> /\ \A w \in Waiters : goal[w] # report
=============================================================================
