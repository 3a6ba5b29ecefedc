\* Two callers, a path with its group and the report runner's limiter, hot reloads of the
\* path between a bucket of two and a serial one.  Nothing need happen: no deadlock check.
SPECIFICATION LimiterSpec
CONSTANTS
  w1 = w1
  w2 = w2
  path = path
  group = group
  report = report
  s1 = s1
  NoBucket = NoBucket
  NoSeller = NoSeller
  Waiters <- TwoWaiters
  Buckets <- ThreeBuckets
  Group <- GroupOf
  Rates <- RatesOf
  Scale = 2
  Sellers = {s1}
  Cooldowns = {0, 1}
  MaxNow = 3
SYMMETRY WaiterSymmetry
CONSTRAINT OneKind
CHECK_DEADLOCK FALSE
INVARIANT RateKept
PROPERTY CooldownHeld
