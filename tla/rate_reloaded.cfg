\* A path that becomes serial while its bucket of two lets calls through.
SPECIFICATION LimiterSpec
CONSTANTS
  w1 = w1
  w2 = w2
  path = path
  group = group
  report = report
  s1 = s1
  NoBucket = NoBucket
  NoSeller = NoSeller
  Waiters <- TwoWaiters
  Buckets <- ThreeBuckets
  Group <- GroupOf
  Rates <- RatesOf
  Scale = 2
  Sellers = {s1}
  Cooldowns = {0, 1}
  MaxNow = 3
CONSTRAINT OneKind
CHECK_DEADLOCK FALSE
PROPERTY SerialIsSpaced
