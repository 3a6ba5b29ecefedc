\* Three callers of one account refreshing the token.
SPECIFICATION FairSpec
CONSTANTS
  c1 = c1
  c2 = c2
  c3 = c3
  Callers <- ThreeCallers
INVARIANTS
  SingleFlight
PROPERTIES
  CallsReturn
