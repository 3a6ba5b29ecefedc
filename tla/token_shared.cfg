\* A failed refresh that a waiter takes for a success.
SPECIFICATION Spec
CONSTANTS
  c1 = c1
  c2 = c2
  c3 = c3
  Callers <- ThreeCallers
PROPERTIES
  FailedRefreshIsShared
