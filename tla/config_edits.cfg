\* Two requests at a time, three in all, with a death of the
\* process or a hand edit of the file. The budget of requests ends: no deadlock check.
SPECIFICATION Spec
CONSTANTS
  None = None
  r1 = r1
  r2 = r2
  a1 = a1
  a2 = a2
  e1 = e1
  e2 = e2
  g = g
  h = h
  p = p
  q = q
  f1 = f1
  f2 = f2
  project = project
  Requests <- TwoRequests
  Account <- Accounts
  Endpoint <- Endpoints
  Group = {g, h}
  Path = {p, q}
  Field = {f1, f2}
  Project = {project}
  Start <- StartBoth
  MaxEdits = 3
  MaxFaults = 1
SYMMETRY RequestSymmetry
CHECK_DEADLOCK FALSE
INVARIANTS
  MemoryIsFile
  EditsInForce
PROPERTIES
  PublishedFieldsStay
  ProjectsKeepLoading
  CompareAndSwap
