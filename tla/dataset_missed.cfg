\* A project that may begin again once, two writers, pages of one row.
SPECIFICATION Spec
CONSTANTS
  None = None
  NoWrite = NoWrite
  Top = 9
  Key <- Keys
  Sources <- TableRows
  Ranges <- Scopes
  Writers = {w1, w2}
  PageSize = 1
  MaxNow = 1
  MaxWrites = 3
  MaxReads = 1
CHECK_DEADLOCK FALSE
INVARIANT ChangesMissNothing
