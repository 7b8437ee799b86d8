SPECIFICATION Spec
CONSTANTS
  Macs = {1, 2}
  NoVariable = NoVariable
  Items = {x}
  Values = {v1, v2}
  Variables = {}
  Asks = {TRUE, FALSE}
  Start = v1
  MaxTime = 2
  MaxChanges = 3
  MaxFiles = 3
INVARIANTS
  TypeOK
  NothingLost
  AskKept
  DeletedStaysDeleted
  ValuesConverge
  OldFileInert
CHECK_DEADLOCK FALSE
