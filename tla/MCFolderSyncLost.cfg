SPECIFICATION Spec
CONSTANTS
  Macs = {1, 2}
  NoVariable = NoVariable
  Items = {x}
  Values = {v1, v2}
  Variables = {}
  Asks = {FALSE}
  Start = v1
  MaxTime = 2
  MaxChanges = 4
  MaxFiles = 4
INVARIANT EditsKept
CHECK_DEADLOCK FALSE
