SPECIFICATION Spec
CONSTANTS
  Macs = {1, 2}
  NoVariable = NoVariable
  Items = {x}
  Values = {v1}
  Variables = {}
  Asks = {TRUE, FALSE}
  Start = v1
  MaxTime = 2
  MaxChanges = 4
  MaxFiles = 4
INVARIANT Converges
CHECK_DEADLOCK FALSE
