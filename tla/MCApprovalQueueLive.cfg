SPECIFICATION LiveSpec
CONSTANTS
  Calls = {c1, c2}
  Agents = {a1}
  Sessions = {s1}
  Requests = {r1, r2}
  Baselines = {b1, b2}
  Devices = {}
  Mac = Mac
  NoAsk = NoAsk
  MaxGeneration = 1
  MaxEnded = 1
PROPERTIES
  CallsEnd
CHECK_DEADLOCK FALSE
