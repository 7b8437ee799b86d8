SPECIFICATION Spec
CONSTANTS
  Calls = {c1, c2}
  Agents = {a1}
  Sessions = {s1}
  Requests = {r1}
  Baselines = {b1, b2}
  Devices = {d1}
  Mac = Mac
  NoAsk = NoAsk
  MaxGeneration = 1
  MaxEnded = 2
SYMMETRY CallSymmetry
INVARIANTS
  EndsReported
  ReportAgrees
  NoLeftoverDevice
CHECK_DEADLOCK FALSE
