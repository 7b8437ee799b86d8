SPECIFICATION Spec
CONSTANTS
  Calls = {c1, c2, c3}
  Agents = {a1}
  Sessions = {s1}
  Requests = {r1}
  Baselines = {b1, b2}
  Devices = {}
  Mac = Mac
  NoAsk = NoAsk
  MaxGeneration = 0
  MaxEnded = 3
SYMMETRY CallSymmetry
INVARIANTS
  TypeOK
  OneQuestionPerAgent
  OneAnswerOneRun
  AnswerCoversCall
  SomeoneListens
PROPERTIES
  KeepsPromise
CHECK_DEADLOCK FALSE
