SPECIFICATION Spec
CONSTANTS
  a1 = a1
  a2 = a2
  i1 = i1
  i2 = i2
  k1 = k1
  Calls = {c1, c2}
  Inquiries = {x1}
  Agents = {a1, a2}
  Ids = {i1, i2}
  Keys = {k1}
  NoKey = NoKey
  NoScope = NoScope
  Submissions <- MCSubmissions
  Untracked <- MCUntracked
  Questions <- MCQuestions
  MaxEpoch = 2
  MaxRecords = 2
  MaxActive = 2
  MaxAgentActive = 1
  MaxAgentRecords = 2
SYMMETRY OperationsSymmetry
INVARIANTS
  TypeOK
  RunsOnce
  CancelledNeverRuns
  SessionErased
  ActiveBound
  AccessWithdrawn
PROPERTIES
  NoStartAfterSession
CHECK_DEADLOCK FALSE
