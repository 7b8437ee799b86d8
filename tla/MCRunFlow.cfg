SPECIFICATION Spec
CONSTANTS
  Runs = {r1, r2}
  Versions = {v1, v2}
  Revoked = Revoked
  MaxEpoch = 3
SYMMETRY RunSymmetry
INVARIANTS
  TypeOK
  EntriesTellTruth
  RefusedOnce
  CrashedWaitTold
PROPERTIES
  StartsInItsSession
  QueueAsPromised
CHECK_DEADLOCK FALSE
