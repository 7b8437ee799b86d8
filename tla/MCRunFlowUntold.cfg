SPECIFICATION Spec
CONSTANTS
  Runs = {r1}
  Versions = {v1, v2}
  Revoked = Revoked
  MaxEpoch = 2
SYMMETRY RunSymmetry
INVARIANTS
  RefusalIsTold
CHECK_DEADLOCK FALSE
