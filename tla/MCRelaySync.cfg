SPECIFICATION LiveSpec
CONSTANTS
  Macs = {a, b}
  Creator = a
  Changes = {c1, c2}
  MaxRounds = 2
  MaxFaults = 2
INVARIANTS
  TypeOK
  NoUpdateLost
  AnchorMerged
  StateTruthful
PROPERTIES AnchorDescends ChangesArrive
CHECK_DEADLOCK FALSE
