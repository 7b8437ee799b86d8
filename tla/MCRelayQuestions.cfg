SPECIFICATION Spec
CONSTANTS
  d1 = d1
  Runs = {r1}
  Devices = {d1}
  Mac = mac
  Decisions = {"approved"}
  Answers <- TwoAnswers
  MaxAnswers = 2
  MaxAllAnswers = 2
  MaxTime = 2
  MaxQuestions = 2
  MaxChanges = 1
  MaxEpoch = 2
  MaxFaults = 1
  MaxSent = 2
INVARIANTS
  TypeOK
  SettleTruthful
  OpenIsTracked
PROPERTIES AnswersCountOnce 
CHECK_DEADLOCK FALSE
