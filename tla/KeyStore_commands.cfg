SPECIFICATION Spec
CONSTANTS
  live = live
  demo = demo
  mock = mock
  live2 = live2
  Commands <- Four
  Verifying <- VerifyingFour
  Absent = Absent
  Torn = Torn
  MaxKills = 1
SYMMETRY Symmetry
INVARIANTS
  TypeOK
  OneMakerNoOrphans
  SerialCommandsSucceed
CHECK_DEADLOCK FALSE
