SPECIFICATION Spec
CONSTANTS
  Keeps = {1, 2}
  MaxWrites = 4
  MaxCrashes = 2
  CutMayFail = TRUE
  OpenMayFail = TRUE
CHECK_DEADLOCK FALSE
INVARIANTS
  TypeOK
  VerifyPasses
  RefusedNotRecorded
PROPERTY
  RefinesLedger
