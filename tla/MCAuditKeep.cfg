SPECIFICATION Spec
CONSTANTS
  Keeps = {1, 3}
  MaxWrites = 6
  MaxCrashes = 1
  CutMayFail = FALSE
  OpenMayFail = FALSE
CHECK_DEADLOCK FALSE
INVARIANT LoweredKeepDeletes
