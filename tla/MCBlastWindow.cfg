SPECIFICATION Spec
CONSTANTS
  Calls = {c1, c2, c3}
  Pairs = {p1, p2}
  None = None
  Args <- SomeArgs
  CountArg = "ids"
  MaxPerCall = 2
  Where <- FourRules
  Env = "prod"
  Limit = 2
  p1 = p1 p2 = p2
  Window <- TwoWindows
  Retention = 2
  Patience = 1
  MaxTime = 3
  StoreOutcomes = {"ok", "down", "lost"}
SYMMETRY Symmetry
CHECK_DEADLOCK FALSE
INVARIANTS
  TypeOK
  WindowHolds
  WindowMatchesCharges
  ReadAsJudged
