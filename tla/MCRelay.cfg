SPECIFICATION Spec
CONSTANTS
  Requests = {q1, q2}
  None = None
  q1 = q1 q2 = q2 ann = ann oncall = oncall plain = plain dry = dry
  Callers <- TwoCallers
  GroupKeys = {oncall}
  Defs = {plain, dry}
  Loads <- ThreeLoads
  StoreMayFail = TRUE
  AuditMayFail = TRUE
SYMMETRY Symmetry
CHECK_DEADLOCK FALSE
INVARIANTS
  TypeOK
  OneLoad
  OnePair
  OnRecord
