SPECIFICATION Spec
CONSTANTS
  Calls = {c1, c2}
  Conns = {k1, k2}
  None = None
  MaxDrops = 1
CHECK_DEADLOCK FALSE
INVARIANTS
  TypeOK
  OnePool
  CutIsOwn
  Heals
PROPERTIES
  RefinesStoreCall
  EverythingEnds
