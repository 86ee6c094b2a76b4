SPECIFICATION Spec
CONSTANTS
  Calls = {c1, c2}
  None = None
  c1 = c1 c2 = c2 v1 = v1 s1 = s1 g1 = g1 g2 = g2
  Versions = {v1}
  Subjects = {s1}
  GroupSets = {g1, g2}
  Catalogs <- FewCatalogs
  TTL = 1
  MaxPages = 2
  Slow = 1
  MaxTime = 3
SYMMETRY Symmetry
CHECK_DEADLOCK FALSE
INVARIANTS
  TypeOK
  DryRunWasDeclared
