SPECIFICATION Spec
CONSTANTS
  Sizes = {1, 4}
  QueueMax = 2
  BytesMax = 3
  MaxRows = 3
  MaxAdrift = 2
CHECK_DEADLOCK FALSE
INVARIANTS
  TypeOK
  CountersExact
  MemoryBounded
  TableInOrder
  NoRowForgotten
PROPERTIES
  LoneRowGetsIn
  CloseReturns
