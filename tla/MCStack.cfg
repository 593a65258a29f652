CONSTANTS
  Elem <- MCElem
  LeftCanary = LeftCanary
  RightCanary = RightCanary
  RecallocValue = 1488
  Garbage = Garbage
  AllocOutcomes <- MCAllocMayFail
  Capacity = 5
  MaxSize = 8
SPECIFICATION Spec
INVARIANTS TypeOK BlockIntact AbortOnlyUnconstructed
PROPERTIES NoThrashing ImplementsAbstractStack
CHECK_DEADLOCK FALSE
