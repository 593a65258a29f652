CONSTANTS
  Images <- MCPrograms
  Inputs <- MCInputs
  AllocOutcomes <- MCAllocMayFail
  NoInput = NoInput
  MaxInt = 7
  SizeMem = 4
  NumberReg = 2
  DepthRecursion = 3
  FieldWidth = 3
  Capacity = 3
  MaxOutput = 12
  LeftCanary = LeftCanary
  RightCanary = RightCanary
  RecallocValue = RecallocValue
  Garbage = Garbage
SPECIFICATION FairSpec
INVARIANTS ReturnsFollowCalls SoundOrStopped
PROPERTIES ImplementsAbstractMachine Stops
CHECK_DEADLOCK FALSE
