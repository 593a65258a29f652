CONSTANTS
  Programs <- MCMeant
  NUMBERS_VARIABLE = 4
  NUMBERS_FUNCTION = 3
  MaxLabels = 14
  Inputs <- MCInputs
  AllocOutcomes <- MCAlloc
  NoInput = NoInput
  MaxInt = 127
  SizeMem = 16
  NumberReg = 7
  DepthRecursion = 6
  FieldWidth = 3
  Capacity = 10
  MaxOutput = 30
  MaxFuel = 20
  LeftCanary = LeftCanary
  RightCanary = RightCanary
  RecallocValue = RecallocValue
  Garbage = Garbage
SPECIFICATION FairSpec
INVARIANTS OutputAsMeant GeneratedAssembles FetchesInstructions
PROPERTY RunsToTheEnd
