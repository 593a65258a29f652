CONSTANTS
  Programs <- MCTwoArguments
  NUMBERS_VARIABLE = 4
  NUMBERS_FUNCTION = 3
SPECIFICATION Spec
INVARIANT ParametersKept
CHECK_DEADLOCK FALSE
