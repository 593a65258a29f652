CONSTANTS
  Programs <- MCDisciplined
  NUMBERS_VARIABLE = 4
  NUMBERS_FUNCTION = 3
SPECIFICATION Spec
INVARIANTS TypeOK CalleeFrameIsFree LabelsLand CallsHaveFunctions
CHECK_DEADLOCK FALSE
