CONSTANTS
  Programs <- MCPrograms
  MaxLines = 4
  MaxLabels = 3
  MaxInt = 2147483647
SPECIFICATION Spec
INVARIANTS WrongOnlyInPassOne DecodedAsWritten JumpsLand FirstDefinitionWins
PROPERTIES PassTwoStable
CHECK_DEADLOCK FALSE
