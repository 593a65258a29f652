CONSTANTS
  Programs <- MCPrograms
  MaxLines = 4
  MaxLabels = 3
  MaxInt = 2147483647
SPECIFICATION Spec
INVARIANT CommentsAddNothing
CHECK_DEADLOCK FALSE
