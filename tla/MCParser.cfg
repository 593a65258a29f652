CONSTANTS
  TokenArrays <- MCTokens
  BeyondTokens <- MCBeyond
  BEGINING_SIZE = 10
  MaxBeyond = 2
SPECIFICATION MCSpec
INVARIANTS ReadsBack CrashesOnlyOnMissing TreeSound OnlyOperandsLost
PROPERTY Ends
CHECK_DEADLOCK FALSE
