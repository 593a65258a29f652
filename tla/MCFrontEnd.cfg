CONSTANTS
  Files <- MCFiles
  BEGINING_SIZE = 10
  BeyondTokens <- MCBeyond
  MaxBeyond = 2
  NUMBERS_VARIABLE = 4
  NUMBERS_FUNCTION = 3
SPECIFICATION Spec
INVARIANTS TypeOK CutsAgree NothingFreedIsUsed OnlyGlobalsLeak SupportedGoesThrough
