CONSTANTS
  Texts <- MCTexts
  BEGINING_SIZE = 2
  AllocOutcomes <- MCAlloc
SPECIFICATION FairSpec
INVARIANTS TokensAsWritten LeavesOnlyAtBlanks
PROPERTY EndsOrMeetsUnknown
CHECK_DEADLOCK FALSE
