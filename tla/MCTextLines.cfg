CONSTANTS
  Letter = Letter
  NUL = NUL
  Newline = Newline
  Semicolon = Semicolon
  MaxLength = 6
  Files <- MCFiles
SPECIFICATION Spec
INVARIANTS LinesInTheFile LinesAsWritten
