SPECIFICATION ParserSpec
CONSTANTS
  Configs <- MCNewline
  MaxLines = 5
INVARIANTS
  ValidIsWellFormed
