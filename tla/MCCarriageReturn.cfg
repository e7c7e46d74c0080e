SPECIFICATION ParserSpec
CONSTANTS
  Configs <- MCCarriageReturn
  MaxLines = 4
INVARIANTS
  LineNumbersFindLines
