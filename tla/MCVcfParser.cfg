SPECIFICATION ParserSpec
CONSTANTS
  Configs <- MCConfigs
  MaxLines = 4
INVARIANTS
  ParserTypeOK
  OneErrorPerBadLine
  VerdictRight
  VerdictMatchesReport
  LineNumbersRight
  MetaCheckedOnce
PROPERTIES
  Terminates
