SPECIFICATION RepairSpec
CONSTANTS
  Missing = Missing
  Fraction = Fraction
  Word = Word
  Illegal = Illegal
  A = A
  R = R
  G = G
  DefaultPloidy = 2
  ContigPloidies <- MCContigPloidies
  MaxInfo = 2
  Versions = {"v42", "v43"}
  Files <- MCFiles
INVARIANTS
  RepairTypeOK
  OutputInOrder
  IgnoredCounted
  NothingElseLost
  FormatDuplicatesFixed
  InfoDuplicatesFixed
  OptionalReadsSafe
  NoEscapeWritten
PROPERTY
  EachRoundLightens
CHECK_DEADLOCK FALSE
