SPECIFICATION RepairSpec
CONSTANTS
  Missing = Missing
  Fraction = Fraction
  Word = Word
  Illegal = Illegal
  A = A
  R = R
  G = G
  DefaultPloidy = 2
  ContigPloidies <- MCContigPloidies
  MaxInfo = 1
  Versions = {"v42", "v43"}
  Files <- MCFiles
INVARIANT
  EachSampleFixed
CHECK_DEADLOCK FALSE
