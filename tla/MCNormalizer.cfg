SPECIFICATION NormalizerSpec
CONSTANTS
  Bases = {1, 2}
  Other = 0
  MaxAllele = 3
  Records <- MCRecords
INVARIANTS
  NormalizerTypeOK
  NeverThrown
  SameChange
  NoContextLeft
  ContextFree
CHECK_DEADLOCK FALSE
