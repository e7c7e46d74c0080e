SPECIFICATION CacheSpec
CONSTANTS
  Chromosomes = {1, 2}
  Positions = {1, 2}
  Alleles = {1}
  Capacities = {0, 1, 2, 3}
  RecordCores <- MCRecordCores
  MaxCores = 5
INVARIANTS
  CacheTypeOK
  CacheBounded
  NoFalseDuplicates
  EachOccurrenceOnce
  SortedComplete
  RankedComplete
CHECK_DEADLOCK FALSE
