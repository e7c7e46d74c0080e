SPECIFICATION BodySpec
CONSTANTS
  contig1 = contig1
  contig2 = contig2
  filter = filter
  Chromosomes = {1, 2}
  Positions = {1, 2}
  Alleles = {1}
  Capacities = {2}
  RecordCores <- MCRecordCores
  MaxCores = 0
  Contigs = {1, 2}
  LogPositions = {1, 2}
  NoContig = NoContig
  BodyRecords <- MCOrdinaryRecords
  MetaKeys <- MCMetaKeys
  Described <- MCDescribed
  MaxRecords = 4
INVARIANTS
  NearDuplicatesFound
CHECK_DEADLOCK FALSE
