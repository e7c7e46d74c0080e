SPECIFICATION BodySpec
CONSTANTS
  contig1 = contig1
  contig2 = contig2
  filter = filter
  Chromosomes = {1, 2}
  Positions = {1, 2}
  Alleles = {1}
  Capacities = {0, 1, 2}
  RecordCores <- MCRecordCores
  MaxCores = 0
  Contigs = {1, 2}
  LogPositions = {1, 2}
  NoContig = NoContig
  BodyRecords <- MCBodyRecords
  MetaKeys <- MCMetaKeys
  Described <- MCDescribed
  MaxRecords = 4
INVARIANTS
  BodyTypeOK
  MapMeaning
  OnlyAcceptedCompared
  ErrorPerLostRecord
  WarnedWhenDue
  PlainFilesComplete
PROPERTIES
  ImplementsOrderedLog
CHECK_DEADLOCK FALSE
