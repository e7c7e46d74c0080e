SPECIFICATION ReportSpec
CONSTANTS
  Keys = {k1, k2}
  NoKey = NoKey
  transaction_size = 3
  MaxFindings = 5
SYMMETRY MCSymmetry
INVARIANTS
  ReportTypeOK
  DatabaseIsPrefix
  CompleteWhenExited
  ReadersSeeAll
  SummaryKeepsFirsts
CHECK_DEADLOCK FALSE
