SPECIFICATION ReportSpec
CONSTANTS
  Keys = {k1, k2}
  NoKey = NoKey
  transaction_size = 3
  MaxFindings = 4
INVARIANTS
  SummaryKeepsOthers
CHECK_DEADLOCK FALSE
