CONSTANTS
  NULL = null
  MaxTransfers = 3
  MaxSet = 1
  MaxHeaders = 3
  MaxChunks = 2
SPECIFICATION Spec
INVARIANTS
  TypeOK
  ReportsLastTransfer
PROPERTIES
  ReportIsSafe
