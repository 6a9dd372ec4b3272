SPECIFICATION LogSpec
CONSTANTS
  MaxRecords = 3
  MaxSessions = 2
INVARIANT SingleHeader
CHECK_DEADLOCK FALSE
