SPECIFICATION SharedSpec
CONSTANTS
  MaxMessages = 4
  MaxRecords = 3
  MaxSessions = 2
  Symbols = {"BTCUSDT", "ETHUSDT"}
  Pricers = {"pricer"}
  FeedRates = {1}
  FeedTimes = {5}
  IntHalf = 4
INVARIANTS
  OverTypeOK LockedReadsFresh
  LogTypeOK LogFileRowsSafe CleanExitKeepsTrades CloseKeepsTrades ReportNeverMixes
  FundTypeOK
PROPERTIES CacheIsAtomic CallsComplete
CHECK_DEADLOCK FALSE
