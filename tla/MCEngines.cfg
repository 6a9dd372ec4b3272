SPECIFICATION EnginesSpec
CONSTANTS
  Half = 16
  Symbols = {"ETHUSDT", "BTCUSDT"}
  Timestamps <- MCTimestamps
  CooldownTenths = 25
  InOrder = TRUE
  MaxFired = 3
  Scale = 10
  MaxExposure = 200
  Sinks = {"external_log", "arb_logger"}
  TradePrices = {2, 3, 9}
  TradeTimes = {1}
  MaxTrades = 3
  PerpPrices = {4, 6}
  Rates = {0, 1}
  PerpTimes = {3, 4, 7}
  RateHour = 8
  PerpThreshold = 1
  AlertGap = 2
  MaxMarks = 3
  PairPrices <- MCPairPrices
  PairTimes = {0, 3, 4, 7}
  PairThreshold = 2
  PairAlertGap = 2
  MaxAlerts = 3
INVARIANTS EnginesTypeOK
  LastTriggerIsLatest CooldownRespected LedgerReconciles ExposureTracked
  AlertsGenuineBeforeFunding NoMissedMark StandingGapReported NoRepeatedAlert
CHECK_DEADLOCK FALSE
