SPECIFICATION FeedSpec
CONSTANTS
  Half = 8
  LegPrices <- MCLegPrices
  RealPrices = {22}
  Timestamps = {0, 2}
  CooldownTenths = 2
  MaxAge = 1
  Window = 2
  TriggerThreshold = 2
  SpikeThreshold = 2
  SlipDen = 20
  Scale = 1000
  MaxExposure = 30
  Sinks = {"external_log", "arb_logger"}
  Wired = {"mispricing", "snapshot", "arb"}
  MaxRows = 9
  PerpPrices = {10, 12}
  Rates = {1}
  PerpTimes = {0, 2}
  RateHour = 8
  PerpThreshold = 1
  AlertGap = 1
  MaxMarks = 9
  KeySets <- MCKeySets
  MaxBuffer = 2
  MaxBatch = 2
  MaxTicks = 4
INVARIANT BybitQuotesArrive
CHECK_DEADLOCK FALSE
