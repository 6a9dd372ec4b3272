SPECIFICATION SynthSpec
CONSTANTS
  Half = 8
  LegPrices <- MCLegPrices
  RealPrices = {22, 29}
  Timestamps = {0, 1, 3}
  CooldownTenths = 2
  MaxAge = 1
  Window = 2
  TriggerThreshold = 2
  SpikeThreshold = 2
  SlipDen = 20
  Scale = 4000
  MaxExposure = 30
  Sinks = {"external_log", "arb_logger"}
  Wired = {"mispricing", "snapshot", "arb"}
  MaxRows = 4
INVARIANT SignalsTraded
CHECK_DEADLOCK FALSE
