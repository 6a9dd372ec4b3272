----------------------------- MODULE MCEngines -----------------------------
\*   cooldown  two symbols, timestamps 0..6, a cooldown of 2: two full
\*             cooldowns, both sides of the boundary.  Ticks come in time order;
\*             MCEnginesLateTick.cfg lets them come late
\*   ledger    prices 2, 3 and 9: edges below and above the cap, zero-size
\*             trades; three trades exercise every running total
\*   perp      times on both sides of a funding time, of the alert gap and of
\*             each other; gaps below, at and above the threshold
\*   pair      BTCUSDT at 10 and ETHBTC at 2 or 3 against 22 and 28: gaps of
\*             both signs at (2) and above (6, 8) the threshold
EXTENDS Engines
MCTimestamps == 0 .. 6
MCPairPrices == [l \in PairLegs |->
  CASE l = "BTCUSDT" -> {10} [] l = "ETHBTC" -> {2, 3} [] l = "ETHUSDT" -> {22, 28}]
=============================================================================
