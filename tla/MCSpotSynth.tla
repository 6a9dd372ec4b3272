---------------------------- MODULE MCSpotSynth ----------------------------
\* The strategy core with BTCUSDT at 10, so that ETHBTC ticks of 2 and 3 put the
\* synthetic price at 20 and 30.  Real quotes of 22 and 29 give gaps of both
\* signs below (1), at (2) and above (8, 9) the thresholds of 2; with a slippage
\* of 1/20 per side the larger gaps pay for it and the gap of 2 does not.  The
\* timestamps are on both sides of MaxAge = 1 and of the cooldown, in any order.
EXTENDS SyntheticSpotSynth
MCLegPrices == [l \in Legs |-> IF l = "ETHBTC" THEN {2, 3} ELSE {10}]
=============================================================================
