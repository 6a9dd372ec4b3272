--------------------------- MODULE MCFeedHandlers ---------------------------
\* Two prices of BTCUSDT and one of the other symbols; buffers of two ticks for
\* up to four ticks in all; messages with all keys, without q and without r;
\* batches of up to two entries with every mixture of faults.
EXTENDS FeedHandlers
MCLegPrices == [l \in Legs |-> IF l = "ETHBTC" THEN {2} ELSE {10, 12}]
MCKeySets == {{"s", "p", "q", "T", "r"}, {"s", "p", "T", "r"}, {"s", "p", "q", "T"}}
=============================================================================
