--------------------------- MODULE MockPnLEngine ---------------------------
(***************************************************************************)
(* The simulated-trade ledger of include/MockPnLEngine.hpp and the rows it *)
(* writes through its two attachLogger sinks.  Prices are positive         *)
(* integers; the double quotients are fixed-point numbers with Scale units *)
(* per 1.0, rounded towards zero.                                          *)
(***************************************************************************)
EXTENDS Integers, Sequences

CONSTANTS Scale,         \* units per 1.0 of sizes and profits
          MaxExposure,   \* max_exposure
          Sinks,         \* attached loggers, out of {"external_log", "arb_logger"}
          TradePrices, TradeTimes,   \* arguments of recordTrade
          MaxTrades      \* bound: trades recorded

Directions == {"BUY", "SELL"}

ASSUME PnLAssumption ==
  /\ Scale \in Nat \ {0}
  /\ MaxExposure \in Nat
  /\ Sinks \subseteq {"external_log", "arb_logger"}
  /\ TradePrices \subseteq Nat \ {0}
  /\ TradeTimes \subseteq Nat
  /\ MaxTrades \in Nat

VARIABLES trades, total_pnl, max_observed_exposure, pnl_series,
          external_log,  \* rows written to the attached std::ofstream
          arb_log        \* rows written by ArbLogger::logSimulatedTrade
pnlVars == <<trades, total_pnl, max_observed_exposure, pnl_series, external_log, arb_log>>

PnLInit == /\ trades = <<>> /\ total_pnl = 0 /\ max_observed_exposure = 0
           /\ pnl_series = <<>> /\ external_log = <<>> /\ arb_log = <<>>

Smaller(a, b) == IF a <= b THEN a ELSE b
Larger(a, b)  == IF a >= b THEN a ELSE b

Spread(synthetic_price, real_price) ==
  Larger(synthetic_price, real_price) - Smaller(synthetic_price, real_price)

\* Mutant: the exposure cap is dropped.
Size_Uncapped(synthetic_price, real_price) ==
  (100 * Scale * Spread(synthetic_price, real_price)) \div real_price

\* edge * 100, capped by max_exposure.
Size(synthetic_price, real_price) ==
  Smaller((100 * Scale * Spread(synthetic_price, real_price)) \div real_price,
          MaxExposure * Scale)

\* The price difference in the trade's favour, times the quantity bought.
PnL(synthetic_price, real_price, direction) ==
  LET size == Size(synthetic_price, real_price)
      gain == IF direction = "BUY" THEN real_price - synthetic_price
                                   ELSE synthetic_price - real_price
  IN  IF gain >= 0 THEN (gain * size) \div real_price
                   ELSE -(((-gain) * size) \div real_price)

\* A sink that is not attached (a null or closed stream) gets nothing.
Written(sink, log, row) == IF sink \in Sinks THEN Append(log, row) ELSE log

\* Mutant: two columns of the row swapped.
logSimulatedTrade_Swapped(trade, signal_count, total) ==
  [trade |-> trade, count |-> signal_count, cumulative_pnl |-> trade.pnl, net_pnl |-> total]

\* The row ArbLogger::logSimulatedTrade writes; its timestamp, prices, delta,
\* direction and size columns are the trade's.
logSimulatedTrade(trade, signal_count, total) ==
  [trade |-> trade, count |-> signal_count, cumulative_pnl |-> total, net_pnl |-> trade.pnl]

recordTrade(synthetic_price, real_price, timestamp, direction) ==
  LET size == Size(synthetic_price, real_price)
      pnl  == PnL(synthetic_price, real_price, direction)
      trade == [entry_price |-> synthetic_price, exit_price |-> real_price,
                direction |-> direction, size |-> size, pnl |-> pnl,
                timestamp |-> timestamp]
  IN  /\ trades' = Append(trades, trade)
      /\ total_pnl' = total_pnl + pnl
      /\ max_observed_exposure' = Larger(max_observed_exposure, size)
      /\ external_log' = Written("external_log", external_log, trade)
      /\ arb_log' = Written("arb_logger", arb_log,
                            logSimulatedTrade(trade, Len(trades'), total_pnl'))
      /\ pnl_series' = Append(pnl_series, pnl)

PnLNext ==
  /\ Len(trades) < MaxTrades
  /\ \E synthetic_price, real_price \in TradePrices, timestamp \in TradeTimes,
        direction \in Directions :
       recordTrade(synthetic_price, real_price, timestamp, direction)

PnLSpec == PnLInit /\ [][PnLNext]_pnlVars
-----------------------------------------------------------------------------
Trade == [entry_price : Nat \ {0}, exit_price : Nat \ {0}, direction : Directions,
          size : Nat, pnl : Int, timestamp : Nat]
ArbRow == [trade : Trade, count : Nat, cumulative_pnl : Int, net_pnl : Int]

PnLTypeOK ==
  /\ trades \in Seq(Trade) /\ pnl_series \in Seq(Int) /\ total_pnl \in Int
  /\ max_observed_exposure \in Nat
  /\ external_log \in Seq(Trade) /\ arb_log \in Seq(ArbRow)

\* The cumulative total before row i of the ArbLogger file.
CumulativeBefore(i) == IF i = 1 THEN 0 ELSE arb_log[i - 1].cumulative_pnl

\* The ledger, the statistics and both files tell the same story: every trade
\* has one row in each attached file, in order; the count column numbers the
\* rows; the cumulative column is the running sum of the net_pnl column (what
\* reports/summarize_pnl.py recomputes with cumsum) and ends at getPnL().
LedgerReconciles ==
  /\ pnl_series = [i \in DOMAIN trades |-> trades[i].pnl]
  /\ "external_log" \in Sinks => external_log = trades
  /\ "arb_logger" \in Sinks =>
       /\ Len(arb_log) = Len(trades)
       /\ \A i \in DOMAIN arb_log :
            /\ arb_log[i].count = i
            /\ arb_log[i].trade = trades[i] /\ arb_log[i].net_pnl = trades[i].pnl
            /\ arb_log[i].cumulative_pnl = CumulativeBefore(i) + trades[i].pnl
       /\ total_pnl = CumulativeBefore(Len(arb_log) + 1)

\* No trade is larger than max_exposure, and getMaxExposure() is exactly the
\* size of the largest trade so far.
ExposureTracked ==
  /\ \A i \in DOMAIN trades : trades[i].size <= max_observed_exposure
  /\ max_observed_exposure \in {0} \cup {trades[i].size : i \in DOMAIN trades}
  /\ max_observed_exposure <= MaxExposure * Scale
=============================================================================
