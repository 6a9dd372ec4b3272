------------------------- MODULE SyntheticSpotSynth -------------------------
(***************************************************************************)
(* The strategy core: include/SyntheticSpotSynth.hpp together with what it *)
(* drives - the rolling MispricingBuffer, the MispricingLogger and         *)
(* SyntheticSnapshotLogger files, the ArbOpportunityEngine cooldown and    *)
(* the MockPnLEngine ledger.  One action per call the feed handlers make.  *)
(*                                                                         *)
(* Prices are integers: ETHBTC x BTCUSDT is the synthetic ETHUSDT price in *)
(* the unit of the real quotes.  Slippage is 1/SlipDen, and a trade's      *)
(* prices are in units of 1/SlipDen so that they stay integers.            *)
(***************************************************************************)
EXTENDS MachineInts, SequencesExt

CONSTANTS LegPrices,     \* leg -> the prices its ticks carry
          RealPrices,    \* prices of ETHUSDT ticks
          Timestamps, CooldownTenths,                   \* see ArbOpportunityEngine
          MaxAge, Window, TriggerThreshold, SpikeThreshold, SlipDen,
          Scale, MaxExposure, Sinks,                    \* see MockPnLEngine
          Wired,         \* attach calls made: "mispricing", "snapshot", "arb", "pnl"
          MaxRows        \* bound: rows of the mispricing file

Legs == {"ETHBTC", "BTCUSDT"}
Attachable == {"mispricing", "snapshot", "arb", "pnl"}

ASSUME SynthAssumption ==
  /\ LegPrices \in [Legs -> SUBSET (Nat \ {0})]
  /\ RealPrices \subseteq Nat \ {0}
  /\ Timestamps \subseteq 0 .. (Half - 1)
  /\ CooldownTenths \in Nat /\ CooldownTenths < 10 * Half
  /\ MaxAge \in Nat /\ MaxAge < Half
  /\ Window \in Nat \ {0} /\ SlipDen \in Nat \ {0, 1}
  /\ TriggerThreshold \in Nat \ {0} /\ SpikeThreshold \in Nat \ {0}
  /\ Scale \in Nat \ {0} /\ MaxExposure \in Nat
  /\ Sinks \subseteq {"external_log", "arb_logger"}
  /\ Wired \subseteq Attachable
  /\ MaxRows \in Nat

VARIABLES leg,             \* ethbtc/btcusdt, ts_* and ready_* of each leg
          synthetic_price, real_ethusdt, last_ts,
          buffer,          \* MispricingBuffer: the last deltas
          mispricing_log,  \* rows of mispricing_ETHUSDT.csv
          snapshot_log,    \* rows of eth_synthetic_log.csv
          evaluated,       \* numbers of the snapshot rows for which
                           \* ArbOpportunityEngine::evaluate was called
          last_trigger, fired,
          trades, total_pnl, max_observed_exposure, pnl_series, external_log, arb_log

Arb == INSTANCE ArbOpportunityEngine
         WITH Symbols <- {"ETHUSDT"}, InOrder <- FALSE, MaxFired <- MaxRows
Ledger == INSTANCE MockPnLEngine
         WITH TradePrices <- Nat \ {0}, TradeTimes <- Timestamps, MaxTrades <- MaxRows

synthVars == <<leg, synthetic_price, real_ethusdt, last_ts, buffer, mispricing_log,
               snapshot_log, evaluated>>
arbVars == <<last_trigger, fired>>
pnlVars == <<trades, total_pnl, max_observed_exposure, pnl_series, external_log, arb_log>>
vars == <<synthVars, arbVars, pnlVars>>

SynthInit ==
  /\ leg = [l \in Legs |-> [price |-> 0, ts |-> 0, ready |-> FALSE]]
  /\ synthetic_price = 0 /\ real_ethusdt = 0 /\ last_ts = 0
  /\ buffer = <<>> /\ mispricing_log = <<>> /\ snapshot_log = <<>> /\ evaluated = {}
  /\ Arb!ArbInit /\ Ledger!PnLInit

Synthetic(lg) == lg["ETHBTC"].price * lg["BTCUSDT"].price
Ready(lg) == lg["ETHBTC"].ready /\ lg["BTCUSDT"].ready

\* Mutant: the signed difference is used without std::abs.
synced_ticks_Signed(lg) ==
  Ready(lg) /\ ToInt64(USub(lg["ETHBTC"].ts, lg["BTCUSDT"].ts)) <= MaxAge

\* Mutant: the ready flags are not tested.
synced_ticks_Unready(lg) ==
  Abs(ToInt64(USub(lg["ETHBTC"].ts, lg["BTCUSDT"].ts))) <= MaxAge

synced_ticks(lg) ==
  Ready(lg) /\ Abs(ToInt64(USub(lg["ETHBTC"].ts, lg["BTCUSDT"].ts))) <= MaxAge

\* A row reaches a file only if its logger has been attached.
Logged(logger, log, row) == IF logger \in Wired THEN Append(log, row) ELSE log

\* The row SyntheticSnapshotLogger::write writes.
SnapshotRow(lg, real, synthetic, ts) ==
  [ts |-> ts, ethbtc |-> lg["ETHBTC"].price, btcusdt |-> lg["BTCUSDT"].price,
   real |-> real, synthetic |-> synthetic, diff |-> synthetic - real]

\* Mutant: the two prices in each other's column.
MispricingRow_Swapped(synthetic, real, ts) == [ts |-> ts, synthetic |-> real, real |-> synthetic]

\* The row MispricingLogger::log writes; its diff column is the difference.
MispricingRow(synthetic, real, ts) == [ts |-> ts, synthetic |-> synthetic, real |-> real]

\* update: a tick of one leg.  Only legs whose ticks are close in time are
\* priced and logged, against the last real price seen.
update(symbol, price, timestamp) ==
  LET lg == [leg EXCEPT ![symbol] = [price |-> price, ts |-> timestamp, ready |-> TRUE]]
  IN  /\ leg' = lg
      /\ \/ /\ synced_ticks(lg)
            /\ synthetic_price' = Synthetic(lg)
            /\ last_ts' = timestamp
            /\ mispricing_log' = Logged("mispricing", mispricing_log,
                 MispricingRow(Synthetic(lg), real_ethusdt, timestamp))
         \/ /\ ~synced_ticks(lg)
            /\ UNCHANGED <<synthetic_price, last_ts, mispricing_log>>
      /\ UNCHANGED <<real_ethusdt, buffer, snapshot_log, evaluated, arbVars,
                     pnlVars>>

\* Mutant: the window is trimmed one element too early.
Add_Short(buf, delta) ==
  LET b == Append(buf, delta) IN IF Len(b) >= Window THEN Tail(b) ELSE b

\* MispricingBuffer::add
Add(buf, delta) ==
  LET b == Append(buf, delta) IN IF Len(b) > Window THEN Tail(b) ELSE b

\* Mutant: the sum is not divided by the number of deltas.
isPersistentSpike_Sum(buf) == Abs(FoldSeq(+, 0, buf)) >= SpikeThreshold

\* MispricingBuffer::isPersistentSpike: |average| >= threshold, multiplied out.
isPersistentSpike(buf) == Abs(FoldSeq(+, 0, buf)) >= SpikeThreshold * Len(buf)

\* Mutant: the slippage improves both prices.
Slipped_Favourable(price, up) == price * (IF up THEN SlipDen - 1 ELSE SlipDen + 1)

\* price * (1 + slippage_rate) or price * (1 - slippage_rate).
Slipped(price, up) == price * (IF up THEN SlipDen + 1 ELSE SlipDen - 1)

\* Mutant: the trade is stamped with last_ts, the time of the last leg tick.
Execute_LastTs(synthetic, real, timestamp) ==
  LET direction == IF synthetic > real THEN "SELL" ELSE "BUY"
      buy == direction = "BUY"
  IN  IF "pnl" \in Wired
      THEN Ledger!recordTrade(Slipped(synthetic, buy), Slipped(real, ~buy), last_ts, direction)
      ELSE UNCHANGED pnlVars

\* The simulated trade: buy low at entry + slippage, sell at exit - slippage.
Execute(synthetic, real, timestamp) ==
  LET direction == IF synthetic > real THEN "SELL" ELSE "BUY"
      buy == direction = "BUY"
  IN  IF "pnl" \in Wired
      THEN Ledger!recordTrade(Slipped(synthetic, buy), Slipped(real, ~buy), timestamp, direction)
      ELSE UNCHANGED pnlVars

\* Mutant: the trigger looks at overpricing only.
Opportunity_OneSided(synthetic, real) == "arb" \in Wired /\ synthetic - real >= TriggerThreshold

\* Mutant: the gap is taken from the member before it is recomputed.
Opportunity_Stale(synthetic, real) ==
  "arb" \in Wired /\ Abs(synthetic_price - real) >= TriggerThreshold

\* The gap warrants a signal (the cooldown is asked next).
Opportunity(synthetic, real) == "arb" \in Wired /\ Abs(synthetic - real) >= TriggerThreshold

\* compareToReal with both legs known: log, then signal and trade.
compareToReal(real_price, timestamp) ==
  LET synthetic == Synthetic(leg)
      delta == synthetic - real_price
  IN  /\ Ready(leg)
      /\ synthetic_price' = synthetic
      /\ real_ethusdt' = real_price
      /\ buffer' = Add(buffer, delta)
      /\ mispricing_log' = Logged("mispricing", mispricing_log,
                                  MispricingRow(synthetic, real_price, timestamp))
      /\ snapshot_log' = Logged("snapshot", snapshot_log,
                                SnapshotRow(leg, real_price, synthetic, timestamp))
      /\ evaluated' = IF "arb" \in Wired /\ isPersistentSpike(buffer')
                      THEN evaluated \cup {Len(snapshot_log')} ELSE evaluated
      /\ \/ /\ Opportunity(synthetic, real_price)
            /\ Arb!shouldTrigger("ETHUSDT", timestamp)
            /\ Execute(synthetic, real_price, timestamp)
         \/ /\ Opportunity(synthetic, real_price) => Arb!suppressed("ETHUSDT", timestamp)
            /\ UNCHANGED <<arbVars, pnlVars>>
      /\ UNCHANGED <<leg, last_ts>>

\* compareToReal before both legs have been seen: a warning and nothing else.
missingFeed == ~Ready(leg) /\ UNCHANGED vars

SynthNext ==
  \/ /\ Len(mispricing_log) < MaxRows
     /\ \E timestamp \in Timestamps :
          \/ \E symbol \in Legs : \E price \in LegPrices[symbol] :
               update(symbol, price, timestamp)
          \/ \E real_price \in RealPrices : compareToReal(real_price, timestamp)
  \/ missingFeed

SynthSpec == SynthInit /\ [][SynthNext]_vars
-----------------------------------------------------------------------------
MispricingRows == [ts : Timestamps, synthetic : Nat \ {0}, real : RealPrices \cup {0}]
SnapshotRows == [ts : Timestamps, ethbtc : LegPrices["ETHBTC"], btcusdt : LegPrices["BTCUSDT"],
                 real : RealPrices, synthetic : Nat \ {0}, diff : Int]

SynthTypeOK ==
  /\ leg \in [Legs -> [price : Nat, ts : {0} \cup Timestamps, ready : BOOLEAN]]
  /\ \A l \in Legs : leg[l].ready => leg[l].price \in LegPrices[l] /\ leg[l].ts \in Timestamps
  /\ synthetic_price \in Nat /\ real_ethusdt \in RealPrices \cup {0}
  /\ last_ts \in {0} \cup Timestamps
  /\ buffer \in Seq(Int) /\ mispricing_log \in Seq(MispricingRows)
  /\ snapshot_log \in Seq(SnapshotRows) /\ evaluated \subseteq 0 .. Len(snapshot_log)
  /\ Arb!ArbTypeOK /\ Ledger!PnLTypeOK

Signals == fired["ETHUSDT"]
AllWired == Wired = Attachable

\* The rolling buffer and the snapshot file, filled by different components,
\* agree: the buffer holds exactly the diff column of the last Window rows (all
\* of them while there are fewer), oldest first.
WindowIsRecentDeltas ==
  "snapshot" \in Wired =>
    /\ Len(buffer) = Ledger!Smaller(Window, Len(snapshot_log))
    /\ \A i \in DOMAIN buffer :
         buffer[i] = snapshot_log[Len(snapshot_log) - Len(buffer) + i].diff

\* No opportunity is lost: every comparison whose gap reached the trigger
\* threshold fired, or came at most one cooldown after a signal that did.
\* Comparisons that arrive late, or in any other order, are included.
NoMissedOpportunity ==
  {"snapshot", "arb"} \subseteq Wired =>
    \A i \in DOMAIN snapshot_log :
      Abs(snapshot_log[i].diff) >= TriggerThreshold =>
        \E k \in DOMAIN Signals : /\ Signals[k] <= snapshot_log[i].ts
                                  /\ snapshot_log[i].ts <= Signals[k] + Arb!cooldown

\* No signal without a reason: each one has a comparison of its own in the
\* snapshot file, in the same order, at its time and with a gap that reached the
\* threshold.  (At the threshold itself the documents promise more, see
\* SignalAboveThreshold.)
SignalJustified ==
  "snapshot" \in Wired =>
    \E row \in [DOMAIN Signals -> DOMAIN snapshot_log] :
      /\ \A k \in DOMAIN Signals : /\ snapshot_log[row[k]].ts = Signals[k]
                                   /\ Abs(snapshot_log[row[k]].diff) >= TriggerThreshold
      /\ \A j, k \in DOMAIN Signals : j < k => row[j] < row[k]

\* evaluate is called on an average over the window, yet never without at least
\* one gap of the spike threshold's size among the comparisons averaged.
SpikeNeedsRecentDelta ==
  "snapshot" \in Wired =>
    \A n \in evaluated : \E i \in DOMAIN snapshot_log :
      i <= n /\ i > n - Window /\ Abs(snapshot_log[i].diff) >= SpikeThreshold

\* Every signal becomes exactly one simulated trade, in order and with the
\* signal's timestamp: main's comment "Chain logging and PnL modules for triggered
\* trades" (main.cpp line 149).
SignalsTraded ==
  Signals = [i \in DOMAIN trades |-> trades[i].timestamp]

\* Leg ticks are logged only when the two legs are at most MaxAge apart in true
\* (unwrapped) time, whichever of the two is the older.
UpdateLogsOnlySynced ==
  [][ ("snapshot" \in Wired /\ mispricing_log' # mispricing_log /\ snapshot_log' = snapshot_log)
        => Abs(leg'["ETHBTC"].ts - leg'["BTCUSDT"].ts) <= MaxAge ]_vars

\* The two files agree on the market: a row of the mispricing file, written for
\* a tick of whichever leg or for a quote, carries the quote of the latest
\* snapshot row, and 0, for no quote, only before the first one.
RowsUseLatestQuote ==
  [][ ("snapshot" \in Wired /\ mispricing_log' # mispricing_log)
        => Last(mispricing_log').real =
             IF snapshot_log' = <<>> THEN 0 ELSE Last(snapshot_log').real ]_vars

\* Whether a trade earns money is decided by the gap and the slippage alone: it
\* does exactly when the gap exceeds the slippage paid on both prices.
ProfitIffGapCoversSlippage ==
  [][ trades' # trades =>
        LET row == Last(snapshot_log')
        IN  Last(trades').pnl > 0 <=> SlipDen * Abs(row.diff) > row.real + row.synthetic ]_vars

\* docs/README.md line 93: "Includes latency correction using timestamp gaps."  A
\* signal is based on legs no further apart than the max_age of update.
SignalsFromSyncedLegs == [][ fired' # fired => synced_ticks(leg) ]_vars

\* docs/finance_report.md lines 31-38 and docs/README.md lines 99-105: arbitrage is
\* triggered "if (abs(delta) > threshold)".  A signal has a comparison at its time
\* whose gap is above the threshold, not merely at it.
SignalAboveThreshold ==
  "snapshot" \in Wired =>
    \A k \in DOMAIN Signals : \E i \in DOMAIN snapshot_log :
      /\ snapshot_log[i].ts = Signals[k]
      /\ Abs(snapshot_log[i].diff) > TriggerThreshold
=============================================================================
