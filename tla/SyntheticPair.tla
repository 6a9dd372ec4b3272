--------------------------- MODULE SyntheticPair ---------------------------
(***************************************************************************)
(* The three-leg alert of include/SyntheticPair.hpp: every tick of a leg   *)
(* is stored and, once all three are known, BTCUSDT * ETHBTC is compared   *)
(* with ETHUSDT.  main constructs one (arb) and never updates it.          *)
(***************************************************************************)
EXTENDS MachineInts, Sequences

CONSTANTS PairPrices,   \* symbol -> the prices its ticks carry
          PairTimes, PairThreshold,
          PairAlertGap, \* 5000 ms
          MaxAlerts     \* bound: alerts

PairLegs == {"BTCUSDT", "ETHBTC", "ETHUSDT"}

ASSUME PairAssumption ==
  /\ PairPrices \in [PairLegs -> SUBSET Nat]
  /\ PairTimes \subseteq 0 .. (Half - 1) /\ PairThreshold \in Nat
  /\ PairAlertGap \in Nat /\ PairAlertGap < Half /\ MaxAlerts \in Nat

VARIABLES tick,             \* the std::optional legs, as a partial function
          last_alert_time,  \* the static local of evaluate, which hides the global
          alerts            \* rows of logger.log, with the quote's time
pairVars == <<tick, last_alert_time, alerts>>

PairInit == tick = [l \in {} |-> 0] /\ last_alert_time = 0 /\ alerts = <<>>

PairReady(t) == DOMAIN t = PairLegs
PairGap(t) == Abs(t["ETHUSDT"].price - t["BTCUSDT"].price * t["ETHBTC"].price)

\* Mutant: the time is not tested.
AlertDue_Always(t) == PairGap(t) > PairThreshold

\* Mutant: underpricing only.
AlertDue_OneSided(t) ==
  /\ t["ETHUSDT"].price - t["BTCUSDT"].price * t["ETHBTC"].price > PairThreshold
  /\ USub(t["ETHUSDT"].timestamp, last_alert_time) > PairAlertGap

AlertDue(t) == /\ PairGap(t) > PairThreshold
               /\ USub(t["ETHUSDT"].timestamp, last_alert_time) > PairAlertGap

\* update, with evaluate: the time of an alert is the quote's, whichever leg's
\* tick brought it about.
updatePair(symbol, price, timestamp) ==
  LET t == [l \in DOMAIN tick \cup {symbol} |->
              IF l = symbol THEN [price |-> price, timestamp |-> timestamp] ELSE tick[l]]
      alert == PairReady(t) /\ AlertDue(t)
  IN  /\ tick' = t
      /\ last_alert_time' = IF alert THEN t["ETHUSDT"].timestamp ELSE last_alert_time
      /\ alerts' = IF alert
                   THEN Append(alerts, [ts |-> t["ETHUSDT"].timestamp, gap |-> PairGap(t)])
                   ELSE alerts

PairNext ==
  /\ Len(alerts) < MaxAlerts
  /\ \E symbol \in PairLegs, timestamp \in PairTimes : \E price \in PairPrices[symbol] :
       updatePair(symbol, price, timestamp)
PairSpec == PairInit /\ [][PairNext]_pairVars
-----------------------------------------------------------------------------
PairTypeOK ==
  /\ DOMAIN tick \subseteq PairLegs
  /\ tick \in [DOMAIN tick -> [price : Nat, timestamp : PairTimes]]
  /\ last_alert_time \in {0} \cup PairTimes
  /\ alerts \in Seq([ts : PairTimes, gap : Nat])

\* A gap never stands unreported: whenever the three prices differ by more than
\* the threshold, the last alert (or the clock's zero, where last_alert_time
\* starts) is at most PairAlertGap older than the current quote, and not newer, in
\* whatever order ticks arrive.
StandingGapReported ==
  PairReady(tick) /\ PairGap(tick) > PairThreshold =>
    /\ last_alert_time <= tick["ETHUSDT"].timestamp
    /\ tick["ETHUSDT"].timestamp <= last_alert_time + PairAlertGap

\* Ticks of the other legs re-evaluate the same quote, and never alert on it
\* twice in a row.
NoRepeatedAlert == \A i \in 1 .. Len(alerts) - 1 : alerts[i].ts # alerts[i + 1].ts
=============================================================================
