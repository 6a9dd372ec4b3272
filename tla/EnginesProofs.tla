--------------------------- MODULE EnginesProofs ---------------------------
(***************************************************************************)
(* Proofs about the three-leg alert and about the four sequential engines  *)
(* side by side, for every threshold, gap and width of the timestamp type. *)
(* The cooldown and the ledger, and the perpetual monitor, have modules of *)
(* their own, which the proofs about the core and the handlers use too.    *)
(***************************************************************************)
EXTENDS Engines, CoreEnginesProofs, SyntheticPerpEngineProofs

-----------------------------------------------------------------------------
\* The three-leg alert.

\* Times and 0 are in the lower half of the type.
LEMMA PairLowerHalf ==
  ASSUME NEW t \in {0} \cup PairTimes
  PROVE  t \in 0 .. (Half - 1) /\ t \in Nat
<1>1. t = 0 \/ t \in 0 .. (Half - 1)
  BY PairAssumption
<1> QED
  BY <1>1, HalfAssumption

\* The static last_alert_time is the time of the last alert.
LastAlertKnown == alerts # <<>> => last_alert_time = alerts[Len(alerts)].ts

\* The inductive invariant.
PairInv == PairTypeOK /\ StandingGapReported /\ NoRepeatedAlert /\ LastAlertKnown

\* The tick that update stores keeps the legs' types.
LEMMA PairTicks ==
  ASSUME PairTypeOK, NEW symbol \in PairLegs, NEW timestamp \in PairTimes,
         NEW price \in PairPrices[symbol], updatePair(symbol, price, timestamp)
  PROVE  /\ DOMAIN tick' \subseteq PairLegs
         /\ tick' \in [DOMAIN tick' -> [price : Nat, timestamp : PairTimes]]
<1>1. price \in Nat
  BY PairAssumption
<1>2. tick' = [l \in DOMAIN tick \cup {symbol} |->
                 IF l = symbol THEN [price |-> price, timestamp |-> timestamp] ELSE tick[l]]
  BY DEF updatePair
<1> QED
  BY <1>1, <1>2 DEF PairTypeOK

\* The gap of three known legs is a natural number, and the quote has a time.
LEMMA PairQuote ==
  ASSUME NEW t, PairReady(t), t \in [DOMAIN t -> [price : Nat, timestamp : PairTimes]]
  PROVE  PairGap(t) \in Nat /\ t["ETHUSDT"].timestamp \in PairTimes
<1>1. /\ t["ETHUSDT"] \in [price : Nat, timestamp : PairTimes]
      /\ t["BTCUSDT"] \in [price : Nat, timestamp : PairTimes]
      /\ t["ETHBTC"] \in [price : Nat, timestamp : PairTimes]
  BY DEF PairReady, PairLegs
<1>2. t["ETHUSDT"].price \in Nat /\ t["BTCUSDT"].price \in Nat /\ t["ETHBTC"].price \in Nat
      /\ t["ETHUSDT"].timestamp \in PairTimes
  BY <1>1
<1>3. t["BTCUSDT"].price * t["ETHBTC"].price \in Nat
  BY <1>2, MulNat
<1>4. t["ETHUSDT"].price - t["BTCUSDT"].price * t["ETHBTC"].price \in Int
  BY <1>2, <1>3
<1> QED
  BY <1>2, <1>4 DEF PairGap, Abs

\* The alert's time test, in true time.
LEMMA AlertTest ==
  ASSUME PairTypeOK, NEW t, PairReady(t),
         t \in [DOMAIN t -> [price : Nat, timestamp : PairTimes]]
  PROVE  AlertDue(t) <=> /\ PairGap(t) > PairThreshold
                         /\ \/ t["ETHUSDT"].timestamp > last_alert_time + PairAlertGap
                            \/ t["ETHUSDT"].timestamp < last_alert_time
<1>1. t["ETHUSDT"].timestamp \in PairTimes
  BY PairQuote
<1>2. t["ETHUSDT"].timestamp \in 0 .. (Half - 1)
  BY <1>1, PairLowerHalf
<1>3. last_alert_time \in 0 .. (Half - 1)
  BY PairLowerHalf DEF PairTypeOK
<1>4. USub(t["ETHUSDT"].timestamp, last_alert_time) > PairAlertGap
        <=> \/ t["ETHUSDT"].timestamp > last_alert_time + PairAlertGap
            \/ t["ETHUSDT"].timestamp < last_alert_time
  BY <1>2, <1>3, PairAssumption, WrappedAge
<1> QED
  BY <1>4 DEF AlertDue

\* A tick of a leg keeps the invariant, whether or not it alerts.
LEMMA UpdatePairKeeps ==
  ASSUME PairInv, NEW symbol \in PairLegs, NEW timestamp \in PairTimes,
         NEW price \in PairPrices[symbol], updatePair(symbol, price, timestamp)
  PROVE  PairInv'
<1> USE DEF PairInv
<1> DEFINE t == tick'
           quote == t["ETHUSDT"].timestamp
           alert == PairReady(t) /\ AlertDue(t)
<1>1. /\ DOMAIN t \subseteq PairLegs
      /\ t \in [DOMAIN t -> [price : Nat, timestamp : PairTimes]]
  BY PairTicks
<1>2. /\ last_alert_time' = (IF alert THEN quote ELSE last_alert_time)
      /\ alerts' = (IF alert THEN Append(alerts, [ts |-> quote, gap |-> PairGap(t)]) ELSE alerts)
  BY DEF updatePair
<1>3. alerts \in Seq([ts : PairTimes, gap : Nat]) /\ last_alert_time \in {0} \cup PairTimes
      /\ PairAlertGap \in Nat
  BY PairAssumption DEF PairTypeOK
<1> HIDE DEF t, quote, alert
<1>4. CASE alert
  <2>1. PairReady(t) /\ AlertDue(t)
    BY <1>4 DEF alert
  <2>2. PairGap(t) \in Nat /\ quote \in PairTimes
    BY <1>1, <2>1, PairQuote DEF quote
  <2>3. quote > last_alert_time + PairAlertGap \/ quote < last_alert_time
    BY <1>1, <2>1, AlertTest DEF quote
  <2>4. quote \in Nat /\ last_alert_time \in Nat
    BY <1>3, <2>2, PairLowerHalf
  <2> DEFINE row == [ts |-> quote, gap |-> PairGap(t)]
             n == Len(alerts)
  <2>5. row \in [ts : PairTimes, gap : Nat] /\ row.ts = quote
    BY <2>2
  <2>6. /\ n \in Nat /\ alerts' \in Seq([ts : PairTimes, gap : Nat])
        /\ Len(alerts') = n + 1 /\ alerts'[n + 1] = row /\ alerts' # <<>>
        /\ \A i \in 1 .. n : alerts'[i] = alerts[i]
    BY <1>2, <1>3, <1>4, <2>5
  <2> HIDE DEF row, n
  <2>7. PairTypeOK'
    BY <1>1, <1>2, <1>4, <2>2, <2>6 DEF PairTypeOK, t
  <2>8. StandingGapReported'
    <3>1. last_alert_time' = quote
      BY <1>2, <1>4
    <3>2. last_alert_time' <= quote /\ quote <= last_alert_time' + PairAlertGap
      BY <1>3, <2>4, <3>1
    <3> QED
      BY <3>2 DEF StandingGapReported, quote, t
  <2>9. NoRepeatedAlert'
    <3> SUFFICES ASSUME NEW i \in 1 .. n PROVE alerts'[i].ts # alerts'[i + 1].ts
      BY <2>6 DEF NoRepeatedAlert
    <3>1. CASE i = n
      <4>1. last_alert_time = alerts[n].ts
        <5>1. alerts # <<>>
          BY <1>3, <3>1 DEF n
        <5> QED
          BY <5>1 DEF LastAlertKnown, n
      <4> QED
        BY <1>3, <2>3, <2>4, <2>5, <2>6, <3>1, <4>1
    <3>2. CASE i # n
      <4>1. i \in 1 .. n - 1 /\ alerts'[i] = alerts[i] /\ alerts'[i + 1] = alerts[i + 1]
        BY <2>6, <3>2
      <4> QED
        BY <4>1 DEF NoRepeatedAlert, n
    <3> QED
      BY <3>1, <3>2
  <2>10. LastAlertKnown'
    BY <1>2, <1>4, <2>5, <2>6 DEF LastAlertKnown
  <2> QED
    BY <2>7, <2>8, <2>9, <2>10
<1>5. CASE ~alert
  <2>1. UNCHANGED <<last_alert_time, alerts>>
    BY <1>2, <1>5
  <2>2. PairTypeOK'
    BY <1>1, <2>1 DEF PairTypeOK, t
  <2>3. StandingGapReported'
    <3> SUFFICES ASSUME PairReady(t), PairGap(t) > PairThreshold
                 PROVE  last_alert_time <= quote /\ quote <= last_alert_time + PairAlertGap
      BY <2>1 DEF StandingGapReported, quote, t
    <3>1. ~(quote > last_alert_time + PairAlertGap \/ quote < last_alert_time)
      BY <1>1, <1>5, AlertTest DEF quote, alert
    <3>2. quote \in PairTimes
      BY <1>1, PairQuote DEF quote
    <3>3. quote \in Nat /\ last_alert_time \in Nat
      BY <1>3, <3>2, PairLowerHalf
    <3> QED
      BY <1>3, <3>1, <3>3
  <2>4. NoRepeatedAlert' /\ LastAlertKnown'
    BY <2>1 DEF NoRepeatedAlert, LastAlertKnown
  <2> QED
    BY <2>2, <2>3, <2>4
<1> QED
  BY <1>4, <1>5

\* Every sequence of ticks keeps the invariant.
LEMMA PairInvariant == PairSpec => []PairInv
<1>1. PairInit => PairInv
  BY DEF PairInit, PairInv, PairTypeOK, StandingGapReported, NoRepeatedAlert, LastAlertKnown,
         PairReady, PairLegs
<1>2. PairInv /\ [PairNext]_pairVars => PairInv'
  <2> SUFFICES ASSUME PairInv, [PairNext]_pairVars PROVE PairInv'
    OBVIOUS
  <2>1. CASE PairNext
    BY <2>1, UpdatePairKeeps DEF PairNext
  <2>2. CASE UNCHANGED pairVars
    BY <2>2 DEF pairVars, PairInv, PairTypeOK, StandingGapReported, NoRepeatedAlert, LastAlertKnown
  <2> QED
    BY <2>1, <2>2
<1> QED
  BY <1>1, <1>2, PTL DEF PairSpec

\* SyntheticPair.hpp, update: legs, alert time and rows keep their types.
THEOREM PairTypeCorrect == PairSpec => []PairTypeOK
  BY PairInvariant, PTL DEF PairInv

\* SyntheticPair.hpp line 54: whenever the three prices are further apart than the
\* threshold, the last alert is recent, in whatever order ticks arrive.
THEOREM StandingGapCorrect == PairSpec => []StandingGapReported
  BY PairInvariant, PTL DEF PairInv

\* SyntheticPair.hpp line 54: the same quote is not reported twice in a row, however
\* often ticks of the other legs re-evaluate it.
THEOREM NoRepeatCorrect == PairSpec => []NoRepeatedAlert
  BY PairInvariant, PTL DEF PairInv
-----------------------------------------------------------------------------
\* The engines side by side.

\* A step of the engine in focus is a step of that engine, and leaves the others
\* alone.
LEMMA EnginesSteps ==
  [EnginesNext]_enginesVars =>
    [ArbNext]_arbVars /\ [PnLNext]_pnlVars /\ [PerpNext]_perp /\ [PairNext]_pairVars
  BY DEF EnginesNext, enginesVars

\* The members of all four engines keep their types, whichever of them is used: each
\* engine's part of a behaviour is a behaviour of that engine.
THEOREM EnginesTypeCorrect == EnginesSpec => []EnginesTypeOK
<1>1. EnginesInit => ArbInit /\ PnLInit /\ PerpInit /\ PairInit
  BY DEF EnginesInit
<1>2. EnginesSpec => ArbSpec /\ PnLSpec /\ PerpSpec /\ PairSpec
  BY <1>1, EnginesSteps, PTL DEF EnginesSpec, ArbSpec, PnLSpec, PerpSpec, PairSpec
<1>3. ArbTypeOK /\ PnLTypeOK /\ PerpTypeOK /\ PairTypeOK => EnginesTypeOK
  BY DEF EnginesTypeOK
<1> QED
  BY <1>2, <1>3, ArbTypeCorrect, PnLTypeCorrect, PerpTypeCorrect, PairTypeCorrect, PTL
=============================================================================
