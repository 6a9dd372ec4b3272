------------------------- MODULE CoreEnginesProofs -------------------------
(***************************************************************************)
(* Proofs about the two engines that the strategy core drives, the signal  *)
(* cooldown and the simulated-trade ledger, for every set of symbols,      *)
(* every cooldown, price, cap and scale and every width of the timestamp   *)
(* type.  They are stated of the engines alone; the proofs about the core  *)
(* use them through an INSTANCE.                                           *)
(***************************************************************************)
EXTENDS ArbOpportunityEngine, MockPnLEngine, MachineIntsProofs

-----------------------------------------------------------------------------
\* The signal cooldown.

\* Timestamps are natural numbers.
LEMMA TimestampsNat == ASSUME NEW t \in Timestamps PROVE t \in Nat
<1>1. t \in 0 .. (Half - 1)
  BY ArbAssumption
<1> QED
  BY <1>1, HalfAssumption

\* The cooldown test, for timestamps in the lower half of the type: it passes
\* when the cooldown is over in true time, or the tick is older than the signal.
LEMMA CooldownTest ==
  ASSUME NEW t \in Timestamps, NEW u \in Timestamps
  PROVE  USub(t, u) > cooldown <=> (t > u + cooldown \/ t < u)
<1>1. t \in 0 .. (Half - 1) /\ u \in 0 .. (Half - 1)
  BY ArbAssumption
<1>2. cooldown \in Nat /\ cooldown < Half
  BY ArbAssumption, HalfAssumption DEF cooldown
<1> QED
  BY <1>1, <1>2, WrappedAge

\* The shape of the state after a signal.
LEMMA FiredStep ==
  ASSUME ArbTypeOK, NEW s \in Symbols, NEW t \in Timestamps, shouldTrigger(s, t)
  PROVE  /\ fired' \in [Symbols -> Seq(Timestamps)]
         /\ fired'[s] = Append(fired[s], t)
         /\ \A r \in Symbols : r # s => fired'[r] = fired[r]
         /\ DOMAIN last_trigger' = DOMAIN last_trigger \cup {s}
         /\ last_trigger'[s] = t
         /\ \A r \in DOMAIN last_trigger : r # s => last_trigger'[r] = last_trigger[r]
<1>1. fired[s] \in Seq(Timestamps) /\ Append(fired[s], t) \in Seq(Timestamps)
  BY DEF ArbTypeOK
<1> QED
  BY <1>1 DEF ArbTypeOK, shouldTrigger

\* The shape of the state after reset.
LEMMA ResetStep ==
  ASSUME ArbTypeOK, NEW s \in Symbols, reset(s)
  PROVE  /\ fired' \in [Symbols -> Seq(Timestamps)]
         /\ fired'[s] = <<>>
         /\ \A r \in Symbols : r # s => fired'[r] = fired[r]
         /\ DOMAIN last_trigger' = DOMAIN last_trigger \ {s}
         /\ \A r \in DOMAIN last_trigger : r # s => last_trigger'[r] = last_trigger[r]
<1>1. <<>> \in Seq(Timestamps)
  OBVIOUS
<1> QED
  BY <1>1 DEF ArbTypeOK, reset

\* A call that changes the cooldown's state, or none: the steps of ArbSpec without
\* its bound.  The lemmas are about these, so that they hold for other callers too.
ArbStep == \/ \E s \in Symbols, t \in Timestamps : Admissible(s, t) /\ shouldTrigger(s, t)
           \/ \E s \in Symbols : reset(s)
           \/ UNCHANGED arbVars

\* The steps of ArbSpec are such calls.
LEMMA ArbSteps == [ArbNext]_arbVars => ArbStep
  BY DEF ArbNext, ArbStep, suppressed

\* Type correctness is preserved by every step.
LEMMA ArbTypeStep == ArbTypeOK /\ ArbStep => ArbTypeOK'
<1> SUFFICES ASSUME ArbTypeOK, ArbStep PROVE ArbTypeOK'
  OBVIOUS
<1>1. ASSUME NEW s \in Symbols, NEW t \in Timestamps, shouldTrigger(s, t)
      PROVE  ArbTypeOK'
  <2>1. last_trigger' \in [DOMAIN last_trigger' -> Timestamps]
    BY <1>1 DEF ArbTypeOK, shouldTrigger
  <2> QED
    BY <1>1, <2>1, FiredStep DEF ArbTypeOK
<1>2. ASSUME NEW s \in Symbols, reset(s)
      PROVE  ArbTypeOK'
  <2>1. last_trigger' \in [DOMAIN last_trigger' -> Timestamps]
    BY <1>2 DEF ArbTypeOK, reset
  <2> QED
    BY <1>2, <2>1, ResetStep DEF ArbTypeOK
<1>3. CASE UNCHANGED arbVars
  BY <1>3 DEF ArbTypeOK, arbVars
<1> QED
  BY <1>1, <1>2, <1>3 DEF ArbStep

\* The initial state.
LEMMA ArbStart == ArbInit => ArbTypeOK /\ LastTriggerIsLatest /\ CooldownOrRegression
                             /\ CooldownRespected
  BY DEF ArbInit, ArbTypeOK, LastTriggerIsLatest, CooldownOrRegression, CooldownRespected

\* The map keeps following the signals.
LEMMA LatestStep ==
  ArbTypeOK /\ LastTriggerIsLatest /\ ArbStep => LastTriggerIsLatest'
<1> SUFFICES ASSUME ArbTypeOK, LastTriggerIsLatest, ArbStep
             PROVE  LastTriggerIsLatest'
  OBVIOUS
<1>1. ASSUME NEW s \in Symbols, NEW t \in Timestamps, shouldTrigger(s, t)
      PROVE  LastTriggerIsLatest'
  <2>1. /\ fired'[s] = Append(fired[s], t)
        /\ \A r \in Symbols : r # s => fired'[r] = fired[r]
        /\ DOMAIN last_trigger' = DOMAIN last_trigger \cup {s}
        /\ last_trigger'[s] = t
        /\ \A r \in DOMAIN last_trigger : r # s => last_trigger'[r] = last_trigger[r]
    BY <1>1, FiredStep
  <2>2. fired[s] \in Seq(Timestamps)
    BY DEF ArbTypeOK
  <2>3. /\ fired'[s] # <<>>
        /\ fired'[s][Len(fired'[s])] = t
    BY <2>1, <2>2
  <2>4. DOMAIN last_trigger' = {r \in Symbols : fired'[r] # <<>>}
    BY <2>1, <2>3 DEF LastTriggerIsLatest
  <2>5. ASSUME NEW r \in DOMAIN last_trigger'
        PROVE  last_trigger'[r] = fired'[r][Len(fired'[r])]
    <3>1. CASE r = s
      BY <2>1, <2>3, <3>1
    <3>2. CASE r # s
      BY <2>1, <3>2 DEF LastTriggerIsLatest
    <3> QED
      BY <3>1, <3>2
  <2> QED
    BY <2>4, <2>5 DEF LastTriggerIsLatest
<1>2. ASSUME NEW s \in Symbols, reset(s)
      PROVE  LastTriggerIsLatest'
  BY <1>2, ResetStep DEF LastTriggerIsLatest
<1>3. CASE UNCHANGED arbVars
  BY <1>3 DEF LastTriggerIsLatest, arbVars
<1> QED
  BY <1>1, <1>2, <1>3 DEF ArbStep

\* ArbOpportunityEngine.hpp, shouldTrigger and reset: last_trigger and the history
\* keep their types.
THEOREM ArbTypeCorrect == ArbSpec => []ArbTypeOK
<1>1. ArbInit => ArbTypeOK
  BY ArbStart
<1> QED
  BY <1>1, ArbSteps, ArbTypeStep, PTL DEF ArbSpec

\* ArbOpportunityEngine.hpp, shouldTrigger and reset: the map always holds the
\* latest signal of exactly the symbols that fired.
THEOREM ArbLatest == ArbSpec => []LastTriggerIsLatest
<1>1. ArbInit => ArbTypeOK /\ LastTriggerIsLatest
  BY ArbStart
<1> QED
  BY <1>1, ArbSteps, ArbTypeStep, LatestStep, PTL DEF ArbSpec

\* A signal that is allowed: its relation to the symbol's previous signal.
LEMMA AllowedSignal ==
  ASSUME ArbTypeOK, LastTriggerIsLatest,
         NEW s \in Symbols, NEW t \in Timestamps, shouldTrigger(s, t), fired[s] # <<>>
  PROVE  LET u == fired[s][Len(fired[s])]
         IN  u \in Timestamps /\ (t > u + cooldown \/ t < u)
<1>1. s \in DOMAIN last_trigger /\ last_trigger[s] = fired[s][Len(fired[s])]
  BY DEF LastTriggerIsLatest
<1>2. last_trigger[s] \in Timestamps
  BY <1>1 DEF ArbTypeOK
<1>3. USub(t, last_trigger[s]) > cooldown
  BY <1>1 DEF shouldTrigger, CooldownPassed
<1> QED
  BY <1>1, <1>2, <1>3, CooldownTest

\* The inductive invariant of the cooldown, for ticks in any order.
ArbInv == ArbTypeOK /\ LastTriggerIsLatest /\ CooldownOrRegression

\* Every step preserves it: the new signal is allowed, the earlier ones stay.
LEMMA ArbInvStep == ArbInv /\ ArbStep => ArbInv'
<1> SUFFICES ASSUME ArbInv, ArbStep PROVE CooldownOrRegression'
  BY ArbTypeStep, LatestStep DEF ArbInv
<1>0. ArbTypeOK /\ LastTriggerIsLatest /\ CooldownOrRegression
  BY DEF ArbInv
<1>1. ASSUME NEW s \in Symbols, NEW t \in Timestamps, shouldTrigger(s, t)
      PROVE  CooldownOrRegression'
  <2> SUFFICES ASSUME NEW r \in Symbols, NEW i \in 1 .. Len(fired'[r]) - 1
               PROVE  \/ fired'[r][i + 1] > fired'[r][i] + cooldown
                      \/ fired'[r][i + 1] < fired'[r][i]
    BY DEF CooldownOrRegression, cooldown
  <2>1. CASE r # s
    BY <1>0, <1>1, <2>1, FiredStep DEF CooldownOrRegression
  <2>2. CASE r = s
    <3>1. fired[s] \in Seq(Timestamps) /\ fired'[s] = Append(fired[s], t)
      BY <1>0, <1>1, FiredStep DEF ArbTypeOK
    <3>2. CASE i < Len(fired[s])
      BY <1>0, <2>2, <3>1, <3>2 DEF CooldownOrRegression
    <3>3. CASE i = Len(fired[s])
      <4>1. fired[s] # <<>>
        BY <3>1, <3>3
      <4>2. fired'[s][i] = fired[s][Len(fired[s])] /\ fired'[s][i + 1] = t
        BY <3>1, <3>3
      <4> QED
        BY <1>0, <1>1, <2>2, <4>1, <4>2, AllowedSignal
    <3> QED
      BY <2>2, <3>1, <3>2, <3>3
  <2> QED
    BY <2>1, <2>2
<1>2. ASSUME NEW s \in Symbols, reset(s)
      PROVE  CooldownOrRegression'
  <2>1. /\ fired'[s] = <<>>
        /\ \A r \in Symbols : r # s => fired'[r] = fired[r]
    BY <1>0, <1>2, ResetStep
  <2> SUFFICES ASSUME NEW r \in Symbols, NEW i \in 1 .. Len(fired'[r]) - 1
               PROVE  \/ fired'[r][i + 1] > fired'[r][i] + cooldown
                      \/ fired'[r][i + 1] < fired'[r][i]
    BY DEF CooldownOrRegression, cooldown
  <2>2. r # s
    BY <2>1
  <2> QED
    BY <1>0, <2>1, <2>2 DEF CooldownOrRegression
<1>3. CASE UNCHANGED arbVars
  BY <1>0, <1>3 DEF CooldownOrRegression, arbVars, cooldown
<1> QED
  BY <1>1, <1>2, <1>3 DEF ArbStep

\* ArbOpportunityEngine.hpp line 16: for ticks in any order, two signals in a row
\* are a cooldown apart or the second is older than the first.
THEOREM ArbAnyOrder == ArbSpec => []CooldownOrRegression
<1>1. ArbInit => ArbInv
  BY ArbStart DEF ArbInv
<1>2. ArbInv => CooldownOrRegression
  BY DEF ArbInv
<1> QED
  BY <1>1, <1>2, ArbSteps, ArbInvStep, PTL DEF ArbSpec

\* ArbOpportunityEngine.hpp line 13: with a feed in time order, any two signals of
\* a symbol are more than the cooldown apart.
THEOREM ArbInOrder == InOrder => (ArbSpec => []CooldownRespected)
<1> SUFFICES ASSUME InOrder = TRUE PROVE ArbSpec => []CooldownRespected
  BY ArbAssumption
<1> DEFINE Inv == ArbTypeOK /\ LastTriggerIsLatest /\ CooldownRespected
<1>1. ArbInit => Inv
  BY ArbStart
<1>2. Inv /\ ArbStep => Inv'
  <2> SUFFICES ASSUME Inv, ArbStep PROVE CooldownRespected'
    BY ArbTypeStep, LatestStep
  <2>0. cooldown \in Nat
    BY ArbAssumption DEF cooldown
  <2>1. ASSUME NEW s \in Symbols, NEW t \in Timestamps, Admissible(s, t), shouldTrigger(s, t)
        PROVE  CooldownRespected'
    <3> SUFFICES ASSUME NEW r \in Symbols, NEW i \in DOMAIN fired'[r],
                        NEW j \in DOMAIN fired'[r], i < j
                 PROVE  fired'[r][j] > fired'[r][i] + cooldown
      BY DEF CooldownRespected, cooldown
    <3>1. CASE r # s
      BY <2>1, <3>1, FiredStep DEF CooldownRespected
    <3>2. CASE r = s
      <4>1. fired[s] \in Seq(Timestamps) /\ fired'[s] = Append(fired[s], t)
        BY <2>1, FiredStep DEF ArbTypeOK
      <4>2. CASE j <= Len(fired[s])
        BY <3>2, <4>1, <4>2 DEF CooldownRespected
      <4>3. CASE j = Len(fired[s]) + 1
        <5> DEFINE n == Len(fired[s])
        <5>1. /\ n \in DOMAIN fired[s] /\ i \in DOMAIN fired[s] /\ i <= n
              /\ fired[s] # <<>>
          BY <3>2, <4>1, <4>3
        <5>2. fired[s][n] <= t
          BY <2>1, <5>1 DEF Admissible
        <5>3. t > fired[s][n] + cooldown /\ fired[s][n] \in Nat /\ t \in Nat
          <6>1. fired[s][n] \in Timestamps /\ (t > fired[s][n] + cooldown \/ t < fired[s][n])
            BY <2>1, <5>1, AllowedSignal
          <6> QED
            BY <2>0, <5>2, <6>1, TimestampsNat
        <5>4. fired[s][i] \in Nat
          <6>1. fired[s][i] \in Timestamps
            BY <4>1, <5>1
          <6> QED
            BY <6>1, TimestampsNat
        <5>5. fired[s][i] <= fired[s][n]
          BY <2>0, <5>1, <5>3, <5>4 DEF CooldownRespected
        <5>6. fired'[s][i] = fired[s][i] /\ fired'[s][j] = t
          BY <4>1, <4>3, <5>1
        <5> QED
          BY <2>0, <3>2, <5>3, <5>4, <5>5, <5>6
      <4> QED
        BY <3>2, <4>1, <4>2, <4>3
    <3> QED
      BY <3>1, <3>2
  <2>2. ASSUME NEW s \in Symbols, reset(s)
        PROVE  CooldownRespected'
    <3>1. /\ fired'[s] = <<>>
          /\ \A r \in Symbols : r # s => fired'[r] = fired[r]
      BY <2>2, ResetStep
    <3> QED
      BY <3>1 DEF CooldownRespected, cooldown
  <2>3. CASE UNCHANGED arbVars
    BY <2>3 DEF CooldownRespected, arbVars, cooldown
  <2> QED
    BY <2>1, <2>2, <2>3 DEF ArbStep
<1> QED
  BY <1>1, <1>2, ArbSteps, PTL DEF ArbSpec
-----------------------------------------------------------------------------
\* The simulated-trade ledger.

\* The size of a trade is a natural within the cap.
LEMMA SizeCapped ==
  ASSUME NEW s \in TradePrices, NEW r \in TradePrices
  PROVE  Size(s, r) \in Nat /\ Size(s, r) <= MaxExposure * Scale /\ MaxExposure * Scale \in Nat
<1>1. s \in Nat /\ r \in Nat \ {0} /\ Scale \in Nat /\ MaxExposure \in Nat
  BY PnLAssumption
<1>2. Spread(s, r) \in Nat
  BY <1>1 DEF Spread, Larger, Smaller
<1>3. 100 * Scale * Spread(s, r) \in Nat
  <2>1. 100 * Scale \in Nat
    BY <1>1
  <2> QED
    BY <1>2, <2>1, MulNat
<1>4. (100 * Scale * Spread(s, r)) \div r \in Nat
  BY <1>1, <1>3, DivNat
<1>5. MaxExposure * Scale \in Nat
  BY <1>1, MulNat
<1> QED
  BY <1>4, <1>5 DEF Size, Smaller

\* The profit of a trade is an integer.
LEMMA PnLInt ==
  ASSUME NEW s \in TradePrices, NEW r \in TradePrices, NEW d \in Directions
  PROVE  PnL(s, r, d) \in Int
<1> DEFINE gain == IF d = "BUY" THEN r - s ELSE s - r
<1>1. s \in Nat /\ r \in Nat \ {0} /\ Size(s, r) \in Nat
  BY PnLAssumption, SizeCapped
<1>2. gain \in Int
  BY <1>1
<1>3. CASE gain >= 0
  <2>1. gain * Size(s, r) \in Nat
    BY <1>1, <1>2, <1>3, MulNat
  <2>2. (gain * Size(s, r)) \div r \in Nat
    BY <1>1, <2>1, DivNat
  <2> QED
    BY <1>3, <2>2 DEF PnL
<1>4. CASE ~(gain >= 0)
  <2>1. -gain \in Nat
    BY <1>2, <1>4
  <2>2. (-gain) * Size(s, r) \in Nat
    BY <1>1, <2>1, MulNat
  <2>3. ((-gain) * Size(s, r)) \div r \in Nat
    BY <1>1, <2>2, DivNat
  <2> QED
    BY <1>4, <2>3 DEF PnL
<1> QED
  BY <1>3, <1>4

\* What recordTrade does, for the trade t it books.
Booked(t) ==
  /\ trades' = Append(trades, t)
  /\ total_pnl' = total_pnl + t.pnl
  /\ max_observed_exposure' = Larger(max_observed_exposure, t.size)
  /\ external_log' = Written("external_log", external_log, t)
  /\ arb_log' = Written("arb_logger", arb_log,
                        [trade |-> t, count |-> Len(trades'), cumulative_pnl |-> total_pnl',
                         net_pnl |-> t.pnl])
  /\ pnl_series' = Append(pnl_series, t.pnl)

\* A trade is booked, or nothing changes: the steps of PnLSpec without its bound.
PnLStep == \/ \E t \in Trade : t.size <= MaxExposure * Scale /\ Booked(t)
           \/ UNCHANGED pnlVars

\* recordTrade books a well-formed trade within the cap.
LEMMA Recorded ==
  ASSUME NEW s \in TradePrices, NEW r \in TradePrices, NEW ts \in TradeTimes,
         NEW d \in Directions, recordTrade(s, r, ts, d)
  PROVE  \E t \in Trade : /\ t.size <= MaxExposure * Scale /\ Booked(t)
                          /\ t.timestamp = ts /\ t.pnl = PnL(s, r, d)
<1> DEFINE t == [entry_price |-> s, exit_price |-> r, direction |-> d, size |-> Size(s, r),
                 pnl |-> PnL(s, r, d), timestamp |-> ts]
<1>1. t \in Trade
  BY SizeCapped, PnLInt, PnLAssumption DEF Trade
<1>2. t.size <= MaxExposure * Scale
  BY SizeCapped
<1>3. Booked(t)
  BY DEF recordTrade, Booked, logSimulatedTrade
<1> QED
  BY <1>1, <1>2, <1>3

\* The steps of PnLSpec are such steps.
LEMMA PnLSteps == [PnLNext]_pnlVars => PnLStep
<1> SUFFICES ASSUME [PnLNext]_pnlVars PROVE PnLStep
  OBVIOUS
<1> QED
  BY Recorded DEF PnLNext, PnLStep

\* The initial ledger is well-formed, reconciled and within the cap.
LEMMA PnLStart == PnLInit => PnLTypeOK /\ LedgerReconciles /\ ExposureTracked
<1> SUFFICES ASSUME PnLInit PROVE PnLTypeOK /\ LedgerReconciles /\ ExposureTracked
  OBVIOUS
<1>1. PnLTypeOK
  BY DEF PnLInit, PnLTypeOK
<1>2. LedgerReconciles
  BY DEF PnLInit, LedgerReconciles, CumulativeBefore
<1>3. ExposureTracked
  <2>1. MaxExposure * Scale \in Nat
    BY PnLAssumption, MulNat
  <2> QED
    BY <2>1 DEF PnLInit, ExposureTracked
<1> QED
  BY <1>1, <1>2, <1>3

\* A booked trade keeps the types.
LEMMA BookedType ==
  ASSUME PnLTypeOK, NEW t \in Trade, Booked(t)
  PROVE  PnLTypeOK'
<1>1. t.pnl \in Int /\ t.size \in Nat
  BY DEF Trade
<1>2. trades' \in Seq(Trade) /\ Len(trades') \in Nat /\ pnl_series' \in Seq(Int)
  BY <1>1 DEF PnLTypeOK, Booked
<1>3. total_pnl' \in Int /\ max_observed_exposure' \in Nat
  BY <1>1 DEF PnLTypeOK, Booked, Larger
<1>4. [trade |-> t, count |-> Len(trades'), cumulative_pnl |-> total_pnl',
       net_pnl |-> t.pnl] \in ArbRow
  BY <1>1, <1>2, <1>3 DEF ArbRow
<1>5. external_log' \in Seq(Trade) /\ arb_log' \in Seq(ArbRow)
  BY <1>4 DEF PnLTypeOK, Booked, Written
<1> QED
  BY <1>2, <1>3, <1>5 DEF PnLTypeOK

\* A booked trade keeps the exposure within the cap and the maximum exact.
LEMMA BookedExposure ==
  ASSUME PnLTypeOK, ExposureTracked, NEW t \in Trade, t.size <= MaxExposure * Scale, Booked(t)
  PROVE  ExposureTracked'
<1>0. /\ MaxExposure * Scale \in Nat /\ t.size \in Nat /\ max_observed_exposure \in Nat
      /\ trades \in Seq(Trade) /\ max_observed_exposure' \in Nat
  BY PnLAssumption, MulNat, BookedType DEF PnLTypeOK, Trade
<1>1. /\ DOMAIN trades' = 1 .. (Len(trades) + 1) /\ DOMAIN trades = 1 .. Len(trades)
      /\ Len(trades) \in Nat
      /\ \A i \in DOMAIN trades : trades'[i] = trades[i]
      /\ trades'[Len(trades) + 1] = t
  BY <1>0 DEF Booked
<1>2. /\ max_observed_exposure' >= max_observed_exposure
      /\ max_observed_exposure' >= t.size
      /\ max_observed_exposure' \in {max_observed_exposure, t.size}
  BY <1>0 DEF Booked, Larger
<1>3. ASSUME NEW i \in DOMAIN trades' PROVE trades'[i].size <= max_observed_exposure'
  <2>1. CASE i \in DOMAIN trades
    <3>0. trades[i] \in Trade
      BY <1>0, <2>1
    <3>1. trades[i].size <= max_observed_exposure /\ trades[i].size \in Nat
      BY <2>1, <3>0 DEF ExposureTracked, Trade
    <3> QED
      BY <1>0, <1>1, <1>2, <2>1, <3>1
  <2>2. CASE i = Len(trades) + 1
    BY <1>0, <1>1, <1>2, <2>2
  <2> QED
    BY <1>1, <2>1, <2>2
<1>4. max_observed_exposure' \in {0} \cup {trades'[i].size : i \in DOMAIN trades'}
  <2>1. CASE max_observed_exposure' = t.size
    BY <1>1, <2>1
  <2>2. CASE max_observed_exposure' = max_observed_exposure
    <3>1. max_observed_exposure \in {0} \cup {trades[i].size : i \in DOMAIN trades}
      BY DEF ExposureTracked
    <3> QED
      BY <1>1, <2>2, <3>1
  <2> QED
    BY <1>2, <2>1, <2>2
<1>5. max_observed_exposure' <= MaxExposure * Scale
  BY <1>0, <1>2 DEF ExposureTracked
<1> QED
  BY <1>3, <1>4, <1>5 DEF ExposureTracked

\* A booked trade keeps the ledger, the statistics and the files in agreement.
LEMMA BookedReconciles ==
  ASSUME PnLTypeOK, LedgerReconciles, NEW t \in Trade, Booked(t)
  PROVE  LedgerReconciles'
<1> DEFINE n == Len(trades)
<1>0. /\ trades \in Seq(Trade) /\ n \in Nat /\ t.pnl \in Int /\ total_pnl \in Int
      /\ pnl_series \in Seq(Int) /\ arb_log \in Seq(ArbRow)
  BY DEF PnLTypeOK, Trade
<1>1. /\ DOMAIN trades' = 1 .. (n + 1) /\ DOMAIN trades = 1 .. n /\ Len(trades') = n + 1
      /\ \A i \in 1 .. n : trades'[i] = trades[i]
      /\ trades'[n + 1] = t
  BY <1>0 DEF Booked
<1>2. pnl_series' = [i \in DOMAIN trades' |-> trades'[i].pnl]
  <2>1. pnl_series = [i \in 1 .. n |-> trades[i].pnl]
    BY <1>1 DEF LedgerReconciles
  <2>2. Len(pnl_series) = n /\ \A i \in 1 .. n : pnl_series[i] = trades[i].pnl
    BY <1>0, <2>1
  <2>3. pnl_series' = Append(pnl_series, t.pnl)
    BY DEF Booked
  <2>4. pnl_series' = [i \in 1 .. (n + 1) |-> IF i = n + 1 THEN t.pnl ELSE pnl_series[i]]
    BY <1>0, <2>2, <2>3
  <2> QED
    BY <1>1, <2>2, <2>4
<1>3. "external_log" \in Sinks => external_log' = trades'
  BY DEF LedgerReconciles, Booked, Written
<1>4. ASSUME "arb_logger" \in Sinks
      PROVE  /\ Len(arb_log') = Len(trades')
             /\ \A i \in DOMAIN arb_log' :
                  /\ arb_log'[i].count = i
                  /\ arb_log'[i].trade = trades'[i] /\ arb_log'[i].net_pnl = trades'[i].pnl
                  /\ arb_log'[i].cumulative_pnl = CumulativeBefore(i)' + trades'[i].pnl
             /\ total_pnl' = CumulativeBefore(Len(arb_log) + 1)'
  <2> DEFINE row == [trade |-> t, count |-> Len(trades'), cumulative_pnl |-> total_pnl',
                     net_pnl |-> t.pnl]
  <2>1. Len(arb_log) = n /\ total_pnl = CumulativeBefore(n + 1)
    BY <1>4 DEF LedgerReconciles
  <2>2. /\ DOMAIN arb_log' = 1 .. (n + 1) /\ DOMAIN arb_log = 1 .. n /\ Len(arb_log') = n + 1
        /\ \A i \in 1 .. n : arb_log'[i] = arb_log[i]
        /\ arb_log'[n + 1] = row
    BY <1>0, <1>4, <2>1 DEF Booked, Written
  <2>3. \A i \in 1 .. (n + 1) : CumulativeBefore(i)' = CumulativeBefore(i)
    BY <1>0, <2>2 DEF CumulativeBefore
  <2>4. ASSUME NEW i \in 1 .. (n + 1)
        PROVE  /\ arb_log'[i].count = i
               /\ arb_log'[i].trade = trades'[i] /\ arb_log'[i].net_pnl = trades'[i].pnl
               /\ arb_log'[i].cumulative_pnl = CumulativeBefore(i)' + trades'[i].pnl
    <3>1. CASE i \in 1 .. n
      <4>1. /\ arb_log[i].count = i
            /\ arb_log[i].trade = trades[i] /\ arb_log[i].net_pnl = trades[i].pnl
            /\ arb_log[i].cumulative_pnl = CumulativeBefore(i) + trades[i].pnl
        BY <1>4, <2>2, <3>1 DEF LedgerReconciles
      <4> QED
        BY <1>1, <2>2, <2>3, <3>1, <4>1
    <3>2. CASE i = n + 1
      <4>1. total_pnl' = total_pnl + t.pnl
        BY DEF Booked
      <4>2. CumulativeBefore(i)' = total_pnl
        BY <2>1, <2>3, <3>2
      <4> QED
        BY <1>1, <2>2, <3>2, <4>1, <4>2
    <3> QED
      BY <1>0, <3>1, <3>2
  <2>5. total_pnl' = CumulativeBefore(Len(arb_log) + 1)'
    BY <1>0, <2>2 DEF CumulativeBefore
  <2> QED
    BY <1>1, <2>2, <2>4, <2>5
<1> QED
  BY <1>2, <1>3, <1>4 DEF LedgerReconciles, CumulativeBefore

\* The inductive invariant of the ledger.
PnLInv == PnLTypeOK /\ LedgerReconciles /\ ExposureTracked

\* Every step preserves it.
LEMMA PnLInvStep == PnLInv /\ PnLStep => PnLInv'
<1> SUFFICES ASSUME PnLInv, PnLStep PROVE PnLInv'
  OBVIOUS
<1>1. ASSUME NEW t \in Trade, t.size <= MaxExposure * Scale, Booked(t) PROVE PnLInv'
  BY <1>1, BookedType, BookedReconciles, BookedExposure DEF PnLInv
<1>2. CASE UNCHANGED pnlVars
  BY <1>2 DEF PnLInv, PnLTypeOK, LedgerReconciles, ExposureTracked, CumulativeBefore, pnlVars
<1> QED
  BY <1>1, <1>2 DEF PnLStep

\* The invariant holds in every reachable state.
LEMMA PnLInvariant == PnLSpec => []PnLInv
<1>1. PnLInit => PnLInv
  BY PnLStart DEF PnLInv
<1> QED
  BY <1>1, PnLSteps, PnLInvStep, PTL DEF PnLSpec

\* MockPnLEngine.hpp, recordTrade: the ledger keeps its types.
THEOREM PnLTypeCorrect == PnLSpec => []PnLTypeOK
<1>1. PnLInv => PnLTypeOK
  BY DEF PnLInv
<1> QED
  BY <1>1, PnLInvariant, PTL

\* MockPnLEngine.hpp, recordTrade: ledger, statistics and both files agree.
THEOREM LedgerCorrect == PnLSpec => []LedgerReconciles
<1>1. PnLInv => LedgerReconciles
  BY DEF PnLInv
<1> QED
  BY <1>1, PnLInvariant, PTL

\* MockPnLEngine.hpp lines 35 and 53: the cap holds and the maximum is exact.
THEOREM ExposureCorrect == PnLSpec => []ExposureTracked
<1>1. PnLInv => ExposureTracked
  BY DEF PnLInv
<1> QED
  BY <1>1, PnLInvariant, PTL
=============================================================================
