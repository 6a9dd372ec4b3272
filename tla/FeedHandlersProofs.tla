------------------------ MODULE FeedHandlersProofs ------------------------
(***************************************************************************)
(* Proofs about the feed handlers, for batches of any length and messages  *)
(* with any keys: the engines they drive agree on the latest ticks, the    *)
(* trade buffers hold the most recent ones, and what is proved of the      *)
(* strategy core and of the perpetual monitor holds under the handlers.    *)
(***************************************************************************)
EXTENDS FeedHandlers, SyntheticSpotSynthProofs, SyntheticPerpEngineProofs

\* What a tick is.
LEMMA TickFields ==
  ASSUME NEW tick \in Ticks
  PROVE  /\ tick.symbol \in TickSymbols /\ tick.ts \in Timestamps /\ tick.ts \in PerpTimes
         /\ tick.price \in Nat
         /\ tick.symbol \in Legs => tick.price \in LegPrices[tick.symbol]
         /\ tick.symbol = "ETHUSDT" => tick.price \in RealPrices
<1>1. PICK s \in TickSymbols :
        tick \in [symbol : {s}, price : IF s = "ETHUSDT" THEN RealPrices ELSE LegPrices[s],
                  ts : Timestamps]
  BY DEF Ticks
<1>2. tick.symbol = s /\ tick.ts \in Timestamps
      /\ tick.price \in (IF s = "ETHUSDT" THEN RealPrices ELSE LegPrices[s])
  BY <1>1
<1>3. CASE s = "ETHUSDT"
  <2>1. tick.price \in RealPrices /\ "ETHUSDT" \notin Legs
    BY <1>2, <1>3 DEF Legs
  <2>2. tick.price \in Nat
    BY <2>1, SynthAssumption
  <2> QED
    BY <1>2, <1>3, <2>1, <2>2, FeedAssumption
<1>4. CASE s # "ETHUSDT"
  <2>1. s \in Legs /\ tick.price \in LegPrices[s]
    BY <1>2, <1>4 DEF TickSymbols
  <2>2. tick.price \in Nat
    BY <2>1, SynthAssumption
  <2> QED
    BY <1>2, <1>4, <2>1, <2>2, FeedAssumption
<1> QED
  BY <1>3, <1>4

\* The stream's own update keeps the monitor's invariant.
LEMMA StreamGood ==
  ASSUME PerpGood(perp), NEW stream \in {"trade", "fundingRate", "markPrice"},
         NEW tick \in Ticks, NEW rate \in Rates
  PROVE  PerpGood(StreamUpdate(stream, tick, rate))
<1>0. rate \in Int /\ tick.ts \in PerpTimes /\ tick.price \in Nat
  BY PerpAssumption, TickFields
<1>1. CASE stream = "trade"
  BY <1>1 DEF StreamUpdate
<1>2. CASE stream = "fundingRate"
  <2>1. StreamUpdate(stream, tick, rate) = updateFunding(perp, rate, tick.ts)
    BY <1>2 DEF StreamUpdate
  <2> QED
    BY <1>0, <2>1, FundingGood
<1>3. CASE stream = "markPrice"
  <2>1. StreamUpdate(stream, tick, rate) = updateMark(perp, tick.price, tick.ts)
    BY <1>3 DEF StreamUpdate
  <2> QED
    BY <1>0, <2>1, MarkGood
<1> QED
  BY <1>1, <1>2, <1>3

\* A tick is handed to the engines, the monitor being in state p by then.
Dispatched(tick, p) ==
  /\ PerpGood(p) /\ (tick.symbol # "BTCUSDT" => p = perp)
  /\ \E compare \in BOOLEAN : dispatch(tick, p, compare)

\* A step of the handlers hands over one tick or leaves everything they drive alone.
LEMMA FeedCases ==
  ASSUME FeedTypeOK, PerpGood(perp), [FeedNext]_allVars
  PROVE  /\ pending' \in Seq(Entries) /\ alive' \in BOOLEAN /\ bybit_quote' \in BOOLEAN
         /\ \/ UNCHANGED <<vars, perp, cross, trade_buffers, accepted>>
            \/ \E tick \in Ticks, p \in PerpRecords : Dispatched(tick, p)
<1>0. pending \in Seq(Entries) /\ alive \in BOOLEAN /\ bybit_quote \in BOOLEAN
  BY DEF FeedTypeOK
<1>1. ASSUME NEW stream \in {"trade", "fundingRate", "markPrice"}, NEW tick \in Ticks,
             NEW rate \in Rates, NEW keys, onSingle(stream, tick, rate, keys)
      PROVE  /\ UNCHANGED <<pending, bybit_quote, alive>>
             /\ \/ UNCHANGED <<vars, perp, cross, trade_buffers, accepted>>
                \/ \E t \in Ticks, p \in PerpRecords : Dispatched(t, p)
  <2> DEFINE p == StreamUpdate(stream, tick, rate)
  <2>1. \/ dispatch(tick, p, TRUE)
        \/ UNCHANGED <<vars, perp, cross, trade_buffers, accepted>>
    BY <1>1 DEF onSingle
  <2>2. tick.symbol # "BTCUSDT" => p = perp
    BY <1>1 DEF onSingle, StreamUpdate
  <2>3. PerpGood(p)
    BY StreamGood
  <2> HIDE DEF p
  <2>4. p \in PerpRecords
    BY <2>3 DEF PerpGood
  <2>5. UNCHANGED <<pending, bybit_quote, alive>>
    BY <1>1 DEF onSingle
  <2>6. ASSUME dispatch(tick, p, TRUE) PROVE Dispatched(tick, p)
    BY <2>2, <2>3, <2>6 DEF Dispatched
  <2> QED
    BY <2>1, <2>4, <2>5, <2>6
<1>2. ASSUME NEW n \in 1 .. MaxBatch, NEW entries \in [1 .. n -> Entries], onBatch(entries)
      PROVE  /\ pending' \in Seq(Entries) /\ UNCHANGED <<bybit_quote, alive>>
             /\ UNCHANGED <<vars, perp, cross, trade_buffers, accepted>>
  <2>1. n \in Nat
    BY FeedAssumption
  <2>2. entries \in Seq(Entries)
    BY <2>1
  <2> QED
    BY <1>2, <2>2 DEF onBatch
<1>3. CASE entryDone
  <2>1. pending # <<>> /\ pending' = Tail(pending) /\ UNCHANGED <<bybit_quote, alive>>
        /\ dispatch(Head(pending).tick, perp, FALSE)
    BY <1>3 DEF entryDone
  <2>2. Head(pending) \in Entries /\ pending' \in Seq(Entries)
    BY <1>0, <2>1
  <2>3. Head(pending).tick \in Ticks
    BY <2>2 DEF Entries
  <2>4. perp \in PerpRecords /\ Dispatched(Head(pending).tick, perp)
    BY <2>1 DEF Dispatched, PerpGood
  <2> QED
    BY <1>0, <2>1, <2>2, <2>3, <2>4
<1>4. CASE entryThrows
  BY <1>0, <1>4 DEF entryThrows
<1>5. CASE entryAsserts \/ bybitAsserts
  BY <1>0, <1>5 DEF entryAsserts, bybitAsserts
<1>6. ASSUME NEW symbol \in {"BTCUSDT", "ETHUSDT"}, onBybit(symbol)
      PROVE  /\ bybit_quote' \in BOOLEAN /\ UNCHANGED <<pending, alive>>
             /\ UNCHANGED <<vars, perp, cross, trade_buffers, accepted>>
  BY <1>0, <1>6 DEF onBybit
<1>7. CASE UNCHANGED allVars
  BY <1>0, <1>7 DEF allVars, feedVars
<1> QED
  BY <1>0, <1>1, <1>2, <1>3, <1>4, <1>5, <1>6, <1>7 DEF FeedNext

\* What handing over a tick does to each of the consumers.
LEMMA DispatchedCore ==
  ASSUME NEW tick \in Ticks, NEW p, Dispatched(tick, p)
  PROVE  CoreStep
<1>1. PICK compare \in BOOLEAN : dispatch(tick, p, compare)
  BY DEF Dispatched
<1>2. CASE tick.symbol \in Legs /\ update(tick.symbol, tick.price, tick.ts)
  BY <1>2, TickFields DEF CoreStep
<1>3. CASE tick.symbol = "ETHUSDT" /\ compareToReal(tick.price, tick.ts)
  BY <1>3, TickFields DEF CoreStep
<1>4. CASE missingFeed \/ UNCHANGED vars
  BY <1>4 DEF CoreStep, missingFeed
<1> QED
  BY <1>1, <1>2, <1>3, <1>4 DEF dispatch

\* The monitor keeps its invariant.
LEMMA DispatchedPerp ==
  ASSUME NEW tick \in Ticks, NEW p, Dispatched(tick, p)
  PROVE  /\ PerpGood(perp')
         /\ tick.symbol = "BTCUSDT" => perp'.spot = tick.price
         /\ tick.symbol # "BTCUSDT" => perp' = perp
<1>1. perp' = IF tick.symbol = "BTCUSDT" THEN updateSpot(p, tick.price) ELSE p
  BY DEF Dispatched, dispatch
<1>2. PerpGood(p) /\ tick.price \in Nat /\ (tick.symbol # "BTCUSDT" => p = perp)
  BY TickFields DEF Dispatched
<1>3. CASE tick.symbol = "BTCUSDT"
  BY <1>1, <1>2, <1>3, SpotGood
<1>4. CASE tick.symbol # "BTCUSDT"
  BY <1>1, <1>2, <1>4
<1> QED
  BY <1>3, <1>4

\* push_back and pop_front leave a buffer of ticks that ends with the new one.
LEMMA PushLast ==
  ASSUME NEW buf \in Seq(Ticks), NEW tick \in Ticks
  PROVE  /\ Push(buf, tick) \in Seq(Ticks) /\ Push(buf, tick) # <<>>
         /\ Last(Push(buf, tick)) = tick
<1> DEFINE b == Append(buf, tick)
           n == Len(buf)
<1>1. b \in Seq(Ticks) /\ Len(b) = n + 1 /\ b[n + 1] = tick /\ n \in Nat
  OBVIOUS
<1>2. MaxBuffer \in Nat \ {0}
  BY FeedAssumption
<1>3. Push(buf, tick) = IF n + 1 > MaxBuffer THEN Tail(b) ELSE b
  BY <1>1 DEF Push
<1> HIDE DEF b, n
<1>4. CASE n + 1 > MaxBuffer
  <2>1. n >= 1 /\ b # <<>>
    BY <1>1, <1>2, <1>4
  <2>2. Tail(b) \in Seq(Ticks) /\ Len(Tail(b)) = n
    BY <1>1, <2>1
  <2>3. Tail(b)[n] = b[n + 1]
    BY <1>1, <2>1
  <2>4. Last(Tail(b)) = tick
    BY <1>1, <2>2, <2>3, Zenon DEF Last
  <2>5. Tail(b) # <<>>
    <3> SUFFICES ASSUME Tail(b) = <<>> PROVE FALSE
      OBVIOUS
    <3>1. Len(<<>>) = 0
      OBVIOUS
    <3>2. n # 0
      BY <1>1, <2>1
    <3> QED
      BY <2>2, <3>1, <3>2, Zenon
  <2> QED
    BY <1>3, <1>4, <2>2, <2>4, <2>5
<1>5. CASE ~(n + 1 > MaxBuffer)
  BY <1>1, <1>3, <1>5 DEF Last
<1> QED
  BY <1>4, <1>5

\* The types.
LEMMA FeedTypeStep ==
  ASSUME FeedTypeOK, PerpGood(perp), [FeedNext]_allVars
  PROVE  FeedTypeOK' /\ PerpGood(perp')
<1>0. pending' \in Seq(Entries) /\ alive' \in BOOLEAN /\ bybit_quote' \in BOOLEAN
  BY FeedCases
<1>1. CASE UNCHANGED <<vars, perp, cross, trade_buffers, accepted>>
  BY <1>0, <1>1 DEF FeedTypeOK, PerpTypeOK
<1>2. ASSUME NEW tick \in Ticks, NEW p, Dispatched(tick, p)
      PROVE  FeedTypeOK' /\ PerpGood(perp')
  <2>1. PerpGood(perp')
    BY <1>2, DispatchedPerp
  <2>2. PerpTypeOK'
    BY <2>1 DEF PerpGood, PerpTypeOK
  <2>3. tick.symbol \in TickSymbols /\ tick.price \in Nat
    BY TickFields
  <2>4. /\ trade_buffers' = [trade_buffers EXCEPT ![tick.symbol] = Push(@, tick)]
        /\ accepted' = [accepted EXCEPT ![tick.symbol] = Append(@, tick)]
        /\ \/ UNCHANGED cross
           \/ cross' = [cross EXCEPT !["Binance"] = [price |-> tick.price, ready |-> TRUE]]
    BY <1>2 DEF Dispatched, dispatch, crossUpdate
  <2>5. trade_buffers' \in [TickSymbols -> Seq(Ticks)]
    <3>1. Push(trade_buffers[tick.symbol], tick) \in Seq(Ticks)
      BY <2>3, PushLast DEF FeedTypeOK
    <3> QED
      BY <2>4, <3>1 DEF FeedTypeOK
  <2>6. accepted' \in [TickSymbols -> Seq(Ticks)]
    <3>1. Append(accepted[tick.symbol], tick) \in Seq(Ticks)
      BY <2>3 DEF FeedTypeOK
    <3> QED
      BY <2>4, <3>1 DEF FeedTypeOK
  <2>7. cross' \in [Venues -> [price : Nat, ready : BOOLEAN]]
    <3>1. [price |-> tick.price, ready |-> TRUE] \in [price : Nat, ready : BOOLEAN]
      BY <2>3
    <3>2. cross \in [Venues -> [price : Nat, ready : BOOLEAN]]
      BY DEF FeedTypeOK
    <3> QED
      BY <2>4, <3>1, <3>2
  <2> QED
    BY <1>0, <2>1, <2>2, <2>5, <2>6, <2>7 DEF FeedTypeOK
<1> QED
  BY <1>1, <1>2, FeedCases

\* The types hold in every reachable state, and so does the monitor's invariant.
LEMMA FeedTypes == FeedSpec => [](FeedTypeOK /\ PerpGood(perp))
<1>1. FeedInit => FeedTypeOK /\ PerpGood(perp)
  <2> SUFFICES ASSUME FeedInit PROVE FeedTypeOK /\ PerpGood(perp)
    OBVIOUS
  <2>1. PerpGood(perp)
    BY PerpStartGood DEF FeedInit, PerpInit
  <2>2. PerpTypeOK
    BY <2>1 DEF PerpGood, PerpTypeOK
  <2>3. cross \in [Venues -> [price : Nat, ready : BOOLEAN]]
    BY DEF FeedInit
  <2>4. trade_buffers \in [TickSymbols -> Seq(Ticks)] /\ accepted \in [TickSymbols -> Seq(Ticks)]
    BY DEF FeedInit
  <2>5. pending \in Seq(Entries)
    BY DEF FeedInit
  <2>6. alive \in BOOLEAN /\ bybit_quote \in BOOLEAN
    BY Zenon DEF FeedInit
  <2> QED
    BY <2>1, <2>2, <2>3, <2>4, <2>5, <2>6 DEF FeedTypeOK
<1>2. FeedTypeOK /\ PerpGood(perp) /\ [FeedNext]_allVars => FeedTypeOK' /\ PerpGood(perp')
  BY FeedTypeStep
<1>3. PerpGood(perp)' <=> PerpGood(perp')
  OBVIOUS
<1> QED
  BY <1>1, <1>2, <1>3, PTL DEF FeedSpec

\* src/main.cpp, on_message, and src/bybit_clean.cpp: the handlers' state keeps its
\* types, wherever a batch breaks off.
THEOREM FeedTypeCorrect == FeedSpec => []FeedTypeOK
  BY FeedTypes, PTL
-----------------------------------------------------------------------------
\* The components under the handlers.

\* The handlers use the strategy core through its two operations only.
LEMMA FeedCore == FeedSpec => CoreSpec
<1>1. FeedInit => SynthInit
  BY DEF FeedInit
<1>2. FeedTypeOK /\ PerpGood(perp) /\ [FeedNext]_allVars => [CoreStep]_vars
  <2> SUFFICES ASSUME FeedTypeOK, PerpGood(perp), [FeedNext]_allVars PROVE [CoreStep]_vars
    OBVIOUS
  <2>1. CASE UNCHANGED <<vars, perp, cross, trade_buffers, accepted>>
    BY <2>1
  <2>2. CASE \E tick \in Ticks, p \in PerpRecords : Dispatched(tick, p)
    BY <2>2, DispatchedCore
  <2> QED
    BY <2>1, <2>2, FeedCases
<1> QED
  BY <1>1, <1>2, FeedTypes, PTL DEF FeedSpec, CoreSpec

\* src/main.cpp, on_message, with SyntheticSpotSynth.hpp: what is proved of the core
\* holds with the handlers in front of it, for both paths, in any order of ticks and
\* streams, and wherever a batch breaks off.
THEOREM CoreUnderFeed ==
  FeedSpec => [](/\ WindowIsRecentDeltas /\ NoMissedOpportunity /\ SignalJustified
                 /\ SpikeNeedsRecentDelta)
<1>1. SynthInv => WindowIsRecentDeltas /\ NoMissedOpportunity /\ SignalJustified
  BY DEF SynthInv
<1> QED
  BY <1>1, FeedCore, SynthInvariant, CoreSpikes, PTL

\* The same for the engines behind the core: cooldown, ledger, statistics and files keep
\* their promises under the handlers.
THEOREM EnginesUnderFeed == FeedSpec => []EnginesKeepPromises
  BY FeedCore, CorePromises

\* The same for the two files: what a leg tick may be logged with, and that every row
\* carries the latest quote compared, although the batch path compares none.
THEOREM FilesUnderFeed == FeedSpec => UpdateLogsOnlySynced /\ RowsUseLatestQuote
  BY FeedCore, CoreSynced, CoreQuotes

\* And for the money, with the snapshot file and the ledger attached: every signal is
\* traded once, and a trade that earns money was made on a gap larger than its slippage.
THEOREM TradesUnderFeed ==
  {"snapshot", "pnl"} \subseteq Wired => (FeedSpec => []SignalsTraded /\ ProfitNeedsGap)
  BY FeedCore, CoreTraded, CoreProfitNeeds

\* src/main.cpp, on_message, with SyntheticPerpEngine.hpp: what is proved of the monitor
\* holds although a message of the funding or mark-price stream updates the spot price
\* in the same call.
THEOREM PerpUnderFeed == FeedSpec => [](AlertsGenuineBeforeFunding /\ NoMissedMark)
<1>1. PerpGood(perp) => AlertsGenuineBeforeFunding /\ NoMissedMark
  BY PerpGoodImplies
<1> QED
  BY <1>1, FeedTypes, PTL
-----------------------------------------------------------------------------
\* The consumers of one tick agree.

\* What the legs and the venue price are after a tick.
LEMMA DispatchedState ==
  ASSUME FeedTypeOK, SynthTypeOK, NEW tick \in Ticks, NEW p, Dispatched(tick, p)
  PROVE  /\ \A s \in Legs : leg'[s] = IF s = tick.symbol
                                      THEN [price |-> tick.price, ts |-> tick.ts, ready |-> TRUE]
                                      ELSE leg[s]
         /\ cross'["Binance"] = IF tick.symbol = "ETHUSDT"
                                THEN [price |-> tick.price, ready |-> TRUE]
                                ELSE cross["Binance"]
         /\ \A s \in TickSymbols : /\ trade_buffers'[s] = IF s = tick.symbol
                                                          THEN Push(trade_buffers[s], tick)
                                                          ELSE trade_buffers[s]
                                   /\ accepted'[s] = IF s = tick.symbol
                                                     THEN Append(accepted[s], tick)
                                                     ELSE accepted[s]
<1>0. /\ leg \in [Legs -> [price : Nat, ts : {0} \cup Timestamps, ready : BOOLEAN]]
      /\ cross \in [Venues -> [price : Nat, ready : BOOLEAN]] /\ "Binance" \in Venues
      /\ trade_buffers \in [TickSymbols -> Seq(Ticks)] /\ accepted \in [TickSymbols -> Seq(Ticks)]
  BY DEF FeedTypeOK, SynthTypeOK, Venues
<1>1. PICK compare \in BOOLEAN : dispatch(tick, p, compare)
  BY DEF Dispatched
<1>2. \A s \in TickSymbols :
        /\ trade_buffers'[s] = IF s = tick.symbol THEN Push(trade_buffers[s], tick)
                                                  ELSE trade_buffers[s]
        /\ accepted'[s] = IF s = tick.symbol THEN Append(accepted[s], tick) ELSE accepted[s]
  BY <1>0, <1>1 DEF dispatch
<1>3. "ETHUSDT" \notin Legs
  BY DEF Legs
<1>4. CASE tick.symbol \in Legs /\ update(tick.symbol, tick.price, tick.ts) /\ UNCHANGED cross
  <2>1. leg' = [leg EXCEPT ![tick.symbol] = [price |-> tick.price, ts |-> tick.ts, ready |-> TRUE]]
    BY <1>4 DEF update
  <2> QED
    BY <1>0, <1>2, <1>3, <1>4, <2>1
<1>5. CASE /\ tick.symbol = "ETHUSDT" /\ crossUpdate("Binance", tick.price)
           /\ compareToReal(tick.price, tick.ts) \/ missingFeed \/ UNCHANGED vars
  <2>1. leg' = leg
    BY <1>5 DEF compareToReal, missingFeed, vars, synthVars
  <2> QED
    BY <1>0, <1>2, <1>3, <1>5, <2>1 DEF crossUpdate
<1> QED
  BY <1>1, <1>4, <1>5 DEF dispatch

\* Every step keeps the consumers in agreement.
LEMMA AgreeStep ==
  ASSUME FeedTypeOK, PerpGood(perp), SynthTypeOK, EnginesAgree, [FeedNext]_allVars
  PROVE  EnginesAgree'
<1>1. CASE UNCHANGED <<vars, perp, cross, trade_buffers, accepted>>
  BY <1>1 DEF EnginesAgree, getPrice, vars, synthVars
<1>2. ASSUME NEW tick \in Ticks, NEW p, Dispatched(tick, p) PROVE EnginesAgree'
  <2>0. /\ tick.symbol \in TickSymbols /\ "ETHUSDT" \in TickSymbols /\ "BTCUSDT" \in Legs
        /\ Legs \subseteq TickSymbols /\ "ETHUSDT" \notin Legs
    BY TickFields DEF TickSymbols, Legs
  <2>1. trade_buffers \in [TickSymbols -> Seq(Ticks)]
    BY DEF FeedTypeOK
  <2>2. trade_buffers[tick.symbol] \in Seq(Ticks)
    BY <2>0, <2>1
  <2>3. Last(Push(trade_buffers[tick.symbol], tick)) = tick
    BY <2>2, PushLast
  <2>4. ASSUME NEW s \in Legs, trade_buffers'[s] # <<>>
        PROVE  /\ leg'[s].ready /\ leg'[s].price = Last(trade_buffers'[s]).price
               /\ leg'[s].ts = Last(trade_buffers'[s]).ts
    <3>1. CASE s = tick.symbol
      <4>1. leg'[s] = [price |-> tick.price, ts |-> tick.ts, ready |-> TRUE]
        BY <1>2, <3>1, DispatchedState
      <4>2. Last(trade_buffers'[s]) = tick
        BY <1>2, <2>0, <2>3, <3>1, DispatchedState
      <4> QED
        BY <4>1, <4>2
    <3>2. CASE s # tick.symbol
      <4>1. leg'[s] = leg[s] /\ trade_buffers'[s] = trade_buffers[s]
        BY <1>2, <2>0, <3>2, DispatchedState
      <4> QED
        BY <2>4, <4>1 DEF EnginesAgree
    <3> QED
      BY <3>1, <3>2
  <2>5. perp'.spot = leg'["BTCUSDT"].price
    <3>1. CASE tick.symbol = "BTCUSDT"
      <4>1. leg'["BTCUSDT"] = [price |-> tick.price, ts |-> tick.ts, ready |-> TRUE]
        BY <1>2, <2>0, <3>1, DispatchedState
      <4>2. perp'.spot = tick.price
        BY <1>2, <3>1, DispatchedPerp
      <4> QED
        BY <4>1, <4>2
    <3>2. CASE tick.symbol # "BTCUSDT"
      <4>1. leg'["BTCUSDT"] = leg["BTCUSDT"]
        BY <1>2, <2>0, <3>2, DispatchedState
      <4>2. perp' = perp
        BY <1>2, <3>2, DispatchedPerp
      <4> QED
        BY <4>1, <4>2 DEF EnginesAgree
    <3> QED
      BY <3>1, <3>2
  <2>6. ASSUME trade_buffers'["ETHUSDT"] # <<>>
        PROVE  (IF cross'["Binance"].ready THEN cross'["Binance"].price ELSE 0)
                 = Last(trade_buffers'["ETHUSDT"]).price
    <3>1. CASE tick.symbol = "ETHUSDT"
      <4>1. cross'["Binance"] = [price |-> tick.price, ready |-> TRUE]
        BY <1>2, <3>1, DispatchedState
      <4>2. Last(trade_buffers'["ETHUSDT"]) = tick
        BY <1>2, <2>0, <2>3, <3>1, DispatchedState
      <4> QED
        BY <4>1, <4>2
    <3>2. CASE tick.symbol # "ETHUSDT"
      <4>1. cross'["Binance"] = cross["Binance"]
            /\ trade_buffers'["ETHUSDT"] = trade_buffers["ETHUSDT"]
        BY <1>2, <2>0, <3>2, DispatchedState
      <4> QED
        BY <2>6, <4>1 DEF EnginesAgree, getPrice
    <3> QED
      BY <3>1, <3>2
  <2> QED
    BY <2>4, <2>5, <2>6 DEF EnginesAgree, getPrice
<1> QED
  BY <1>1, <1>2, FeedCases

\* src/main.cpp lines 74-83 and 118-128: the core's legs, the monitor's spot price and the venue
\* price are those of the newest tick in the symbol's buffer.
THEOREM EnginesAgreeCorrect == FeedSpec => []EnginesAgree
<1>1. FeedInit => EnginesAgree
  <2> SUFFICES ASSUME FeedInit PROVE EnginesAgree
    OBVIOUS
  <2>1. /\ \A s \in TickSymbols : trade_buffers[s] = <<>>
        /\ perp.spot = 0 /\ leg["BTCUSDT"].price = 0
    BY DEF FeedInit, PerpInit, PerpStart, SynthInit, Legs
  <2> QED
    BY <2>1 DEF EnginesAgree, TickSymbols
<1>2. FeedTypeOK /\ PerpGood(perp) /\ SynthTypeOK /\ EnginesAgree /\ [FeedNext]_allVars
        => EnginesAgree'
  BY AgreeStep
<1> QED
  BY <1>1, <1>2, FeedTypes, FeedCore, CoreTypes, PTL DEF FeedSpec
-----------------------------------------------------------------------------
\* The trade buffers.

\* The last MaxBuffer ticks of a sequence.
Recent(ticks) ==
  LET n == Ledger!Smaller(MaxBuffer, Len(ticks))
  IN  [i \in 1 .. n |-> ticks[Len(ticks) - n + i]]

\* A function on 1 .. n is a sequence of length n.
LEMMA SeqOfFunction ==
  ASSUME NEW S, NEW n \in Nat, NEW f \in [1 .. n -> S]
  PROVE  f \in Seq(S) /\ Len(f) = n
  OBVIOUS

\* A sequence is the function of its elements.
LEMMA FunctionOfSeq ==
  ASSUME NEW S, NEW n \in Nat, NEW seq \in Seq(S), Len(seq) = n
  PROVE  seq = [i \in 1 .. n |-> seq[i]]
  OBVIOUS

\* Push keeps the most recent ticks.
LEMMA PushRecent ==
  ASSUME NEW ticks \in Seq(Ticks), NEW tick \in Ticks
  PROVE  Push(Recent(ticks), tick) = Recent(Append(ticks, tick))
<1> DEFINE m == Len(ticks)
           n == Ledger!Smaller(MaxBuffer, m)
           buf == Recent(ticks)
           b == Append(buf, tick)
           new == Append(ticks, tick)
<1>1. MaxBuffer \in Nat \ {0} /\ m \in Nat /\ n \in Nat /\ n <= m
      /\ n = IF MaxBuffer <= m THEN MaxBuffer ELSE m
  BY FeedAssumption DEF Ledger!Smaller
<1>2. Len(new) = m + 1 /\ new[m + 1] = tick /\ \A i \in 1 .. m : new[i] = ticks[i]
  OBVIOUS
<1>3. buf = [i \in 1 .. n |-> ticks[m - n + i]]
  BY DEF Recent
<1>4. \A i \in 1 .. n : m - n + i \in 1 .. m /\ ticks[m - n + i] \in Ticks
  <2> TAKE i \in 1 .. n
  <2>1. m - n + i \in 1 .. m
    BY <1>1
  <2> QED
    BY <2>1
<1> HIDE DEF m, n, buf, new
<1>5. buf \in Seq(Ticks) /\ Len(buf) = n
  <2>1. buf \in [1 .. n -> Ticks]
    BY <1>3, <1>4
  <2> QED
    BY <1>1, <2>1, SeqOfFunction
<1>6. b \in Seq(Ticks) /\ Len(b) = n + 1
      /\ b[n + 1] = tick /\ \A i \in 1 .. n : b[i] = ticks[m - n + i]
  BY <1>1, <1>3, <1>5
<1>7. \A i \in 1 .. n + 1 : b[i] = new[m - n + i]
  <2> TAKE i \in 1 .. n + 1
  <2>1. CASE i = n + 1
    <3>1. m - n + i = m + 1
      BY <1>1, <2>1
    <3> QED
      BY <1>2, <1>6, <2>1, <3>1
  <2>2. CASE i \in 1 .. n
    <3>1. m - n + i \in 1 .. m
      BY <1>4, <2>2
    <3> QED
      BY <1>2, <1>6, <2>2, <3>1
  <2>3. i = n + 1 \/ i \in 1 .. n
    BY <1>1
  <2> QED
    BY <2>1, <2>2, <2>3, Zenon
<1>8. Push(buf, tick) = IF n + 1 > MaxBuffer THEN Tail(b) ELSE b
  BY <1>6 DEF Push
<1> HIDE DEF b
<1>9. CASE m < MaxBuffer
  <2>1. n = m /\ Ledger!Smaller(MaxBuffer, m + 1) = m + 1 /\ ~(n + 1 > MaxBuffer)
    BY <1>1, <1>9 DEF Ledger!Smaller
  <2>2. b = [i \in 1 .. m + 1 |-> b[i]]
    BY <1>1, <1>6, <2>1, FunctionOfSeq
  <2>3. \A i \in 1 .. m + 1 : b[i] = new[(m + 1) - (m + 1) + i]
    <3> TAKE i \in 1 .. m + 1
    <3>1. m - n + i = (m + 1) - (m + 1) + i
      BY <1>1, <2>1
    <3> QED
      BY <1>7, <2>1, <3>1
  <2>4. b = [i \in 1 .. m + 1 |-> new[(m + 1) - (m + 1) + i]]
    BY <2>2, <2>3
  <2>5. Recent(new) = [i \in 1 .. m + 1 |-> new[(m + 1) - (m + 1) + i]]
    BY <1>2, <2>1 DEF Recent
  <2>6. Push(buf, tick) = b
    BY <1>8, <2>1
  <2> QED
    BY <2>4, <2>5, <2>6 DEF buf, new
<1>10. CASE MaxBuffer <= m
  <2>1. n = MaxBuffer /\ Ledger!Smaller(MaxBuffer, m + 1) = n /\ n + 1 > MaxBuffer /\ n >= 1
    BY <1>1, <1>10 DEF Ledger!Smaller
  <2>2. Len(b) # 0 /\ b # <<>>
    BY <1>1, <1>6
  <2>3. Tail(b) \in Seq(Ticks) /\ Len(Tail(b)) = n /\ \A i \in 1 .. n : Tail(b)[i] = b[i + 1]
    BY <1>1, <1>6, <2>2
  <2>4. Tail(b) = [i \in 1 .. n |-> Tail(b)[i]]
    BY <1>1, <2>3, FunctionOfSeq
  <2>5. \A i \in 1 .. n : Tail(b)[i] = new[(m + 1) - n + i]
    <3> TAKE i \in 1 .. n
    <3>1. i + 1 \in 1 .. n + 1 /\ m - n + (i + 1) = (m + 1) - n + i
      BY <1>1
    <3> QED
      BY <1>7, <2>3, <3>1
  <2>6. Tail(b) = [i \in 1 .. n |-> new[(m + 1) - n + i]]
    BY <2>4, <2>5
  <2>7. Recent(new) = [i \in 1 .. n |-> new[(m + 1) - n + i]]
    BY <1>2, <2>1 DEF Recent
  <2>8. Push(buf, tick) = Tail(b)
    BY <1>8, <2>1
  <2> QED
    BY <2>6, <2>7, <2>8 DEF buf, new
<1> QED
  BY <1>1, <1>9, <1>10

\* Every step keeps the buffers recent.
LEMMA RecentStep ==
  ASSUME FeedTypeOK, PerpGood(perp), SynthTypeOK, [FeedNext]_allVars,
         \A s \in TickSymbols : trade_buffers[s] = Recent(accepted[s])
  PROVE  \A s \in TickSymbols : trade_buffers'[s] = Recent(accepted'[s])
<1>1. CASE UNCHANGED <<vars, perp, cross, trade_buffers, accepted>>
  BY <1>1
<1>2. ASSUME NEW tick \in Ticks, NEW p, Dispatched(tick, p), NEW s \in TickSymbols
      PROVE  trade_buffers'[s] = Recent(accepted'[s])
  <2>1. accepted[s] \in Seq(Ticks) /\ trade_buffers[s] = Recent(accepted[s])
    BY DEF FeedTypeOK
  <2>2. CASE s = tick.symbol
    <3>1. /\ trade_buffers'[s] = Push(trade_buffers[s], tick)
          /\ accepted'[s] = Append(accepted[s], tick)
      BY <1>2, <2>2, DispatchedState
    <3>2. Push(Recent(accepted[s]), tick) = Recent(Append(accepted[s], tick))
      BY <2>1, PushRecent
    <3> QED
      BY <2>1, <3>1, <3>2
  <2>3. CASE s # tick.symbol
    BY <1>2, <2>1, <2>3, DispatchedState
  <2> QED
    BY <2>2, <2>3
<1> QED
  BY <1>1, <1>2, FeedCases

\* src/main.cpp lines 85-87 and 130-132: a trade buffer holds the last MaxBuffer ticks of its
\* symbol, in order and without a gap.
THEOREM BuffersRecentCorrect == FeedSpec => []BuffersRecent
<1> DEFINE Inv == \A s \in TickSymbols : trade_buffers[s] = Recent(accepted[s])
<1>1. FeedInit => Inv
  <2> SUFFICES ASSUME FeedInit, NEW s \in TickSymbols PROVE trade_buffers[s] = Recent(accepted[s])
    OBVIOUS
  <2>1. trade_buffers[s] = <<>> /\ accepted[s] = <<>> /\ Len(accepted[s]) = 0
    BY DEF FeedInit
  <2>2. Ledger!Smaller(MaxBuffer, 0) = 0
    BY FeedAssumption DEF Ledger!Smaller
  <2> QED
    BY <2>1, <2>2 DEF Recent
<1>2. FeedTypeOK /\ PerpGood(perp) /\ SynthTypeOK /\ Inv /\ [FeedNext]_allVars => Inv'
  BY RecentStep DEF Recent, Ledger!Smaller
<1>3. Inv => BuffersRecent
  BY DEF BuffersRecent, Recent
<1> QED
  BY <1>1, <1>2, <1>3, FeedTypes, FeedCore, CoreTypes, PTL DEF FeedSpec
=============================================================================
