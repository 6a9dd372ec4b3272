---------------------------- MODULE FeedHandlers ----------------------------
(***************************************************************************)
(* The two message handlers and what they drive: on_message of             *)
(* src/main.cpp, which feeds the strategy core (SyntheticSpotSynth), the   *)
(* perpetual monitor (SyntheticPerpEngine), the cross-exchange prices      *)
(* (CrossExchangePair) and the trade buffers, and the Bybit handler of     *)
(* src/bybit_clean.cpp.  A payload is reduced to the tick it carries, its  *)
(* stream and the keys it has.                                             *)
(***************************************************************************)
EXTENDS SyntheticSpotSynth, SyntheticPerpEngine

CONSTANTS KeySets,      \* sets of keys that single messages have
          MaxBuffer,    \* max_buffer_size
          MaxBatch,     \* bound: entries of a batch
          MaxTicks      \* bound: ticks accepted

ASSUME FeedAssumption ==
  /\ KeySets \subseteq SUBSET {"s", "p", "q", "T", "r"}
  /\ Timestamps \subseteq PerpTimes   \* the handlers pass on the ticks' times
  /\ MaxBuffer \in Nat \ {0} /\ MaxBatch \in Nat /\ MaxTicks \in Nat

VARIABLES cross,          \* ethCross: venue -> price and ready flag
          trade_buffers,  \* symbol -> its last ticks
          pending,        \* entries of the batch being handled
          accepted,       \* symbol -> every tick taken over from Binance
          bybit_quote,    \* has Bybit delivered an ETHUSDT tick?
          alive
feedVars == <<cross, trade_buffers, pending, accepted, bybit_quote, alive>>
allVars == <<vars, perp, feedVars>>

TickSymbols == Legs \cup {"ETHUSDT"}
Venues == {"Binance", "Bybit"}
Ticks == UNION {[symbol : {s}, price : IF s = "ETHUSDT" THEN RealPrices ELSE LegPrices[s],
                 ts : Timestamps] : s \in TickSymbols}

FeedInit ==
  /\ SynthInit /\ PerpInit
  /\ cross = [v \in Venues |-> [price |-> 0, ready |-> FALSE]]
  /\ trade_buffers = [s \in TickSymbols |-> <<>>] /\ accepted = trade_buffers
  /\ pending = <<>> /\ bybit_quote = FALSE
  /\ alive = TRUE

\* CrossExchangePair::update and getPrice
crossUpdate(venue, price) == cross' = [cross EXCEPT ![venue] = [price |-> price, ready |-> TRUE]]
getPrice(venue) == IF cross[venue].ready THEN cross[venue].price ELSE 0

\* Mutant: a full buffer is emptied by one too late.
Push_Late(buf, tick) ==
  LET b == Append(buf, tick) IN IF Len(buf) > MaxBuffer THEN Tail(b) ELSE b

\* push_back, then pop_front if the buffer has grown beyond its limit.
Push(buf, tick) ==
  LET b == Append(buf, tick) IN IF Len(b) > MaxBuffer THEN Tail(b) ELSE b

\* "Update engines" by the tick's symbol, then store the tick.  p is perp after
\* the stream's own update; only the single-message path compares quotes.
dispatch(tick, p, compare) ==
  /\ perp' = IF tick.symbol = "BTCUSDT" THEN updateSpot(p, tick.price) ELSE p
  /\ \/ /\ tick.symbol \in Legs
        /\ update(tick.symbol, tick.price, tick.ts) /\ UNCHANGED cross
     \/ /\ tick.symbol = "ETHUSDT"
        /\ crossUpdate("Binance", tick.price)
        /\ IF compare THEN compareToReal(tick.price, tick.ts) \/ missingFeed
                      ELSE UNCHANGED vars
  /\ trade_buffers' = [trade_buffers EXCEPT ![tick.symbol] = Push(@, tick)]
  /\ accepted' = [accepted EXCEPT ![tick.symbol] = Append(@, tick)]

\* Mutant: the arguments of updateFunding are swapped.
StreamUpdate_Swapped(stream, tick, rate) ==
  CASE stream = "trade" -> perp
    [] stream = "fundingRate" -> updateFunding(perp, tick.ts, rate)
    [] stream = "markPrice" -> updateMark(perp, tick.price, tick.ts)

\* What the stream itself updates.
StreamUpdate(stream, tick, rate) ==
  CASE stream = "trade" -> perp
    [] stream = "fundingRate" -> updateFunding(perp, rate, tick.ts)
    [] stream = "markPrice" -> updateMark(perp, tick.price, tick.ts)

\* The keys read before anything is updated; one that is missing throws.
KeysRead(stream) == {"s", "p", "q", "T"} \cup (IF stream = "fundingRate" THEN {"r"} ELSE {})

\* on_message with a single tick.  The funding and mark-price streams are
\* BTCUSDT's; their messages go on through the symbol's branch like trades.
onSingle(stream, tick, rate, keys) ==
  /\ alive /\ pending = <<>>
  /\ stream # "trade" => tick.symbol = "BTCUSDT"
  /\ \/ /\ KeysRead(stream) \subseteq keys
        /\ dispatch(tick, StreamUpdate(stream, tick, rate), TRUE)
     \/ /\ ~(KeysRead(stream) \subseteq keys)
        /\ UNCHANGED <<vars, perp, cross, trade_buffers, accepted>>
  /\ UNCHANGED <<pending, bybit_quote, alive>>

\* on_message with a data array: an entry is fine, throws when it is parsed, or
\* lacks a key, which on a const entry is an assertion of the JSON library.
Entries == [tick : Ticks, fault : {"none", "throws", "asserts"}]
onBatch(entries) ==
  /\ alive /\ pending = <<>> /\ pending' = entries
  /\ UNCHANGED <<vars, perp, cross, trade_buffers, accepted, bybit_quote, alive>>

entryDone ==
  /\ alive /\ pending # <<>> /\ Head(pending).fault = "none"
  /\ dispatch(Head(pending).tick, perp, FALSE)
  /\ pending' = Tail(pending) /\ UNCHANGED <<bybit_quote, alive>>

\* Mutant: an engine is updated as soon as the price has been parsed.
entryThrows_Eager ==
  /\ alive /\ pending # <<>> /\ Head(pending).fault = "throws"
  /\ perp' = IF Head(pending).tick.symbol = "BTCUSDT"
             THEN updateSpot(perp, Head(pending).tick.price) ELSE perp
  /\ pending' = <<>>
  /\ UNCHANGED <<vars, cross, trade_buffers, accepted, bybit_quote, alive>>

\* The exception is caught outside the loop: the rest of the batch is lost.
entryThrows ==
  /\ alive /\ pending # <<>> /\ Head(pending).fault = "throws"
  /\ pending' = <<>>
  /\ UNCHANGED <<vars, perp, cross, trade_buffers, accepted, bybit_quote, alive>>

entryAsserts ==
  /\ alive /\ pending # <<>> /\ Head(pending).fault = "asserts" /\ alive' = FALSE
  /\ UNCHANGED <<vars, perp, cross, trade_buffers, accepted, bybit_quote, pending>>

\* The Bybit handler parses its ticks; the callback main gave it is not called.
onBybit(symbol) ==
  /\ alive /\ bybit_quote' = (bybit_quote \/ symbol = "ETHUSDT")
  /\ UNCHANGED <<vars, perp, cross, trade_buffers, accepted, pending, alive>>

\* An entry of a Bybit message lacks a key that is read from it.
bybitAsserts ==
  /\ alive /\ alive' = FALSE
  /\ UNCHANGED <<vars, perp, cross, trade_buffers, accepted, bybit_quote, pending>>

TicksAccepted == Len(accepted["ETHBTC"]) + Len(accepted["BTCUSDT"]) + Len(accepted["ETHUSDT"])

FeedNext ==
  \/ \E stream \in {"trade", "fundingRate", "markPrice"}, tick \in Ticks, rate \in Rates,
        keys \in KeySets : TicksAccepted < MaxTicks /\ onSingle(stream, tick, rate, keys)
  \/ \E n \in 1 .. MaxBatch :
       n + TicksAccepted <= MaxTicks /\ \E entries \in [1 .. n -> Entries] : onBatch(entries)
  \/ entryDone \/ entryThrows \/ entryAsserts \/ bybitAsserts
  \/ \E symbol \in {"BTCUSDT", "ETHUSDT"} : onBybit(symbol)
FeedSpec == FeedInit /\ [][FeedNext]_allVars
-----------------------------------------------------------------------------
FeedTypeOK ==
  /\ PerpTypeOK
  /\ cross \in [Venues -> [price : Nat, ready : BOOLEAN]]
  /\ trade_buffers \in [TickSymbols -> Seq(Ticks)] /\ accepted \in [TickSymbols -> Seq(Ticks)]
  /\ pending \in Seq(Entries) /\ alive \in BOOLEAN /\ bybit_quote \in BOOLEAN

\* The four consumers of Binance ticks agree on the latest one of each symbol,
\* whichever path it came on and wherever a batch broke off: the strategy
\* core's legs, the perpetual monitor's spot price and the venue price are those
\* of the newest tick in the symbol's buffer.
EnginesAgree ==
  /\ \A s \in Legs : trade_buffers[s] # <<>> =>
       /\ leg[s].ready /\ leg[s].price = Last(trade_buffers[s]).price
       /\ leg[s].ts = Last(trade_buffers[s]).ts
  /\ perp.spot = leg["BTCUSDT"].price
  /\ trade_buffers["ETHUSDT"] # <<>> =>
       getPrice("Binance") = Last(trade_buffers["ETHUSDT"]).price

\* A trade buffer holds the last MaxBuffer ticks of its symbol, oldest first and
\* without a gap, through both paths of the handler.
BuffersRecent ==
  \A s \in TickSymbols :
    LET n == Ledger!Smaller(MaxBuffer, Len(accepted[s]))
    IN  trade_buffers[s] = [i \in 1 .. n |-> accepted[s][Len(accepted[s]) - n + i]]

\* "Thread to consume Bybit feed and update price streams" (main.cpp line 182).
BybitQuotesArrive == bybit_quote => getPrice("Bybit") > 0
=============================================================================
