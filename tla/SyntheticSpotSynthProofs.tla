---------------------- MODULE SyntheticSpotSynthProofs ----------------------
(***************************************************************************)
(* Proofs about the strategy core: no opportunity is missed, no signal is  *)
(* unjustified or left untraded, the rolling window follows the snapshot   *)
(* file, leg ticks are logged only when they are close in time, the two    *)
(* files agree on the latest quote, and everything keeps its type; the     *)
(* engines inside the core keep their promises, and the core implements    *)
(* their specifications; a spike has a large gap in its window; and a      *)
(* profit needs a gap that covers the slippage.                            *)
(***************************************************************************)
EXTENDS SyntheticSpotSynth, MachineIntsProofs, WellFoundedInduction, FiniteSetTheorems

Row == [ts : Timestamps, ethbtc : Int, btcusdt : Int, real : RealPrices,
        synthetic : Int, diff : Int]

\* The part of the state's types that the proofs below use.
CoreType ==
  /\ leg \in [Legs -> [price : Int, ts : {0} \cup Timestamps, ready : BOOLEAN]]
  /\ snapshot_log \in Seq(Row) /\ buffer \in Seq(Int)
  /\ DOMAIN last_trigger \subseteq {"ETHUSDT"}
  /\ fired \in [{"ETHUSDT"} -> Seq(Timestamps)]

\* The cooldown's state is the last signal.
LastSignal ==
  "ETHUSDT" \in DOMAIN last_trigger =>
    Signals # <<>> /\ last_trigger["ETHUSDT"] = Signals[Len(Signals)]

\* Timestamps and 0 are in the lower half of the type.
LEMMA LowerHalf ==
  ASSUME NEW t \in {0} \cup Timestamps
  PROVE  t \in 0 .. (Half - 1) /\ t \in Nat
<1>1. t = 0 \/ t \in 0 .. (Half - 1)
  BY SynthAssumption
<1> QED
  BY <1>1, HalfAssumption

\* A call of one of the core's operations, or none.  CoreSpec is the core under any
\* caller that uses it through these operations: the bounded SynthSpec, and the
\* feed handlers.
CoreStep == \/ \E symbol \in Legs, timestamp \in Timestamps :
                 \E price \in LegPrices[symbol] : update(symbol, price, timestamp)
            \/ \E real_price \in RealPrices, timestamp \in Timestamps :
                 compareToReal(real_price, timestamp)
            \/ UNCHANGED vars
CoreSpec == SynthInit /\ [][CoreStep]_vars

\* The steps of SynthSpec are such calls.
LEMMA SynthCore == SynthSpec => CoreSpec
<1>1. [SynthNext]_vars => [CoreStep]_vars
  BY DEF SynthNext, missingFeed, CoreStep
<1> QED
  BY <1>1, PTL DEF SynthSpec, CoreSpec

\* The cases of a call.
LEMMA CoreCases ==
  ASSUME [CoreStep]_vars
  PROVE  \/ \E symbol \in Legs, timestamp \in Timestamps :
              \E price \in LegPrices[symbol] : update(symbol, price, timestamp)
         \/ \E real_price \in RealPrices, timestamp \in Timestamps :
              compareToReal(real_price, timestamp)
         \/ UNCHANGED vars
  BY DEF CoreStep

\* The prices of a leg are integers.
LEMMA LegPriceInt ==
  ASSUME NEW symbol \in Legs, NEW price \in LegPrices[symbol]
  PROVE  price \in Int
  BY SynthAssumption

\* A tick of a leg changes neither the comparisons nor the signals.
LEMMA UpdateStep ==
  ASSUME CoreType, NEW symbol \in Legs, NEW timestamp \in Timestamps,
         NEW price \in LegPrices[symbol], update(symbol, price, timestamp)
  PROVE  CoreType' /\ UNCHANGED <<buffer, snapshot_log, evaluated, last_trigger, fired>>
<1>1. leg' = [leg EXCEPT ![symbol] = [price |-> price, ts |-> timestamp, ready |-> TRUE]]
  BY DEF update
<1>2. price \in Int
  BY LegPriceInt
<1>3. leg' \in [Legs -> [price : Int, ts : {0} \cup Timestamps, ready : BOOLEAN]]
  BY <1>1, <1>2 DEF CoreType
<1>4. UNCHANGED <<buffer, snapshot_log, evaluated, last_trigger, fired>>
  BY DEF update, arbVars
<1> QED
  BY <1>3, <1>4 DEF CoreType

\* What one comparison does, for the gap d it finds.
Compared(real_price, timestamp, d) ==
  /\ leg' = leg
  /\ buffer' = Add(buffer, d)
  /\ snapshot_log' = Logged("snapshot", snapshot_log,
       [ts |-> timestamp, ethbtc |-> leg["ETHBTC"].price, btcusdt |-> leg["BTCUSDT"].price,
        real |-> real_price, synthetic |-> Synthetic(leg), diff |-> d])
  /\ \/ /\ "arb" \in Wired /\ Abs(d) >= TriggerThreshold
        /\ Arb!CooldownPassed("ETHUSDT", timestamp)
        /\ last_trigger' = [s \in DOMAIN last_trigger \cup {"ETHUSDT"} |->
                              IF s = "ETHUSDT" THEN timestamp ELSE last_trigger[s]]
        /\ fired' = [fired EXCEPT !["ETHUSDT"] = Append(@, timestamp)]
     \/ /\ UNCHANGED <<last_trigger, fired>>
        /\ "arb" \in Wired /\ Abs(d) >= TriggerThreshold
             => ~Arb!CooldownPassed("ETHUSDT", timestamp)

\* compareToReal does what Compared says, for an integer gap.
LEMMA CompareStep ==
  ASSUME CoreType, NEW real_price \in RealPrices, NEW timestamp \in Timestamps,
         compareToReal(real_price, timestamp)
  PROVE  \E d \in Int : Compared(real_price, timestamp, d)
<1> DEFINE d == Synthetic(leg) - real_price
<1>1. d \in Int
  <2>1. leg["ETHBTC"].price \in Int /\ leg["BTCUSDT"].price \in Int
    BY DEF CoreType, Legs
  <2>2. real_price \in Int
    BY SynthAssumption
  <2> QED
    BY <2>1, <2>2 DEF Synthetic
<1>2. Compared(real_price, timestamp, d)
  BY DEF compareToReal, Compared, SnapshotRow, Opportunity, Arb!shouldTrigger, Arb!suppressed, arbVars
<1> QED
  BY <1>1, <1>2

\* The cooldown test, in true time.
LEMMA Cooldown ==
  ASSUME CoreType, LastSignal, NEW t \in Timestamps, "ETHUSDT" \in DOMAIN last_trigger
  PROVE  LET u == Signals[Len(Signals)]
         IN  /\ u \in Timestamps /\ Len(Signals) \in DOMAIN Signals
             /\ Arb!CooldownPassed("ETHUSDT", t) <=> (t > u + Arb!cooldown \/ t < u)
<1> DEFINE u == Signals[Len(Signals)]
<1>1. Signals \in Seq(Timestamps) /\ Signals # <<>> /\ last_trigger["ETHUSDT"] = u
  BY DEF CoreType, LastSignal, Signals
<1>2. u \in Timestamps /\ Len(Signals) \in DOMAIN Signals
  BY <1>1
<1>3. Arb!cooldown \in Nat /\ Arb!cooldown < Half
  BY SynthAssumption, HalfAssumption DEF Arb!cooldown
<1>4. t \in 0 .. (Half - 1) /\ u \in 0 .. (Half - 1)
  BY <1>2, LowerHalf
<1>5. USub(t, u) > Arb!cooldown <=> (t > u + Arb!cooldown \/ t < u)
  BY <1>3, <1>4, WrappedAge
<1> QED
  BY <1>1, <1>2, <1>5 DEF Arb!CooldownPassed, Arb!USub, USub

\* MispricingBuffer::add returns a sequence of deltas.
LEMMA AddType ==
  ASSUME NEW buf \in Seq(Int), NEW d \in Int
  PROVE  Add(buf, d) \in Seq(Int)
<1>1. Append(buf, d) \in Seq(Int)
  OBVIOUS
<1>2. Tail(Append(buf, d)) \in Seq(Int)
  <2>1. Len(Append(buf, d)) = Len(buf) + 1 /\ Len(buf) \in Nat
    OBVIOUS
  <2>2. Append(buf, d) # <<>>
    BY <2>1
  <2> QED
    BY <1>1, <2>2
<1> QED
  BY <1>1, <1>2 DEF Add

\* A comparison keeps the types.
LEMMA CompareType ==
  ASSUME CoreType, NEW real_price \in RealPrices, NEW timestamp \in Timestamps, NEW d \in Int,
         Compared(real_price, timestamp, d)
  PROVE  CoreType'
<1>1. leg["ETHBTC"].price \in Int /\ leg["BTCUSDT"].price \in Int /\ Synthetic(leg) \in Int
  BY DEF CoreType, Legs, Synthetic
<1>2. [ts |-> timestamp, ethbtc |-> leg["ETHBTC"].price, btcusdt |-> leg["BTCUSDT"].price,
       real |-> real_price, synthetic |-> Synthetic(leg), diff |-> d] \in Row
  BY <1>1 DEF Row
<1>3. snapshot_log' \in Seq(Row)
  BY <1>2 DEF Compared, Logged, CoreType
<1>4. buffer' \in Seq(Int)
  BY AddType DEF Compared, CoreType
<1>5. DOMAIN last_trigger' \subseteq {"ETHUSDT"} /\ fired' \in [{"ETHUSDT"} -> Seq(Timestamps)]
  <2>1. CASE UNCHANGED <<last_trigger, fired>>
    BY <2>1 DEF CoreType
  <2>2. CASE /\ last_trigger' = [s \in DOMAIN last_trigger \cup {"ETHUSDT"} |->
                                   IF s = "ETHUSDT" THEN timestamp ELSE last_trigger[s]]
             /\ fired' = [fired EXCEPT !["ETHUSDT"] = Append(@, timestamp)]
    <3>1. DOMAIN last_trigger' \subseteq {"ETHUSDT"}
      BY <2>2 DEF CoreType
    <3>2. fired["ETHUSDT"] \in Seq(Timestamps)
      BY DEF CoreType
    <3>3. Append(fired["ETHUSDT"], timestamp) \in Seq(Timestamps)
      BY <3>2
    <3> QED
      BY <2>2, <3>1, <3>3 DEF CoreType
  <2> QED
    BY <2>1, <2>2 DEF Compared
<1>6. leg' = leg
  BY DEF Compared
<1> QED
  BY <1>3, <1>4, <1>5, <1>6 DEF CoreType

\* A comparison keeps the cooldown's state in step with the signals.
LEMMA CompareLast ==
  ASSUME CoreType, LastSignal, NEW real_price \in RealPrices, NEW timestamp \in Timestamps,
         NEW d \in Int, Compared(real_price, timestamp, d)
  PROVE  LastSignal'
<1>0. Signals \in Seq(Timestamps)
  BY DEF CoreType, Signals
<1>1. CASE UNCHANGED <<last_trigger, fired>>
  BY <1>1 DEF LastSignal, Signals
<1>2. CASE /\ last_trigger' = [s \in DOMAIN last_trigger \cup {"ETHUSDT"} |->
                                 IF s = "ETHUSDT" THEN timestamp ELSE last_trigger[s]]
           /\ fired' = [fired EXCEPT !["ETHUSDT"] = Append(@, timestamp)]
  <2>1. Signals' = Append(Signals, timestamp)
    BY <1>2 DEF CoreType, Signals
  <2>2. Signals' # <<>> /\ Signals'[Len(Signals')] = timestamp
    BY <1>0, <2>1
  <2>3. last_trigger'["ETHUSDT"] = timestamp
    BY <1>2
  <2> QED
    BY <2>2, <2>3 DEF LastSignal
<1> QED
  BY <1>1, <1>2 DEF Compared

\* A comparison keeps the window in step with the snapshot file.
LEMMA CompareWindow ==
  ASSUME CoreType, WindowIsRecentDeltas, NEW real_price \in RealPrices,
         NEW timestamp \in Timestamps, NEW d \in Int, Compared(real_price, timestamp, d)
  PROVE  WindowIsRecentDeltas'
<1> SUFFICES ASSUME "snapshot" \in Wired
             PROVE  /\ Len(buffer') = Ledger!Smaller(Window, Len(snapshot_log'))
                    /\ \A i \in DOMAIN buffer' :
                         buffer'[i] = snapshot_log'[Len(snapshot_log') - Len(buffer') + i].diff
  BY DEF WindowIsRecentDeltas, Ledger!Smaller
<1> DEFINE n == Len(snapshot_log)
           m == Len(buffer)
<1>1. /\ Window \in Nat \ {0} /\ n \in Nat /\ m \in Nat
      /\ buffer \in Seq(Int) /\ snapshot_log \in Seq(Row)
  BY SynthAssumption DEF CoreType
<1>2. /\ m = IF Window <= n THEN Window ELSE n
      /\ \A i \in 1 .. m : buffer[i] = snapshot_log[n - m + i].diff
  BY <1>1 DEF WindowIsRecentDeltas, Ledger!Smaller
<1>3. /\ Len(snapshot_log') = n + 1
      /\ \A i \in 1 .. n : snapshot_log'[i] = snapshot_log[i]
      /\ snapshot_log'[n + 1].diff = d
  BY <1>1 DEF Compared, Logged
<1>4. CASE m + 1 <= Window
  <2>1. buffer' = Append(buffer, d)
    BY <1>1, <1>4 DEF Compared, Add
  <2>2. Len(buffer') = m + 1 /\ DOMAIN buffer' = 1 .. (m + 1)
    BY <1>1, <2>1
  <2>3. m = n
    BY <1>1, <1>2, <1>4
  <2>4. ASSUME NEW i \in 1 .. (m + 1)
        PROVE  buffer'[i] = snapshot_log'[(n + 1) - (m + 1) + i].diff
    <3>1. CASE i = m + 1
      BY <1>1, <1>3, <2>1, <2>3, <3>1
    <3>2. CASE i \in 1 .. m
      <4>0. buffer'[i] = buffer[i]
        BY <1>1, <2>1, <3>2
      <4>1. buffer[i] = snapshot_log[n - m + i].diff
        BY <1>2, <3>2
      <4>2. n - m + i = i /\ (n + 1) - (m + 1) + i = i /\ i \in 1 .. n
        BY <1>1, <2>3, <3>2
      <4> QED
        BY <1>3, <4>0, <4>1, <4>2
    <3> QED
      BY <1>1, <3>1, <3>2
  <2> QED
    BY <1>1, <1>3, <1>4, <2>2, <2>3, <2>4 DEF Ledger!Smaller
<1>5. CASE m = Window
  <2>1. buffer' = Tail(Append(buffer, d))
    BY <1>1, <1>5 DEF Compared, Add
  <2>2. Len(buffer') = m /\ DOMAIN buffer' = 1 .. m
    BY <1>1, <1>5, <2>1
  <2>3. Window <= n
    BY <1>1, <1>2, <1>5
  <2>4. ASSUME NEW i \in 1 .. m
        PROVE  buffer'[i] = snapshot_log'[(n + 1) - m + i].diff
    <3>0. buffer'[i] = Append(buffer, d)[i + 1]
      BY <1>1, <1>5, <2>1
    <3>1. CASE i = m
      BY <1>1, <1>3, <3>0, <3>1
    <3>2. CASE i < m
      <4>1. i + 1 \in 1 .. m /\ Append(buffer, d)[i + 1] = buffer[i + 1]
        BY <1>1, <3>2
      <4>2. buffer[i + 1] = snapshot_log[n - m + (i + 1)].diff
        BY <1>2, <4>1
      <4>3. n - m + (i + 1) = (n + 1) - m + i /\ n - m + (i + 1) \in 1 .. n
        BY <1>1, <1>5, <2>3, <3>2
      <4> QED
        BY <1>3, <3>0, <4>1, <4>2, <4>3
    <3> QED
      BY <1>1, <3>1, <3>2
  <2> QED
    BY <1>1, <1>3, <1>5, <2>2, <2>3, <2>4 DEF Ledger!Smaller
<1> QED
  BY <1>1, <1>2, <1>4, <1>5

\* A comparison is answered: it fired, or a signal at most a cooldown old did.
LEMMA CompareNoMissed ==
  ASSUME CoreType, LastSignal, NoMissedOpportunity, NEW real_price \in RealPrices,
         NEW timestamp \in Timestamps, NEW d \in Int, Compared(real_price, timestamp, d)
  PROVE  NoMissedOpportunity'
<1> DEFINE Answered(row, sigs) ==
             \E k \in DOMAIN sigs : sigs[k] <= row.ts /\ row.ts <= sigs[k] + Arb!cooldown
<1> SUFFICES ASSUME {"snapshot", "arb"} \subseteq Wired, NEW i \in DOMAIN snapshot_log',
                    Abs(snapshot_log'[i].diff) >= TriggerThreshold
             PROVE  Answered(snapshot_log'[i], Signals')
  BY DEF NoMissedOpportunity, Arb!cooldown, Abs
<1> DEFINE n == Len(snapshot_log)
<1>1. /\ snapshot_log \in Seq(Row) /\ Signals \in Seq(Timestamps) /\ Arb!cooldown \in Nat
      /\ timestamp \in Nat
  BY SynthAssumption, LowerHalf DEF CoreType, Signals, Arb!cooldown
<1>2. /\ DOMAIN snapshot_log' = 1 .. (n + 1)
      /\ \A k \in 1 .. n : snapshot_log'[k] = snapshot_log[k]
      /\ snapshot_log'[n + 1].diff = d /\ snapshot_log'[n + 1].ts = timestamp
  BY <1>1 DEF Compared, Logged
<1>3. \/ Signals' = Append(Signals, timestamp)
      \/ /\ Signals' = Signals
         /\ Abs(d) >= TriggerThreshold => ~Arb!CooldownPassed("ETHUSDT", timestamp)
  BY DEF Compared, Signals, CoreType
<1>4. \A k \in DOMAIN Signals : k \in DOMAIN Signals' /\ Signals'[k] = Signals[k]
  BY <1>1, <1>3
<1>5. CASE i \in 1 .. n
  <2>1. Answered(snapshot_log[i], Signals)
    BY <1>1, <1>2, <1>5 DEF NoMissedOpportunity
  <2> QED
    BY <1>2, <1>4, <1>5, <2>1
<1>6. CASE i = n + 1
  <2>1. CASE Signals' = Append(Signals, timestamp)
    <3>1. Len(Signals) + 1 \in DOMAIN Signals' /\ Signals'[Len(Signals) + 1] = timestamp
      BY <1>1, <2>1
    <3> QED
      BY <1>1, <1>2, <1>6, <3>1
  <2>2. CASE /\ Signals' = Signals
             /\ Abs(d) >= TriggerThreshold => ~Arb!CooldownPassed("ETHUSDT", timestamp)
    <3>1. ~Arb!CooldownPassed("ETHUSDT", timestamp)
      BY <1>2, <1>6, <2>2
    <3>2. "ETHUSDT" \in DOMAIN last_trigger
      BY <3>1 DEF Arb!CooldownPassed
    <3> DEFINE u == Signals[Len(Signals)]
    <3>3. /\ u \in Timestamps /\ Len(Signals) \in DOMAIN Signals
          /\ ~(timestamp > u + Arb!cooldown \/ timestamp < u)
      BY <3>1, <3>2, Cooldown
    <3>4. u \in Nat
      BY <3>3, LowerHalf
    <3>5. u <= timestamp /\ timestamp <= u + Arb!cooldown
      BY <1>1, <3>3, <3>4
    <3> QED
      BY <1>2, <1>6, <2>2, <3>3, <3>5
  <2> QED
    BY <1>3, <2>1, <2>2
<1> QED
  BY <1>2, <1>5, <1>6

\* A comparison adds a signal only together with the row that justifies it.
LEMMA CompareJustified ==
  ASSUME CoreType, SignalJustified, NEW real_price \in RealPrices,
         NEW timestamp \in Timestamps, NEW d \in Int, Compared(real_price, timestamp, d)
  PROVE  SignalJustified'
<1> SUFFICES ASSUME "snapshot" \in Wired PROVE SignalJustified'
  BY DEF SignalJustified
<1> DEFINE n == Len(snapshot_log)
           m == Len(Signals)
<1>1. snapshot_log \in Seq(Row) /\ Signals \in Seq(Timestamps)
  BY DEF CoreType, Signals
<1>2. /\ DOMAIN snapshot_log = 1 .. n /\ DOMAIN snapshot_log' = 1 .. (n + 1) /\ n \in Nat
      /\ \A i \in 1 .. n : snapshot_log'[i] = snapshot_log[i]
      /\ snapshot_log'[n + 1].diff = d /\ snapshot_log'[n + 1].ts = timestamp
  BY <1>1 DEF Compared, Logged
<1>3. \/ Signals' = Append(Signals, timestamp) /\ Abs(d) >= TriggerThreshold
      \/ Signals' = Signals
  BY DEF Compared, Signals, CoreType
<1>4. DOMAIN Signals = 1 .. m /\ m \in Nat
  BY <1>1
<1>5. PICK row \in [1 .. m -> 1 .. n] :
        /\ \A k \in 1 .. m : /\ snapshot_log[row[k]].ts = Signals[k]
                             /\ Abs(snapshot_log[row[k]].diff) >= TriggerThreshold
        /\ \A j, k \in 1 .. m : j < k => row[j] < row[k]
  BY <1>2, <1>4 DEF SignalJustified
<1> HIDE DEF n, m
<1>6. \A k \in 1 .. m : row[k] \in 1 .. n /\ snapshot_log'[row[k]] = snapshot_log[row[k]]
  BY <1>2, <1>5
<1>7. CASE Signals' = Signals
  <2>1. row \in [DOMAIN Signals' -> DOMAIN snapshot_log']
    BY <1>2, <1>4, <1>5, <1>6, <1>7
  <2>2. \A k \in DOMAIN Signals' : /\ snapshot_log'[row[k]].ts = Signals'[k]
                                   /\ Abs(snapshot_log'[row[k]].diff) >= TriggerThreshold
    BY <1>4, <1>5, <1>6, <1>7
  <2>3. \A j, k \in DOMAIN Signals' : j < k => row[j] < row[k]
    BY <1>4, <1>5, <1>7
  <2> QED
    BY <2>1, <2>2, <2>3 DEF SignalJustified, Abs
<1>8. CASE Signals' = Append(Signals, timestamp) /\ Abs(d) >= TriggerThreshold
  \* The new signal's comparison is the new row, after all the others.
  <2> DEFINE rows == [k \in 1 .. (m + 1) |-> IF k = m + 1 THEN n + 1 ELSE row[k]]
  <2>1. /\ DOMAIN Signals' = 1 .. (m + 1) /\ Signals'[m + 1] = timestamp
        /\ \A k \in 1 .. m : Signals'[k] = Signals[k]
    BY <1>1, <1>8 DEF m
  <2>2. rows[m + 1] = n + 1 /\ \A k \in 1 .. m : rows[k] = row[k]
    BY <1>4
  <2>3. \A k \in 1 .. (m + 1) : k = m + 1 \/ k \in 1 .. m
    BY <1>4
  <2>4. rows \in [1 .. (m + 1) -> 1 .. (n + 1)]
    BY <1>2, <1>4, <1>6
  <2> HIDE DEF rows
  <2>5. \A k \in DOMAIN Signals' : /\ snapshot_log'[rows[k]].ts = Signals'[k]
                                   /\ Abs(snapshot_log'[rows[k]].diff) >= TriggerThreshold
    <3>1. ASSUME NEW k \in 1 .. m
          PROVE  /\ snapshot_log'[rows[k]].ts = Signals'[k]
                 /\ Abs(snapshot_log'[rows[k]].diff) >= TriggerThreshold
      BY <1>5, <1>6, <2>1, <2>2
    <3>2. /\ snapshot_log'[rows[m + 1]].ts = Signals'[m + 1]
          /\ Abs(snapshot_log'[rows[m + 1]].diff) >= TriggerThreshold
      BY <1>2, <1>8, <2>1, <2>2
    <3> QED
      BY <2>1, <2>3, <3>1, <3>2
  <2>6. \A j, k \in DOMAIN Signals' : j < k => rows[j] < rows[k]
    <3> SUFFICES ASSUME NEW j \in 1 .. (m + 1), NEW k \in 1 .. (m + 1), j < k
                 PROVE  rows[j] < rows[k]
      BY <2>1
    <3>1. j \in 1 .. m
      BY <1>4
    <3> QED
      BY <1>2, <1>5, <1>6, <2>2, <2>3, <3>1
  <2> QED
    BY <1>2, <2>1, <2>4, <2>5, <2>6 DEF SignalJustified, Abs
<1> QED
  BY <1>3, <1>7, <1>8

\* The inductive invariant.  LastSignal ties the cooldown's map to the history of
\* signals: without it a suppressed opportunity has no signal to point to.
SynthInv == /\ CoreType /\ LastSignal
            /\ WindowIsRecentDeltas /\ NoMissedOpportunity /\ SignalJustified

\* The initial state satisfies the invariant.
LEMMA SynthStart == SynthInit => SynthInv
<1> SUFFICES ASSUME SynthInit PROVE SynthInv
  OBVIOUS
<1>1. CoreType /\ LastSignal
  BY DEF SynthInit, CoreType, LastSignal, Arb!ArbInit
<1>2. buffer = <<>> /\ snapshot_log = <<>> /\ Signals = <<>> /\ Len(buffer) = 0
      /\ Len(snapshot_log) = 0
  BY DEF SynthInit, Signals, Arb!ArbInit
<1>3. WindowIsRecentDeltas
  BY <1>2, SynthAssumption DEF WindowIsRecentDeltas, Ledger!Smaller
<1>4. NoMissedOpportunity
  BY <1>2 DEF NoMissedOpportunity
<1>5. SignalJustified
  <2>1. <<>> \in [DOMAIN Signals -> DOMAIN snapshot_log] /\ DOMAIN Signals = {}
    BY <1>2
  <2> QED
    BY <2>1 DEF SignalJustified
<1> QED
  BY <1>1, <1>3, <1>4, <1>5 DEF SynthInv

\* Every step preserves the invariant.
LEMMA SynthStep == SynthInv /\ [CoreStep]_vars => SynthInv'
<1> SUFFICES ASSUME SynthInv, [CoreStep]_vars PROVE SynthInv'
  OBVIOUS
<1>0. CoreType /\ LastSignal /\ WindowIsRecentDeltas /\ NoMissedOpportunity /\ SignalJustified
  BY DEF SynthInv
<1>1. ASSUME UNCHANGED <<buffer, snapshot_log, last_trigger, fired>>, CoreType'
      PROVE  SynthInv'
  BY <1>0, <1>1 DEF SynthInv, LastSignal, Signals, WindowIsRecentDeltas, NoMissedOpportunity,
                    SignalJustified, Ledger!Smaller, Arb!cooldown
<1>2. ASSUME NEW symbol \in Legs, NEW timestamp \in Timestamps,
             NEW price \in LegPrices[symbol], update(symbol, price, timestamp)
      PROVE  SynthInv'
  BY <1>0, <1>1, <1>2, UpdateStep
<1>3. ASSUME NEW real_price \in RealPrices, NEW timestamp \in Timestamps,
             compareToReal(real_price, timestamp)
      PROVE  SynthInv'
  <2>1. PICK d \in Int : Compared(real_price, timestamp, d)
    BY <1>0, <1>3, CompareStep
  <2>2. CoreType'
    BY <1>0, <2>1, CompareType
  <2>3. LastSignal'
    BY <1>0, <2>1, CompareLast
  <2>4. WindowIsRecentDeltas'
    BY <1>0, <2>1, CompareWindow
  <2>5. NoMissedOpportunity'
    BY <1>0, <2>1, CompareNoMissed
  <2>6. SignalJustified'
    BY <1>0, <2>1, CompareJustified
  <2> QED
    BY <2>2, <2>3, <2>4, <2>5, <2>6 DEF SynthInv
<1>4. CASE UNCHANGED vars
  <2>1. UNCHANGED <<leg, buffer, snapshot_log, last_trigger, fired>>
    BY <1>4 DEF vars, synthVars, arbVars
  <2>2. CoreType'
    BY <1>0, <2>1 DEF CoreType
  <2> QED
    BY <1>1, <2>1, <2>2
<1> QED
  BY <1>2, <1>3, <1>4, CoreCases

\* The invariant holds in every reachable state.
LEMMA SynthInvariant == CoreSpec => []SynthInv
  BY SynthStart, SynthStep, PTL DEF CoreSpec

\* SyntheticSpotSynth.hpp lines 54 and 67-68: the rolling buffer holds the last
\* gaps of the snapshot file.
THEOREM WindowCorrect == SynthSpec => []WindowIsRecentDeltas
<1>1. SynthInv => WindowIsRecentDeltas
  BY DEF SynthInv
<1> QED
  BY <1>1, SynthCore, SynthInvariant, PTL

\* SyntheticSpotSynth.hpp lines 73-75: every gap at the threshold fires or falls
\* within the cooldown of a signal, in whatever order the ticks arrive.
THEOREM NoMissedCorrect == SynthSpec => []NoMissedOpportunity
<1>1. SynthInv => NoMissedOpportunity
  BY DEF SynthInv
<1> QED
  BY <1>1, SynthCore, SynthInvariant, PTL

\* SyntheticSpotSynth.hpp lines 73-75: every signal has its gap in the snapshot file.
THEOREM JustifiedCorrect == SynthSpec => []SignalJustified
<1>1. SynthInv => SignalJustified
  BY DEF SynthInv
<1> QED
  BY <1>1, SynthCore, SynthInvariant, PTL

\* The cast of the wrapped difference is exact, so leg ticks are logged only within
\* MaxAge of each other, whoever calls.
LEMMA CoreSynced == CoreSpec => UpdateLogsOnlySynced
<1> DEFINE Synced == ("snapshot" \in Wired /\ mispricing_log' # mispricing_log
                        /\ snapshot_log' = snapshot_log)
                       => Abs(leg'["ETHBTC"].ts - leg'["BTCUSDT"].ts) <= MaxAge
<1>1. SynthInv /\ [CoreStep]_vars => [Synced]_vars
  <2> SUFFICES ASSUME SynthInv, [CoreStep]_vars, "snapshot" \in Wired,
                      mispricing_log' # mispricing_log, snapshot_log' = snapshot_log
               PROVE  Abs(leg'["ETHBTC"].ts - leg'["BTCUSDT"].ts) <= MaxAge
    OBVIOUS
  <2>0. CoreType
    BY DEF SynthInv
  <2>1. ASSUME NEW symbol \in Legs, NEW timestamp \in Timestamps,
               NEW price \in LegPrices[symbol], update(symbol, price, timestamp)
        PROVE  Abs(leg'["ETHBTC"].ts - leg'["BTCUSDT"].ts) <= MaxAge
    <3>1. synced_ticks(leg')
      BY <2>1 DEF update
    <3>2. CoreType'
      BY <2>0, <2>1, UpdateStep
    <3>3. leg'["ETHBTC"].ts \in 0 .. (Half - 1) /\ leg'["BTCUSDT"].ts \in 0 .. (Half - 1)
      <4>1. leg'["ETHBTC"].ts \in {0} \cup Timestamps /\ leg'["BTCUSDT"].ts \in {0} \cup Timestamps
        BY <3>2 DEF CoreType, Legs
      <4> QED
        BY <4>1, LowerHalf
    <3>4. ToInt64(USub(leg'["ETHBTC"].ts, leg'["BTCUSDT"].ts))
            = leg'["ETHBTC"].ts - leg'["BTCUSDT"].ts
      BY <3>3, SignedDifference
    <3> QED
      BY <3>1, <3>4 DEF synced_ticks
  <2>2. ASSUME NEW real_price \in RealPrices, NEW timestamp \in Timestamps,
               compareToReal(real_price, timestamp)
        PROVE  FALSE
    <3>1. PICK d \in Int : Compared(real_price, timestamp, d)
      BY <2>0, <2>2, CompareStep
    <3>2. Len(snapshot_log') = Len(snapshot_log) + 1 /\ Len(snapshot_log) \in Nat
      BY <2>0, <3>1 DEF Compared, Logged, CoreType
    <3> QED
      BY <3>2
  <2>3. CASE UNCHANGED vars
    BY <2>3 DEF vars, synthVars
  <2> QED
    BY <2>1, <2>2, <2>3, CoreCases
<1> QED
  BY <1>1, SynthInvariant, PTL DEF CoreSpec, UpdateLogsOnlySynced

\* SyntheticSpotSynth.hpp lines 29-33: leg ticks are logged only within MaxAge of each
\* other in true time.
THEOREM SyncedCorrect == SynthSpec => UpdateLogsOnlySynced
  BY SynthCore, CoreSynced
-----------------------------------------------------------------------------
\* The types of the whole core, the files and the ledger included.

\* What SynthTypeOK says of the legs.
LegType(lg) ==
  /\ lg \in [Legs -> [price : Nat, ts : {0} \cup Timestamps, ready : BOOLEAN]]
  /\ \A l \in Legs : lg[l].ready => lg[l].price \in LegPrices[l] /\ lg[l].ts \in Timestamps

\* A tick makes its leg known.
LEMMA LegTicked ==
  ASSUME LegType(leg), NEW symbol \in Legs, NEW price \in LegPrices[symbol],
         NEW timestamp \in Timestamps, NEW lg,
         lg = [leg EXCEPT ![symbol] = [price |-> price, ts |-> timestamp, ready |-> TRUE]]
  PROVE  LegType(lg)
<1>1. price \in Nat
  BY SynthAssumption
<1>2. lg \in [Legs -> [price : Nat, ts : {0} \cup Timestamps, ready : BOOLEAN]]
  BY <1>1 DEF LegType
<1>3. ASSUME NEW l \in Legs, lg[l].ready PROVE lg[l].price \in LegPrices[l] /\ lg[l].ts \in Timestamps
  <2>1. CASE l = symbol
    BY <2>1 DEF LegType
  <2>2. CASE l # symbol
    BY <1>3, <2>2 DEF LegType
  <2> QED
    BY <2>1, <2>2
<1> QED
  BY <1>2, <1>3 DEF LegType

\* With both legs known the synthetic price is positive.
LEMMA SyntheticPositive ==
  ASSUME NEW lg, LegType(lg), Ready(lg)
  PROVE  /\ lg["ETHBTC"].price \in LegPrices["ETHBTC"]
         /\ lg["BTCUSDT"].price \in LegPrices["BTCUSDT"]
         /\ Synthetic(lg) \in Nat \ {0}
<1>1. "ETHBTC" \in Legs /\ "BTCUSDT" \in Legs
  BY DEF Legs
<1>2. /\ lg["ETHBTC"].price \in LegPrices["ETHBTC"]
      /\ lg["BTCUSDT"].price \in LegPrices["BTCUSDT"]
  BY <1>1 DEF LegType, Ready
<1>3. lg["ETHBTC"].price \in Nat \ {0} /\ lg["BTCUSDT"].price \in Nat \ {0}
  BY <1>1, <1>2, SynthAssumption
<1> QED
  BY <1>2, <1>3, MulPos DEF Synthetic

\* Slippage leaves a price positive.
LEMMA SlippedPositive ==
  ASSUME NEW price \in Nat \ {0}, NEW up \in BOOLEAN
  PROVE  Slipped(price, up) \in Nat \ {0}
<1>1. SlipDen + 1 \in Nat \ {0} /\ SlipDen - 1 \in Nat \ {0}
  BY SynthAssumption
<1>2. price * (SlipDen + 1) \in Nat \ {0} /\ price * (SlipDen - 1) \in Nat \ {0}
  BY <1>1, MulPos
<1> QED
  BY <1>2 DEF Slipped

\* A file keeps the type of its rows.
LEMMA LoggedType ==
  ASSUME NEW S, NEW log \in Seq(S), NEW row \in S, NEW logger
  PROVE  Logged(logger, log, row) \in Seq(S)
  BY DEF Logged

\* The two engines that the core drives, with what is proved of them.
Driven == INSTANCE CoreEnginesProofs
            WITH Symbols <- {"ETHUSDT"}, InOrder <- FALSE, MaxFired <- MaxRows,
                 TradePrices <- Nat \ {0}, TradeTimes <- Timestamps, MaxTrades <- MaxRows

\* The core's constants satisfy the assumptions that the engines' proofs make.
LEMMA EnginesApply == Driven!HalfAssumption /\ Driven!ArbAssumption /\ Driven!PnLAssumption
<1>1. Timestamps \subseteq Nat
  BY LowerHalf
<1> QED
  BY <1>1, SynthAssumption, HalfAssumption
  DEF Driven!HalfAssumption, Driven!ArbAssumption, Driven!PnLAssumption

\* The ledger of the core is the ledger that the engines' proofs are about.
LEMMA SameLedger ==
  /\ Driven!PnLInit <=> Ledger!PnLInit
  /\ Driven!PnLTypeOK <=> Ledger!PnLTypeOK
  /\ Driven!LedgerReconciles <=> Ledger!LedgerReconciles
  /\ Driven!ExposureTracked <=> Ledger!ExposureTracked
<1>1. Driven!PnLInit <=> Ledger!PnLInit
  BY DEF Driven!PnLInit, Ledger!PnLInit
<1>2. Driven!PnLTypeOK <=> Ledger!PnLTypeOK
  BY DEF Driven!PnLTypeOK, Ledger!PnLTypeOK, Driven!Trade, Ledger!Trade, Driven!ArbRow,
         Ledger!ArbRow, Driven!Directions, Ledger!Directions
<1>3. Driven!LedgerReconciles <=> Ledger!LedgerReconciles
  BY DEF Driven!LedgerReconciles, Ledger!LedgerReconciles, Driven!CumulativeBefore,
         Ledger!CumulativeBefore
<1>4. Driven!ExposureTracked <=> Ledger!ExposureTracked
  BY DEF Driven!ExposureTracked, Ledger!ExposureTracked
<1> QED
  BY <1>1, <1>2, <1>3, <1>4

\* recordTrade of the core is recordTrade of the engines' proofs.
LEMMA SameRecord ==
  ASSUME NEW s, NEW r, NEW ts, NEW d
  PROVE  /\ Driven!recordTrade(s, r, ts, d) <=> Ledger!recordTrade(s, r, ts, d)
         /\ Driven!PnL(s, r, d) = Ledger!PnL(s, r, d)
         /\ Driven!Size(s, r) = Ledger!Size(s, r)
         /\ Driven!Trade = Ledger!Trade
<1>1. /\ Driven!recordTrade(s, r, ts, d) <=> Ledger!recordTrade(s, r, ts, d)
      /\ Driven!PnL(s, r, d) = Ledger!PnL(s, r, d)
      /\ Driven!Size(s, r) = Ledger!Size(s, r)
  BY DEF Driven!recordTrade, Ledger!recordTrade, Driven!Size, Ledger!Size, Driven!PnL,
         Ledger!PnL, Driven!Spread, Ledger!Spread, Driven!Smaller, Ledger!Smaller,
         Driven!Larger, Ledger!Larger, Driven!Written, Ledger!Written,
         Driven!logSimulatedTrade, Ledger!logSimulatedTrade
<1>2. Driven!Trade = Ledger!Trade
  BY DEF Driven!Trade, Ledger!Trade, Driven!Directions, Ledger!Directions
<1> QED
  BY <1>1, <1>2

\* The direction and the two prices of a simulated trade.
Direction(synthetic, real) == IF synthetic > real THEN "SELL" ELSE "BUY"
Entry(synthetic, real) == Slipped(synthetic, Direction(synthetic, real) = "BUY")
Exit(synthetic, real) == Slipped(real, ~(Direction(synthetic, real) = "BUY"))

\* They are a direction and two positive prices.
LEMMA ExecutedPrices ==
  ASSUME NEW synthetic \in Nat \ {0}, NEW real \in RealPrices
  PROVE  /\ Direction(synthetic, real) \in {"BUY", "SELL"}
         /\ Entry(synthetic, real) \in Nat \ {0} /\ Exit(synthetic, real) \in Nat \ {0}
<1> DEFINE d == Direction(synthetic, real)
<1>1. d \in {"BUY", "SELL"}
  BY DEF Direction
<1>2. (d = "BUY") \in BOOLEAN /\ (~(d = "BUY")) \in BOOLEAN
  OBVIOUS
<1>3. real \in Nat \ {0}
  BY SynthAssumption
<1> HIDE DEF d
<1>4. Slipped(synthetic, d = "BUY") \in Nat \ {0} /\ Slipped(real, ~(d = "BUY")) \in Nat \ {0}
  BY <1>2, <1>3, SlippedPositive
<1> QED
  BY <1>1, <1>4 DEF d, Entry, Exit

\* The trade that follows a signal, if the ledger is attached: one well-formed trade
\* within the cap is booked, with the signal's timestamp.
LEMMA ExecutedTrade ==
  ASSUME NEW synthetic \in Nat \ {0}, NEW real \in RealPrices, NEW timestamp \in Timestamps,
         Execute(synthetic, real, timestamp), "pnl" \in Wired
  PROVE  \E t \in Driven!Trade :
           /\ t.size <= MaxExposure * Scale /\ Driven!Booked(t) /\ t.timestamp = timestamp
           /\ t.pnl = Ledger!PnL(Entry(synthetic, real), Exit(synthetic, real),
                                 Direction(synthetic, real))
<1> DEFINE d == Direction(synthetic, real)
           s == Entry(synthetic, real)
           r == Exit(synthetic, real)
<1>1. d \in {"BUY", "SELL"} /\ s \in Nat \ {0} /\ r \in Nat \ {0}
  BY ExecutedPrices
<1>2. Ledger!recordTrade(s, r, timestamp, d)
  BY DEF Execute, Direction, Entry, Exit
<1> HIDE DEF d, s, r
<1>3. Driven!recordTrade(s, r, timestamp, d)
  BY <1>2, SameRecord
<1>4. \E t \in Driven!Trade : /\ t.size <= MaxExposure * Scale /\ Driven!Booked(t)
                              /\ t.timestamp = timestamp /\ t.pnl = Driven!PnL(s, r, d)
  BY <1>1, <1>3, EnginesApply, Driven!Recorded DEF Driven!Directions
<1> QED
  BY <1>4, SameRecord DEF d, s, r

\* It keeps the ledger's types and appends one trade with the signal's timestamp.
LEMMA Executed ==
  ASSUME Ledger!PnLTypeOK, NEW synthetic \in Nat \ {0}, NEW real \in RealPrices,
         NEW timestamp \in Timestamps, Execute(synthetic, real, timestamp)
  PROVE  /\ Ledger!PnLTypeOK'
         /\ "pnl" \in Wired =>
              \E t \in Ledger!Trade : t.timestamp = timestamp /\ trades' = Append(trades, t)
<1>1. CASE "pnl" \in Wired
  <2>1. PICK t \in Driven!Trade : Driven!Booked(t) /\ t.timestamp = timestamp
    BY <1>1, ExecutedTrade
  <2>2. Driven!PnLTypeOK
    BY SameLedger
  <2>3. Driven!PnLTypeOK'
    BY <2>1, <2>2, EnginesApply, Driven!BookedType
  <2>4. Ledger!PnLTypeOK'
    <3>1. (Driven!PnLTypeOK <=> Ledger!PnLTypeOK)'
      BY SameLedger, PTL
    <3> QED
      BY <2>3, <3>1
  <2>5. trades' = Append(trades, t) /\ t \in Ledger!Trade
    BY <2>1, SameRecord DEF Driven!Booked
  <2> QED
    BY <2>1, <2>4, <2>5
<1>2. CASE "pnl" \notin Wired
  BY <1>2 DEF Execute, pnlVars, Ledger!PnLTypeOK
<1> QED
  BY <1>1, <1>2

\* A tick of a leg keeps the types.
LEMMA UpdateTypes ==
  ASSUME SynthTypeOK, NEW symbol \in Legs, NEW timestamp \in Timestamps,
         NEW price \in LegPrices[symbol], update(symbol, price, timestamp)
  PROVE  SynthTypeOK'
<1> DEFINE lg == [leg EXCEPT ![symbol] = [price |-> price, ts |-> timestamp, ready |-> TRUE]]
           row == MispricingRow(Synthetic(lg), real_ethusdt, timestamp)
<1>1. LegType(leg)
  BY DEF SynthTypeOK, LegType
<1>2. leg' = lg /\ UNCHANGED <<real_ethusdt, buffer, snapshot_log, evaluated, arbVars, pnlVars>>
  BY DEF update
<1>3. \/ /\ synced_ticks(lg) /\ synthetic_price' = Synthetic(lg) /\ last_ts' = timestamp
         /\ mispricing_log' = Logged("mispricing", mispricing_log, row)
      \/ UNCHANGED <<synthetic_price, last_ts, mispricing_log>>
  BY DEF update
<1> HIDE DEF lg
<1>4. LegType(lg)
  BY <1>1, LegTicked DEF lg
<1>5. synthetic_price' \in Nat /\ last_ts' \in {0} \cup Timestamps
      /\ mispricing_log' \in Seq(MispricingRows)
  <2>0. /\ mispricing_log \in Seq(MispricingRows) /\ real_ethusdt \in RealPrices \cup {0}
        /\ synthetic_price \in Nat /\ last_ts \in {0} \cup Timestamps
    BY DEF SynthTypeOK
  <2>1. CASE UNCHANGED <<synthetic_price, last_ts, mispricing_log>>
    BY <2>0, <2>1
  <2>2. CASE /\ synced_ticks(lg) /\ synthetic_price' = Synthetic(lg) /\ last_ts' = timestamp
             /\ mispricing_log' = Logged("mispricing", mispricing_log, row)
    <3>1. Synthetic(lg) \in Nat \ {0}
      BY <1>4, <2>2, SyntheticPositive DEF synced_ticks
    <3>2. row \in MispricingRows
      BY <2>0, <3>1 DEF MispricingRow, MispricingRows
    <3> QED
      BY <2>0, <2>2, <3>1, <3>2, LoggedType
  <2> QED
    BY <1>3, <2>1, <2>2
<1>6. Arb!ArbTypeOK' /\ Ledger!PnLTypeOK'
  BY <1>2 DEF SynthTypeOK, Arb!ArbTypeOK, Ledger!PnLTypeOK, arbVars, pnlVars
<1>7. LegType(leg')
  BY <1>2, <1>4
<1> QED
  BY <1>2, <1>5, <1>6, <1>7 DEF SynthTypeOK, LegType

\* A comparison keeps the types.
LEMMA CompareTypes ==
  ASSUME SynthTypeOK, NEW real_price \in RealPrices, NEW timestamp \in Timestamps,
         compareToReal(real_price, timestamp)
  PROVE  SynthTypeOK'
<1> DEFINE synthetic == Synthetic(leg)
           d == synthetic - real_price
           mrow == MispricingRow(synthetic, real_price, timestamp)
           srow == SnapshotRow(leg, real_price, synthetic, timestamp)
<1>0. /\ mispricing_log \in Seq(MispricingRows) /\ snapshot_log \in Seq(SnapshotRows)
      /\ buffer \in Seq(Int) /\ evaluated \subseteq 0 .. Len(snapshot_log)
      /\ Arb!ArbTypeOK /\ Ledger!PnLTypeOK
  BY DEF SynthTypeOK
<1>1. LegType(leg) /\ Ready(leg)
  BY DEF SynthTypeOK, LegType, compareToReal
<1>2. /\ synthetic_price' = synthetic /\ real_ethusdt' = real_price /\ buffer' = Add(buffer, d)
      /\ mispricing_log' = Logged("mispricing", mispricing_log, mrow)
      /\ snapshot_log' = Logged("snapshot", snapshot_log, srow)
      /\ evaluated' \subseteq evaluated \cup {Len(snapshot_log')}
      /\ \/ Arb!shouldTrigger("ETHUSDT", timestamp) /\ Execute(synthetic, real_price, timestamp)
         \/ UNCHANGED <<arbVars, pnlVars>>
      /\ UNCHANGED <<leg, last_ts>>
  BY DEF compareToReal
<1>3. /\ leg["ETHBTC"].price \in LegPrices["ETHBTC"]
      /\ leg["BTCUSDT"].price \in LegPrices["BTCUSDT"]
      /\ synthetic \in Nat \ {0}
  BY <1>1, SyntheticPositive
<1>4. real_price \in Nat
  BY SynthAssumption
<1> HIDE DEF synthetic
<1>5. d \in Int
  BY <1>3, <1>4
<1>6. mrow \in MispricingRows
  BY <1>3 DEF MispricingRow, MispricingRows
<1>7. srow \in SnapshotRows
  BY <1>3, <1>5 DEF SnapshotRow, SnapshotRows
<1> HIDE DEF d, mrow, srow
<1>8. buffer' \in Seq(Int) /\ mispricing_log' \in Seq(MispricingRows)
      /\ snapshot_log' \in Seq(SnapshotRows)
  BY <1>0, <1>2, <1>5, <1>6, <1>7, AddType, LoggedType
<1>9. evaluated' \subseteq 0 .. Len(snapshot_log')
  <2>1. Len(snapshot_log') \in Nat /\ Len(snapshot_log) \in Nat
        /\ Len(snapshot_log) <= Len(snapshot_log')
    BY <1>0, <1>2, <1>7 DEF Logged
  <2> QED
    BY <1>0, <1>2, <2>1
<1>10. Arb!ArbTypeOK' /\ Ledger!PnLTypeOK'
  <2>1. CASE UNCHANGED <<arbVars, pnlVars>>
    BY <1>0, <2>1 DEF Arb!ArbTypeOK, Ledger!PnLTypeOK, arbVars, pnlVars
  <2>2. CASE Arb!shouldTrigger("ETHUSDT", timestamp) /\ Execute(synthetic, real_price, timestamp)
    <3>1. Ledger!PnLTypeOK'
      BY <1>0, <1>3, <2>2, Executed
    <3>2. Append(fired["ETHUSDT"], timestamp) \in Seq(Timestamps)
      BY <1>0 DEF Arb!ArbTypeOK
    <3>3. fired' \in [{"ETHUSDT"} -> Seq(Timestamps)]
      BY <1>0, <2>2, <3>2 DEF Arb!ArbTypeOK, Arb!shouldTrigger
    <3>4. DOMAIN last_trigger' \subseteq {"ETHUSDT"}
          /\ last_trigger' \in [DOMAIN last_trigger' -> Timestamps]
      BY <1>0, <2>2 DEF Arb!ArbTypeOK, Arb!shouldTrigger
    <3> QED
      BY <3>1, <3>3, <3>4 DEF Arb!ArbTypeOK
  <2> QED
    BY <1>2, <2>1, <2>2
<1>11. LegType(leg')
  BY <1>1, <1>2
<1>12. synthetic_price' \in Nat /\ real_ethusdt' \in RealPrices \cup {0}
       /\ last_ts' \in {0} \cup Timestamps
  BY <1>2, <1>3 DEF SynthTypeOK
<1> QED
  BY <1>8, <1>9, <1>10, <1>11, <1>12 DEF SynthTypeOK, LegType

\* A step that leaves the core alone keeps its types.
LEMMA SameTypes == ASSUME SynthTypeOK, UNCHANGED vars PROVE SynthTypeOK'
  BY DEF SynthTypeOK, Arb!ArbTypeOK, Ledger!PnLTypeOK, vars, synthVars, arbVars, pnlVars

\* The types hold initially.
LEMMA StartTypes == SynthInit => SynthTypeOK
<1> SUFFICES ASSUME SynthInit PROVE SynthTypeOK
  OBVIOUS
<1>1. Arb!ArbTypeOK /\ Ledger!PnLTypeOK
  BY DEF SynthInit, Arb!ArbInit, Arb!ArbTypeOK, Ledger!PnLInit, Ledger!PnLTypeOK
<1>2. LegType(leg)
  BY DEF SynthInit, LegType
<1>3. /\ buffer \in Seq(Int) /\ mispricing_log \in Seq(MispricingRows)
      /\ snapshot_log \in Seq(SnapshotRows) /\ evaluated \subseteq 0 .. Len(snapshot_log)
  BY DEF SynthInit
<1> QED
  BY <1>1, <1>2, <1>3 DEF SynthInit, SynthTypeOK, LegType

\* The types hold in every reachable state.
LEMMA CoreTypes == CoreSpec => []SynthTypeOK
<1>1. SynthTypeOK /\ [CoreStep]_vars => SynthTypeOK'
  BY CoreCases, UpdateTypes, CompareTypes, SameTypes
<1> QED
  BY <1>1, StartTypes, PTL DEF CoreSpec

\* SyntheticSpotSynth.hpp, update and compareToReal, with the cooldown, the ledger and
\* the files they write: the state keeps its types, and in particular every synthetic
\* price that is logged or traded is positive.
THEOREM SynthTypeCorrect == SynthSpec => []SynthTypeOK
  BY SynthCore, CoreTypes

\* Append, as a function.
LEMMA AppendIs ==
  ASSUME NEW S, NEW seq \in Seq(S), NEW e \in S, NEW n \in Nat, n = Len(seq)
  PROVE  Append(seq, e) = [i \in 1 .. n + 1 |-> IF i = n + 1 THEN e ELSE seq[i]]
<1> DEFINE new == Append(seq, e)
<1>1. new \in Seq(S) /\ Len(new) = n + 1 /\ new[n + 1] = e /\ \A i \in 1 .. n : new[i] = seq[i]
  OBVIOUS
<1> HIDE DEF new
<1>2. new = [i \in 1 .. n + 1 |-> new[i]]
  BY <1>1
<1>3. \A i \in 1 .. n + 1 : new[i] = IF i = n + 1 THEN e ELSE seq[i]
  BY <1>1
<1>4. new = [i \in 1 .. n + 1 |-> IF i = n + 1 THEN e ELSE seq[i]]
  BY <1>2, <1>3
<1> QED
  BY <1>4 DEF new

\* A comparison trades what it signals.
LEMMA CompareTraded ==
  ASSUME SynthTypeOK, SignalsTraded, "pnl" \in Wired, NEW real_price \in RealPrices,
         NEW timestamp \in Timestamps, compareToReal(real_price, timestamp)
  PROVE  SignalsTraded'
<1>1. \/ /\ Arb!shouldTrigger("ETHUSDT", timestamp)
         /\ Execute(Synthetic(leg), real_price, timestamp)
      \/ UNCHANGED <<arbVars, pnlVars>>
  BY DEF compareToReal
<1>2. CASE UNCHANGED <<arbVars, pnlVars>>
  BY <1>2 DEF SignalsTraded, Signals, arbVars, pnlVars
<1>3. CASE /\ Arb!shouldTrigger("ETHUSDT", timestamp)
           /\ Execute(Synthetic(leg), real_price, timestamp)
  <2> DEFINE n == Len(trades)
  <2>1. LegType(leg) /\ Ready(leg) /\ Ledger!PnLTypeOK
    BY DEF SynthTypeOK, LegType, compareToReal
  <2>2. Synthetic(leg) \in Nat \ {0}
    BY <2>1, SyntheticPositive
  <2>3. PICK t \in Ledger!Trade : t.timestamp = timestamp /\ trades' = Append(trades, t)
    BY <1>3, <2>1, <2>2, Executed
  <2>4. Signals \in Seq(Timestamps) /\ trades \in Seq(Ledger!Trade)
    BY DEF SynthTypeOK, Arb!ArbTypeOK, Ledger!PnLTypeOK, Signals
  <2>5. Signals' = Append(Signals, timestamp)
    BY <1>3 DEF SynthTypeOK, Arb!ArbTypeOK, Arb!shouldTrigger, Signals
  <2>6. /\ n \in Nat /\ DOMAIN trades = 1 .. n /\ DOMAIN trades' = 1 .. n + 1
        /\ trades'[n + 1] = t /\ \A i \in 1 .. n : trades'[i] = trades[i]
    BY <2>3, <2>4
  <2>7. Len(Signals) = n /\ \A i \in 1 .. n : Signals[i] = trades[i].timestamp
    <3>1. Signals = [i \in 1 .. n |-> trades[i].timestamp]
      BY <2>6 DEF SignalsTraded
    <3> QED
      BY <2>4, <2>6, <3>1
  <2>8. Signals' = [i \in 1 .. n + 1 |-> IF i = n + 1 THEN timestamp ELSE Signals[i]]
    BY <2>4, <2>5, <2>6, <2>7, AppendIs
  <2> HIDE DEF n
  <2>9. Signals' = [i \in 1 .. n + 1 |-> trades'[i].timestamp]
    BY <2>3, <2>6, <2>7, <2>8
  <2> QED
    BY <2>6, <2>9 DEF SignalsTraded
<1> QED
  BY <1>1, <1>2, <1>3

\* With the ledger attached, every signal is traded, whoever calls.
LEMMA CoreTraded == "pnl" \in Wired => (CoreSpec => []SignalsTraded)
<1> SUFFICES ASSUME "pnl" \in Wired PROVE CoreSpec => []SignalsTraded
  OBVIOUS
<1>1. SynthInit => SignalsTraded
  BY DEF SynthInit, Arb!ArbInit, Ledger!PnLInit, SignalsTraded, Signals
<1>2. SynthTypeOK /\ SignalsTraded /\ [CoreStep]_vars => SignalsTraded'
  <2> SUFFICES ASSUME SynthTypeOK, SignalsTraded, [CoreStep]_vars PROVE SignalsTraded'
    OBVIOUS
  <2>1. ASSUME NEW symbol \in Legs, NEW timestamp \in Timestamps,
               NEW price \in LegPrices[symbol], update(symbol, price, timestamp)
        PROVE  SignalsTraded'
    BY <2>1 DEF update, SignalsTraded, Signals, arbVars, pnlVars
  <2>2. ASSUME NEW real_price \in RealPrices, NEW timestamp \in Timestamps,
               compareToReal(real_price, timestamp)
        PROVE  SignalsTraded'
    BY <2>2, CompareTraded
  <2>3. CASE UNCHANGED vars
    BY <2>3 DEF vars, arbVars, pnlVars, SignalsTraded, Signals
  <2> QED
    BY <2>1, <2>2, <2>3, CoreCases
<1> QED
  BY <1>1, <1>2, CoreTypes, PTL DEF CoreSpec

\* SyntheticSpotSynth.hpp lines 75-91, with the ledger attached: every signal becomes
\* one simulated trade, in order and with its timestamp.
THEOREM SignalsTradedCorrect == "pnl" \in Wired => (SynthSpec => []SignalsTraded)
  BY SynthCore, CoreTraded
-----------------------------------------------------------------------------
\* The quote that leg ticks are logged against, and the file they share it with.

\* real_ethusdt is the quote of the latest snapshot row, or 0 before the first.
LatestQuote(log) == IF log = <<>> THEN 0 ELSE Last(log).real
QuoteKnown == "snapshot" \in Wired => real_ethusdt = LatestQuote(snapshot_log)

\* The row at the end of a file, if there is a new one.
LEMMA LoggedLast ==
  ASSUME NEW S, NEW log \in Seq(S), NEW row \in S, NEW logger, NEW new,
         new = Logged(logger, log, row), logger \in Wired \/ new # log
  PROVE  new # <<>> /\ Last(new) = row
<1>1. new = Append(log, row)
  BY DEF Logged
<1>2. Len(new) = Len(log) + 1 /\ Len(log) \in Nat /\ new[Len(new)] = row
  BY <1>1
<1> QED
  BY <1>2 DEF Last

\* A comparison stores its quote in both places.
LEMMA CompareQuote ==
  ASSUME SynthTypeOK, "snapshot" \in Wired, NEW real_price \in RealPrices,
         NEW timestamp \in Timestamps, compareToReal(real_price, timestamp)
  PROVE  /\ real_ethusdt' = real_price /\ LatestQuote(snapshot_log') = real_price
         /\ mispricing_log' # mispricing_log => Last(mispricing_log').real = real_price
<1> DEFINE synthetic == Synthetic(leg)
           mrow == MispricingRow(synthetic, real_price, timestamp)
           srow == SnapshotRow(leg, real_price, synthetic, timestamp)
<1>1. /\ real_ethusdt' = real_price
      /\ mispricing_log' = Logged("mispricing", mispricing_log, mrow)
      /\ snapshot_log' = Logged("snapshot", snapshot_log, srow)
  BY DEF compareToReal
<1>2. LegType(leg) /\ Ready(leg)
  BY DEF SynthTypeOK, LegType, compareToReal
<1>3. /\ leg["ETHBTC"].price \in LegPrices["ETHBTC"]
      /\ leg["BTCUSDT"].price \in LegPrices["BTCUSDT"]
      /\ synthetic \in Nat \ {0}
  BY <1>2, SyntheticPositive
<1> HIDE DEF synthetic
<1>4. mrow \in MispricingRows /\ mrow.real = real_price
  BY <1>3 DEF MispricingRow, MispricingRows
<1>5. srow \in SnapshotRows /\ srow.real = real_price
  <2>1. synthetic - real_price \in Int
    BY <1>3, SynthAssumption
  <2> QED
    BY <1>3, <2>1 DEF SnapshotRow, SnapshotRows
<1>6. mispricing_log \in Seq(MispricingRows) /\ snapshot_log \in Seq(SnapshotRows)
  BY DEF SynthTypeOK
<1> HIDE DEF mrow, srow
<1>7. snapshot_log' # <<>> /\ Last(snapshot_log') = srow
  BY <1>1, <1>5, <1>6, LoggedLast
<1>8. mispricing_log' # mispricing_log => Last(mispricing_log') = mrow
  BY <1>1, <1>4, <1>6, LoggedLast
<1> QED
  BY <1>1, <1>4, <1>5, <1>7, <1>8 DEF LatestQuote

\* A leg tick is logged with the quote as it is.
LEMMA UpdateQuote ==
  ASSUME SynthTypeOK, NEW symbol \in Legs, NEW timestamp \in Timestamps,
         NEW price \in LegPrices[symbol], update(symbol, price, timestamp)
  PROVE  /\ UNCHANGED <<real_ethusdt, snapshot_log>>
         /\ mispricing_log' # mispricing_log => Last(mispricing_log').real = real_ethusdt
<1> DEFINE lg == [leg EXCEPT ![symbol] = [price |-> price, ts |-> timestamp, ready |-> TRUE]]
           row == MispricingRow(Synthetic(lg), real_ethusdt, timestamp)
<1> SUFFICES ASSUME mispricing_log' # mispricing_log
             PROVE  Last(mispricing_log').real = real_ethusdt
  BY DEF update
<1>1. synced_ticks(lg) /\ mispricing_log' = Logged("mispricing", mispricing_log, row)
  BY DEF update
<1>2. LegType(leg)
  BY DEF SynthTypeOK, LegType
<1> HIDE DEF lg
<1>3. LegType(lg)
  BY <1>2, LegTicked DEF lg
<1>4. Synthetic(lg) \in Nat \ {0}
  BY <1>1, <1>3, SyntheticPositive DEF synced_ticks
<1>5. row \in MispricingRows /\ row.real = real_ethusdt
  BY <1>4 DEF SynthTypeOK, MispricingRow, MispricingRows
<1>6. mispricing_log \in Seq(MispricingRows)
  BY DEF SynthTypeOK
<1> HIDE DEF row
<1> QED
  BY <1>1, <1>5, <1>6, LoggedLast

\* Every step keeps the quote, and every row it logs carries the latest one.
LEMMA QuoteStep ==
  ASSUME SynthTypeOK, QuoteKnown, [CoreStep]_vars
  PROVE  /\ QuoteKnown'
         /\ "snapshot" \in Wired /\ mispricing_log' # mispricing_log
              => Last(mispricing_log').real = LatestQuote(snapshot_log')
<1> SUFFICES ASSUME "snapshot" \in Wired
             PROVE  /\ real_ethusdt' = LatestQuote(snapshot_log')
                    /\ mispricing_log' # mispricing_log
                         => Last(mispricing_log').real = LatestQuote(snapshot_log')
  BY DEF QuoteKnown, LatestQuote
<1>0. real_ethusdt = LatestQuote(snapshot_log)
  BY DEF QuoteKnown
<1>1. ASSUME NEW symbol \in Legs, NEW timestamp \in Timestamps,
             NEW price \in LegPrices[symbol], update(symbol, price, timestamp)
      PROVE  /\ real_ethusdt' = LatestQuote(snapshot_log')
             /\ mispricing_log' # mispricing_log
                  => Last(mispricing_log').real = LatestQuote(snapshot_log')
  BY <1>0, <1>1, UpdateQuote
<1>2. ASSUME NEW real_price \in RealPrices, NEW timestamp \in Timestamps,
             compareToReal(real_price, timestamp)
      PROVE  /\ real_ethusdt' = LatestQuote(snapshot_log')
             /\ mispricing_log' # mispricing_log
                  => Last(mispricing_log').real = LatestQuote(snapshot_log')
  BY <1>2, CompareQuote
<1>3. CASE UNCHANGED vars
  BY <1>0, <1>3 DEF vars, synthVars
<1> QED
  BY <1>1, <1>2, <1>3, CoreCases

\* Every row of the mispricing file carries the latest quote, whoever calls.
LEMMA CoreQuotes == CoreSpec => RowsUseLatestQuote
<1> DEFINE Latest == ("snapshot" \in Wired /\ mispricing_log' # mispricing_log)
                       => Last(mispricing_log').real =
                            IF snapshot_log' = <<>> THEN 0 ELSE Last(snapshot_log').real
<1>1. SynthInit => QuoteKnown
  BY DEF SynthInit, QuoteKnown, LatestQuote
<1>2. SynthTypeOK /\ QuoteKnown /\ [CoreStep]_vars => QuoteKnown'
  BY QuoteStep
<1>3. SynthTypeOK /\ QuoteKnown /\ [CoreStep]_vars => [Latest]_vars
  BY QuoteStep DEF LatestQuote
<1> QED
  BY <1>1, <1>2, <1>3, CoreTypes, PTL DEF CoreSpec, RowsUseLatestQuote

\* SyntheticSpotSynth.hpp lines 40-41, 52 and 64-68: a row of the mispricing file
\* carries the quote of the latest snapshot row, whichever call wrote it.
THEOREM LatestQuoteCorrect == SynthSpec => RowsUseLatestQuote
  BY SynthCore, CoreQuotes
-----------------------------------------------------------------------------
\* The two engines inside the core: what is proved of them alone holds of them here.

\* The cooldown of the core is the cooldown that the engines' proofs are about.
LEMMA SameCooldown ==
  /\ Driven!ArbInit <=> Arb!ArbInit
  /\ Driven!ArbTypeOK <=> Arb!ArbTypeOK
  /\ Driven!LastTriggerIsLatest <=> Arb!LastTriggerIsLatest
  /\ Driven!CooldownOrRegression <=> Arb!CooldownOrRegression
<1>1. Driven!ArbInit <=> Arb!ArbInit
  BY DEF Driven!ArbInit, Arb!ArbInit
<1>2. Driven!ArbTypeOK <=> Arb!ArbTypeOK
  BY DEF Driven!ArbTypeOK, Arb!ArbTypeOK
<1>3. Driven!LastTriggerIsLatest <=> Arb!LastTriggerIsLatest
  BY DEF Driven!LastTriggerIsLatest, Arb!LastTriggerIsLatest
<1>4. Driven!CooldownOrRegression <=> Arb!CooldownOrRegression
  BY DEF Driven!CooldownOrRegression, Arb!CooldownOrRegression, Driven!cooldown, Arb!cooldown
<1> QED
  BY <1>1, <1>2, <1>3, <1>4

\* A signal of the core is a signal of the engines' proofs.
LEMMA SameTrigger ==
  ASSUME NEW t, Arb!shouldTrigger("ETHUSDT", t)
  PROVE  Driven!Admissible("ETHUSDT", t) /\ Driven!shouldTrigger("ETHUSDT", t)
<1>1. Driven!Admissible("ETHUSDT", t)
  BY DEF Driven!Admissible
<1>2. Driven!CooldownPassed("ETHUSDT", t)
  BY DEF Arb!shouldTrigger, Driven!CooldownPassed, Arb!CooldownPassed, Driven!USub, Arb!USub,
         Driven!cooldown, Arb!cooldown
<1> QED
  BY <1>1, <1>2 DEF Driven!shouldTrigger, Arb!shouldTrigger

\* Every call of the core is a step of each engine, or leaves it alone.
LEMMA CoreDrives ==
  ASSUME SynthTypeOK, [CoreStep]_vars
  PROVE  Driven!ArbStep /\ Driven!PnLStep
<1>1. ASSUME UNCHANGED <<arbVars, pnlVars>> PROVE Driven!ArbStep /\ Driven!PnLStep
  BY <1>1 DEF arbVars, pnlVars, Driven!arbVars, Driven!pnlVars, Driven!ArbStep, Driven!PnLStep
<1>2. ASSUME NEW symbol \in Legs, NEW timestamp \in Timestamps,
             NEW price \in LegPrices[symbol], update(symbol, price, timestamp)
      PROVE  Driven!ArbStep /\ Driven!PnLStep
  BY <1>1, <1>2 DEF update
<1>3. ASSUME NEW real_price \in RealPrices, NEW timestamp \in Timestamps,
             compareToReal(real_price, timestamp)
      PROVE  Driven!ArbStep /\ Driven!PnLStep
  <2>1. \/ /\ Arb!shouldTrigger("ETHUSDT", timestamp)
           /\ Execute(Synthetic(leg), real_price, timestamp)
        \/ UNCHANGED <<arbVars, pnlVars>>
    BY <1>3 DEF compareToReal
  <2>2. CASE /\ Arb!shouldTrigger("ETHUSDT", timestamp)
             /\ Execute(Synthetic(leg), real_price, timestamp)
    <3>1. Driven!Admissible("ETHUSDT", timestamp) /\ Driven!shouldTrigger("ETHUSDT", timestamp)
      BY <2>2, SameTrigger
    <3>2. Driven!ArbStep
      BY <3>1 DEF Driven!ArbStep
    <3>3. Synthetic(leg) \in Nat \ {0}
      BY <1>3, SyntheticPositive DEF SynthTypeOK, LegType, compareToReal
    <3>4. Driven!PnLStep
      <4>1. CASE "pnl" \in Wired
        <5>1. \E t \in Driven!Trade : t.size <= MaxExposure * Scale /\ Driven!Booked(t)
          BY <2>2, <3>3, <4>1, ExecutedTrade
        <5> QED
          BY <5>1 DEF Driven!PnLStep
      <4>2. CASE "pnl" \notin Wired
        BY <2>2, <4>2 DEF Execute, pnlVars, Driven!pnlVars, Driven!PnLStep
      <4> QED
        BY <4>1, <4>2
    <3> QED
      BY <3>2, <3>4
  <2> QED
    BY <1>1, <2>1, <2>2
<1>4. CASE UNCHANGED vars
  BY <1>1, <1>4 DEF vars
<1> QED
  BY <1>2, <1>3, <1>4, CoreCases

\* So the engines' invariants are invariants of the core, whoever calls.
LEMMA CoreEngines == CoreSpec => [](Driven!ArbInv /\ Driven!PnLInv)
<1>1. SynthInit => Driven!ArbInv /\ Driven!PnLInv
  <2> SUFFICES ASSUME SynthInit PROVE Driven!ArbInv /\ Driven!PnLInv
    OBVIOUS
  <2>1. Driven!ArbInit /\ Driven!PnLInit
    BY SameCooldown, SameLedger DEF SynthInit
  <2>2. Driven!ArbTypeOK /\ Driven!LastTriggerIsLatest /\ Driven!CooldownOrRegression
    BY <2>1, EnginesApply, Driven!ArbStart
  <2>3. Driven!PnLTypeOK /\ Driven!LedgerReconciles /\ Driven!ExposureTracked
    BY <2>1, EnginesApply, Driven!PnLStart
  <2> QED
    BY <2>2, <2>3 DEF Driven!ArbInv, Driven!PnLInv
<1>2. SynthTypeOK /\ [CoreStep]_vars /\ Driven!ArbInv => Driven!ArbInv'
  BY CoreDrives, EnginesApply, Driven!ArbInvStep
<1>3. SynthTypeOK /\ [CoreStep]_vars /\ Driven!PnLInv => Driven!PnLInv'
  BY CoreDrives, EnginesApply, Driven!PnLInvStep
<1> QED
  BY <1>1, <1>2, <1>3, CoreTypes, PTL DEF CoreSpec

\* What the engines promise, of the core's engines.
EnginesKeepPromises ==
  /\ Arb!LastTriggerIsLatest /\ Arb!CooldownOrRegression
  /\ Ledger!LedgerReconciles /\ Ledger!ExposureTracked

\* It holds whoever calls the core.
LEMMA CorePromises == CoreSpec => []EnginesKeepPromises
<1>1. Driven!ArbInv /\ Driven!PnLInv => EnginesKeepPromises
  BY SameCooldown, SameLedger DEF Driven!ArbInv, Driven!PnLInv, EnginesKeepPromises
<1> QED
  BY <1>1, CoreEngines, PTL

\* SyntheticSpotSynth.hpp lines 75-91, with ArbOpportunityEngine.hpp and MockPnLEngine.hpp:
\* driven by the core, whatever is attached to it, the cooldown's map follows the
\* signals, two signals in a row are a cooldown apart or go back in time, the ledger
\* agrees with its statistics and both files, and no trade exceeds the cap.
THEOREM EnginesInCore == SynthSpec => []EnginesKeepPromises
  BY SynthCore, CorePromises
-----------------------------------------------------------------------------
\* Refinement: seen through its engines, the core runs their specifications, the
\* bounds on signals and trades included.

\* Every signal and every trade has its row in the mispricing file.
RowPerSignal == /\ Len(Signals) <= Len(mispricing_log)
                /\ Len(trades) <= Len(mispricing_log)

\* A comparison is a step of each engine's specification, or leaves the engine alone,
\* and it logs its row.
LEMMA RefinedStep ==
  ASSUME SynthTypeOK, "mispricing" \in Wired, Len(mispricing_log) < MaxRows, RowPerSignal,
         NEW real_price \in RealPrices, NEW timestamp \in Timestamps,
         compareToReal(real_price, timestamp)
  PROVE  /\ RowPerSignal'
         /\ [Arb!ArbNext]_(Arb!arbVars) /\ [Ledger!PnLNext]_(Ledger!pnlVars)
<1> DEFINE synthetic == Synthetic(leg)
<1>0. /\ mispricing_log \in Seq(MispricingRows) /\ Signals \in Seq(Timestamps)
      /\ trades \in Seq(Ledger!Trade) /\ fired \in [{"ETHUSDT"} -> Seq(Timestamps)]
  BY DEF SynthTypeOK, Arb!ArbTypeOK, Ledger!PnLTypeOK, Signals
<1>1. mispricing_log' = Append(mispricing_log, MispricingRow(synthetic, real_price, timestamp))
  BY DEF compareToReal, Logged
<1>2. /\ Len(mispricing_log') = Len(mispricing_log) + 1
      /\ Len(mispricing_log) \in Nat /\ Len(Signals) \in Nat /\ Len(trades) \in Nat
      /\ MaxRows \in Nat
  BY <1>0, <1>1, SynthAssumption
<1>3. Len(Signals) < MaxRows /\ Len(trades) < MaxRows
  BY <1>2 DEF RowPerSignal
<1>4. \/ Arb!shouldTrigger("ETHUSDT", timestamp) /\ Execute(synthetic, real_price, timestamp)
      \/ UNCHANGED <<arbVars, pnlVars>>
  BY DEF compareToReal
<1>5. CASE UNCHANGED <<arbVars, pnlVars>>
  <2>1. UNCHANGED Arb!arbVars /\ UNCHANGED Ledger!pnlVars
    BY <1>5 DEF arbVars, pnlVars, Arb!arbVars, Ledger!pnlVars
  <2>2. Len(Signals') = Len(Signals) /\ Len(trades') = Len(trades)
    BY <1>5 DEF arbVars, pnlVars, Signals
  <2>3. RowPerSignal'
    BY <1>2, <2>2 DEF RowPerSignal
  <2> QED
    BY <2>1, <2>3
<1>6. CASE Arb!shouldTrigger("ETHUSDT", timestamp) /\ Execute(synthetic, real_price, timestamp)
  <2>1. Signals' = Append(Signals, timestamp)
    BY <1>0, <1>6 DEF Arb!shouldTrigger, Signals
  <2>2. Len(Signals') = Len(Signals) + 1
    BY <1>0, <2>1
  <2>3. Arb!ArbNext
    <3>1. Arb!Admissible("ETHUSDT", timestamp) /\ Len(fired["ETHUSDT"]) < MaxRows
      BY <1>3 DEF Arb!Admissible, Signals
    <3> QED
      BY <1>6, <3>1 DEF Arb!ArbNext
  <2>4. synthetic \in Nat \ {0}
    BY SyntheticPositive DEF SynthTypeOK, LegType, compareToReal
  <2> HIDE DEF synthetic
  <2>5. [Ledger!PnLNext]_(Ledger!pnlVars) /\ Len(trades') <= Len(trades) + 1
    <3>1. CASE "pnl" \in Wired
      <4> DEFINE s == Entry(synthetic, real_price)
                 r == Exit(synthetic, real_price)
                 d == Direction(synthetic, real_price)
      <4>1. s \in Nat \ {0} /\ r \in Nat \ {0} /\ d \in Ledger!Directions
        BY <2>4, ExecutedPrices DEF Ledger!Directions
      <4>2. Ledger!recordTrade(s, r, timestamp, d)
        BY <1>6, <3>1 DEF Execute, Entry, Exit, Direction
      <4> HIDE DEF s, r, d
      <4>3. Ledger!PnLNext
        BY <1>3, <4>1, <4>2 DEF Ledger!PnLNext
      <4>4. PICK t \in Ledger!Trade : trades' = Append(trades, t)
        BY <1>6, <2>4, <3>1, Executed DEF SynthTypeOK
      <4>5. Len(trades') = Len(trades) + 1
        BY <1>0, <4>4
      <4> QED
        BY <1>2, <4>3, <4>5
    <3>2. CASE "pnl" \notin Wired
      BY <1>2, <1>6, <3>2 DEF Execute, pnlVars, Ledger!pnlVars
    <3> QED
      BY <3>1, <3>2
  <2>6. Len(trades') \in Nat
    <3>1. Ledger!PnLTypeOK'
      BY <1>6, <2>4, Executed DEF SynthTypeOK
    <3> QED
      BY <3>1 DEF Ledger!PnLTypeOK
  <2>7. RowPerSignal'
    BY <1>2, <2>2, <2>5, <2>6 DEF RowPerSignal
  <2> QED
    BY <2>3, <2>5, <2>7
<1> QED
  BY <1>4, <1>5, <1>6

\* SyntheticSpotSynth.hpp lines 73-91: with the mispricing file attached, the core
\* implements the specification of the cooldown and that of the ledger: it calls the
\* one only for its symbol, the other only with positive prices and times of ticks,
\* and neither more often than it logs.
THEOREM CoreImplementsEngines ==
  "mispricing" \in Wired => (SynthSpec => Arb!ArbSpec /\ Ledger!PnLSpec)
<1> SUFFICES ASSUME "mispricing" \in Wired PROVE SynthSpec => Arb!ArbSpec /\ Ledger!PnLSpec
  OBVIOUS
<1>1. SynthInit => RowPerSignal /\ Arb!ArbInit /\ Ledger!PnLInit
  <2> SUFFICES ASSUME SynthInit PROVE RowPerSignal
    BY DEF SynthInit
  <2>1. mispricing_log = <<>> /\ Signals = <<>> /\ trades = <<>>
    BY DEF SynthInit, Arb!ArbInit, Ledger!PnLInit, Signals
  <2> QED
    BY <2>1 DEF RowPerSignal
<1>2. SynthTypeOK /\ RowPerSignal /\ [SynthNext]_vars
        => /\ RowPerSignal'
           /\ [Arb!ArbNext]_(Arb!arbVars) /\ [Ledger!PnLNext]_(Ledger!pnlVars)
  <2> SUFFICES ASSUME SynthTypeOK, RowPerSignal, [SynthNext]_vars
               PROVE  /\ RowPerSignal'
                      /\ [Arb!ArbNext]_(Arb!arbVars) /\ [Ledger!PnLNext]_(Ledger!pnlVars)
    OBVIOUS
  <2>1. ASSUME NEW symbol \in Legs, NEW timestamp \in Timestamps,
               NEW price \in LegPrices[symbol], update(symbol, price, timestamp)
        PROVE  /\ RowPerSignal'
               /\ [Arb!ArbNext]_(Arb!arbVars) /\ [Ledger!PnLNext]_(Ledger!pnlVars)
    <3>1. UNCHANGED <<arbVars, pnlVars>>
      BY <2>1 DEF update
    <3>2. UNCHANGED Arb!arbVars /\ UNCHANGED Ledger!pnlVars
      BY <3>1 DEF arbVars, pnlVars, Arb!arbVars, Ledger!pnlVars
    <3>3. Len(Signals') = Len(Signals) /\ Len(trades') = Len(trades)
      BY <3>1 DEF arbVars, pnlVars, Signals
    <3>4. Len(mispricing_log) <= Len(mispricing_log')
      <4>1. mispricing_log \in Seq(MispricingRows)
        BY DEF SynthTypeOK
      <4>2. mispricing_log' = mispricing_log
              \/ \E row : mispricing_log' = Append(mispricing_log, row)
        BY <2>1 DEF update, Logged
      <4> QED
        BY <4>1, <4>2
    <3>5. /\ Len(mispricing_log) \in Nat /\ Len(mispricing_log') \in Nat
          /\ Len(Signals) \in Nat /\ Len(trades) \in Nat
      <4>1. SynthTypeOK'
        BY <2>1, UpdateTypes
      <4>2. mispricing_log \in Seq(MispricingRows) /\ mispricing_log' \in Seq(MispricingRows)
        BY <4>1 DEF SynthTypeOK
      <4>3. Signals \in Seq(Timestamps) /\ trades \in Seq(Ledger!Trade)
        BY DEF SynthTypeOK, Arb!ArbTypeOK, Ledger!PnLTypeOK, Signals
      <4> QED
        BY <4>2, <4>3
    <3> QED
      BY <3>2, <3>3, <3>4, <3>5 DEF RowPerSignal
  <2>2. CASE UNCHANGED vars
    BY <2>2 DEF vars, synthVars, arbVars, pnlVars, Arb!arbVars, Ledger!pnlVars, RowPerSignal,
                Signals
  <2>3. \/ \E symbol \in Legs, timestamp \in Timestamps :
             \E price \in LegPrices[symbol] : update(symbol, price, timestamp)
        \/ /\ Len(mispricing_log) < MaxRows
           /\ \E real_price \in RealPrices, timestamp \in Timestamps :
                compareToReal(real_price, timestamp)
        \/ UNCHANGED vars
    BY DEF SynthNext, missingFeed
  <2> QED
    BY <2>1, <2>2, <2>3, RefinedStep
<1> QED
  BY <1>1, <1>2, SynthTypeCorrect, PTL DEF SynthSpec, Arb!ArbSpec, Ledger!PnLSpec
-----------------------------------------------------------------------------
\* The average over the window.  The library's induction theorems take an operator and
\* are out of the provers' reach; the least-number principle takes a set, and with it
\* the recursion inside the fold that sums the buffer can be unrolled.

\* A set of naturals that is not empty has a least element.
LEMMA LeastNatural ==
  ASSUME NEW T, T \subseteq Nat, T # {}
  PROVE  \E m \in T : \A k \in T : m <= k
<1> DEFINE R == OpToRel(<, Nat)
<1>1. PICK m \in T : \A k \in T : ~ (<<k, m>> \in R)
  <2>1. IsWellFoundedOn(R, Nat)
    BY NatLessThanWellFounded
  <2> HIDE DEF R
  <2> QED
    BY <2>1, WFMin
<1>2. ASSUME NEW k \in T PROVE m <= k
  <2>1. k \in Nat /\ m \in Nat
    OBVIOUS
  <2>2. k < m => <<k, m>> \in R
    BY <2>1 DEF OpToRel
  <2> HIDE DEF R
  <2> QED
    BY <1>1, <2>1, <2>2
<1> QED
  BY <1>2

\* Induction, for membership in a set.
LEMMA NatSetInduction ==
  ASSUME NEW S, 0 \in S, \A n \in Nat : n \in S => n + 1 \in S
  PROVE  Nat \subseteq S
<1> SUFFICES ASSUME Nat \ S # {} PROVE FALSE
  OBVIOUS
<1>1. PICK m \in Nat \ S : \A k \in Nat \ S : m <= k
  BY LeastNatural
<1>2. m - 1 \in Nat
  BY <1>1
<1>3. m - 1 \in S
  BY <1>1, <1>2
<1> QED
  BY <1>1, <1>2, <1>3

\* The sums of a buffer's elements over sets of indices: the recursion inside FoldSeq.
Iter(buf) ==
  CHOOSE it : it = [s \in SUBSET (DOMAIN buf) |->
                      IF s = {} THEN 0
                      ELSE buf[CHOOSE x \in s : TRUE] + it[s \ {CHOOSE x \in s : TRUE}]]

\* The sum that isPersistentSpike takes is the one over all indices.
LEMMA FoldIs == ASSUME NEW buf PROVE FoldSeq(+, 0, buf) = Iter(buf)[DOMAIN buf]
  BY Zenon DEF FoldSeq, FoldFunction, FoldFunctionOnSet, MapThenFoldSet, Iter

\* The sets of indices are finite; taking an index out of one makes it smaller.
LEMMA IndexSets ==
  ASSUME NEW n \in Nat
  PROVE  /\ \A s \in SUBSET (1 .. n) :
              /\ Cardinality(s) \in Nat /\ Cardinality(s) <= n
              /\ Cardinality(s) = 0 <=> s = {}
              /\ s # {} => LET x == CHOOSE y \in s : TRUE
                          IN  /\ x \in s /\ s \ {x} \in SUBSET (1 .. n)
                              /\ Cardinality(s \ {x}) = Cardinality(s) - 1
         /\ Cardinality(1 .. n) = n
<1>1. IsFiniteSet(1 .. n) /\ Cardinality(1 .. n) = n
  <2>1. /\ IsFiniteSet(1 .. n)
        /\ Cardinality(1 .. n) = IF 1 > n THEN 0 ELSE n - 1 + 1
    BY FS_Interval
  <2> QED
    BY <2>1
<1>2. ASSUME NEW s \in SUBSET (1 .. n)
      PROVE  /\ Cardinality(s) \in Nat /\ Cardinality(s) <= n
             /\ Cardinality(s) = 0 <=> s = {}
             /\ s # {} => LET x == CHOOSE y \in s : TRUE
                         IN  /\ x \in s /\ s \ {x} \in SUBSET (1 .. n)
                             /\ Cardinality(s \ {x}) = Cardinality(s) - 1
  <2> DEFINE x == CHOOSE y \in s : TRUE
  <2>1. IsFiniteSet(s) /\ Cardinality(s) <= Cardinality(1 .. n)
    BY <1>1, FS_Subset, Zenon
  <2>2. Cardinality(s) \in Nat /\ (Cardinality(s) = 0 <=> s = {})
    BY <2>1, FS_CardinalityType, FS_EmptySet
  <2>3. s # {} => x \in s
    OBVIOUS
  <2> HIDE DEF x
  <2>4. x \in s => Cardinality(s \ {x}) = Cardinality(s) - 1
    BY <2>1, FS_RemoveElement
  <2>5. s \ {x} \in SUBSET (1 .. n)
    OBVIOUS
  <2>6. Cardinality(s) <= n
    BY <1>1, <2>1
  <2> QED
    BY <2>2, <2>3, <2>4, <2>5, <2>6 DEF x
<1> QED
  BY <1>1, <1>2

\* The sum over a set of indices, unfolded by one element.
LEMMA IterDef ==
  ASSUME NEW n \in Nat, NEW buf \in [1 .. n -> Int]
  PROVE  \A s \in SUBSET (1 .. n) :
           Iter(buf)[s] = IF s = {} THEN 0
                          ELSE buf[CHOOSE x \in s : TRUE] + Iter(buf)[s \ {CHOOSE x \in s : TRUE}]
<1> DEFINE D == SUBSET (1 .. n)
           c(s) == CHOOSE x \in s : TRUE
           Step(g, s) == IF s = {} THEN 0 ELSE buf[c(s)] + g[s \ {c(s)}]
           Good(g, k) == \A s \in D : Cardinality(s) <= k => g[s] = Step(g, s)
           K == {k \in Nat : \E g \in [D -> Int] : Good(g, k)}
<1>1. \A s \in D : Cardinality(s) \in Nat /\ Cardinality(s) <= n
  BY IndexSets
<1>2. \A s \in D : s # {} => c(s) \in s /\ buf[c(s)] \in Int
  OBVIOUS
<1>3. \A s \in D : s # {} => s \ {c(s)} \in D /\ Cardinality(s \ {c(s)}) = Cardinality(s) - 1
  BY IndexSets
<1>4. \A s \in D : Cardinality(s) = 0 <=> s = {}
  BY IndexSets
<1> HIDE DEF D, c
<1>5. 0 \in K
  <2> DEFINE g == [s \in D |-> 0]
  <2>1. g \in [D -> Int] /\ Good(g, 0)
    BY <1>1, <1>4
  <2> QED
    BY <2>1
<1>6. ASSUME NEW k \in Nat, k \in K PROVE k + 1 \in K
  <2>1. PICK g \in [D -> Int] : Good(g, k)
    BY <1>6
  <2> DEFINE h == [s \in D |-> IF Cardinality(s) <= k THEN g[s] ELSE Step(g, s)]
  <2>2. \A s \in D : Step(g, s) \in Int
    <3> SUFFICES ASSUME NEW s \in D, s # {} PROVE buf[c(s)] + g[s \ {c(s)}] \in Int
      OBVIOUS
    <3>1. buf[c(s)] \in Int /\ g[s \ {c(s)}] \in Int
      BY <1>2, <1>3
    <3> QED
      BY <3>1
  <2>3. h \in [D -> Int]
    BY <2>2
  <2>4. ASSUME NEW s \in D, Cardinality(s) <= k + 1 PROVE h[s] = Step(h, s)
    <3>1. CASE s = {}
      BY <1>4, <2>1, <3>1
    <3>2. CASE s # {}
      <4> DEFINE r == s \ {c(s)}
      <4>1. r \in D /\ Cardinality(r) <= k
        BY <1>1, <1>3, <2>4, <3>2
      <4>2. h[r] = g[r]
        BY <4>1
      <4>3. h[s] = Step(g, s)
        BY <2>1
      <4> QED
        BY <3>2, <4>2, <4>3
    <3> QED
      BY <3>1, <3>2
  <2> HIDE DEF h
  <2>5. Good(h, k + 1)
    BY <2>4
  <2> HIDE DEF Good
  <2>6. k + 1 \in Nat
    OBVIOUS
  <2> QED
    BY <2>3, <2>5, <2>6
<1>7. n \in K
  BY <1>5, <1>6, NatSetInduction
<1>8. PICK g \in [D -> Int] : Good(g, n)
  BY <1>7
<1>9. g = [s \in D |-> Step(g, s)]
  BY <1>1, <1>8
<1>10. Iter(buf) = [s \in D |-> Step(Iter(buf), s)]
  <2>1. DOMAIN buf = 1 .. n
    OBVIOUS
  <2>2. g = [s \in SUBSET (DOMAIN buf) |->
               IF s = {} THEN 0
               ELSE buf[CHOOSE x \in s : TRUE] + g[s \ {CHOOSE x \in s : TRUE}]]
    BY <1>9, <2>1, Zenon DEF D, c
  <2>3. Iter(buf) = [s \in SUBSET (DOMAIN buf) |->
               IF s = {} THEN 0
               ELSE buf[CHOOSE x \in s : TRUE] + Iter(buf)[s \ {CHOOSE x \in s : TRUE}]]
    BY <2>2, Zenon DEF Iter
  <2> QED
    BY <2>1, <2>3, Zenon DEF D, c
<1> QED
  BY <1>10 DEF D, c

\* A sum of n numbers of size at most m has at most size m * n.
LEMMA SumBound ==
  ASSUME NEW n \in Nat, NEW buf \in [1 .. n -> Int], NEW m \in Nat,
         \A i \in 1 .. n : Abs(buf[i]) <= m
  PROVE  FoldSeq(+, 0, buf) \in Int /\ Abs(FoldSeq(+, 0, buf)) <= m * n
<1> DEFINE D == SUBSET (1 .. n)
           Bounded(s) == Iter(buf)[s] \in Int /\ Abs(Iter(buf)[s]) <= m * Cardinality(s)
           K == {k \in Nat : \A s \in D : Cardinality(s) = k => Bounded(s)}
<1>1. \A s \in D : s = {} => Bounded(s)
  <2>1. Iter(buf)[{}] = 0
    BY IterDef
  <2>2. Cardinality({}) = 0 /\ m * 0 = 0
    BY FS_EmptySet
  <2> QED
    BY <2>1, <2>2 DEF Abs
<1>2. 0 \in K
  BY <1>1, IndexSets
<1>3. ASSUME NEW k \in Nat, k \in K PROVE k + 1 \in K
  <2> SUFFICES ASSUME NEW s \in D, Cardinality(s) = k + 1 PROVE Bounded(s)
    OBVIOUS
  <2> DEFINE x == CHOOSE y \in s : TRUE
             r == s \ {x}
  <2>1. s # {} /\ x \in 1 .. n /\ r \in D /\ Cardinality(r) = k
    <3>1. s # {}
      BY IndexSets
    <3>2. x \in s /\ r \in SUBSET (1 .. n) /\ Cardinality(r) = Cardinality(s) - 1
      BY <3>1, IndexSets, Zenon
    <3> HIDE DEF x, r
    <3> QED
      BY <3>1, <3>2
  <2>2. Iter(buf)[s] = buf[x] + Iter(buf)[r]
    BY <2>1, IterDef
  <2> HIDE DEF x, r
  <2>3. Iter(buf)[r] \in Int /\ Abs(Iter(buf)[r]) <= m * k
    BY <1>3, <2>1
  <2>4. buf[x] \in Int /\ Abs(buf[x]) <= m
    BY <2>1
  <2>5. m * (k + 1) = m * k + m /\ m * k \in Int
    OBVIOUS
  <2> HIDE DEF D
  <2> QED
    BY <2>2, <2>3, <2>4, <2>5 DEF Abs
<1>4. n \in K
  BY <1>2, <1>3, NatSetInduction
<1>5. Bounded(1 .. n)
  BY <1>4, IndexSets
<1>6. FoldSeq(+, 0, buf) = Iter(buf)[1 .. n]
  BY FoldIs
<1> QED
  BY <1>5, <1>6, IndexSets

\* An average of the spike threshold's size has a gap of that size in its window.
LEMMA SpikeHasLargeDelta ==
  ASSUME NEW buf \in Seq(Int), buf # <<>>, isPersistentSpike(buf)
  PROVE  \E i \in 1 .. Len(buf) : Abs(buf[i]) >= SpikeThreshold
<1> DEFINE n == Len(buf)
           m == SpikeThreshold - 1
           sum == FoldSeq(+, 0, buf)
<1> SUFFICES ASSUME \A i \in 1 .. n : ~(Abs(buf[i]) >= SpikeThreshold) PROVE FALSE
  OBVIOUS
<1>1. n \in Nat /\ n # 0 /\ buf \in [1 .. n -> Int]
  OBVIOUS
<1>2. Abs(sum) >= SpikeThreshold * n
  BY DEF isPersistentSpike
<1>3. m \in Nat /\ SpikeThreshold \in Nat
  BY SynthAssumption
<1> HIDE DEF n
<1>4. ASSUME NEW i \in 1 .. n PROVE Abs(buf[i]) <= m
  <2>1. buf[i] \in Int /\ ~(Abs(buf[i]) >= SpikeThreshold)
    BY <1>1
  <2> QED
    BY <1>3, <2>1 DEF Abs
<1>5. SpikeThreshold * n = m * n + n /\ m * n \in Nat
  BY <1>1, <1>3
<1> HIDE DEF m
<1>6. sum \in Int /\ Abs(sum) <= m * n
  BY <1>1, <1>3, <1>4, SumBound
<1> HIDE DEF sum
<1> QED
  BY <1>1, <1>2, <1>5, <1>6 DEF Abs

\* A row of the window that ends at row n of the snapshot file shows a gap of the size
\* of the spike threshold.
LargeGap(log, n) == \E i \in DOMAIN log :
                      i <= n /\ i > n - Window /\ Abs(log[i].diff) >= SpikeThreshold

\* Every call keeps it so: the rows already there stay, and a new average is taken
\* over the last rows.
LEMMA SpikeStep ==
  ASSUME SynthTypeOK, SynthTypeOK', WindowIsRecentDeltas', SpikeNeedsRecentDelta,
         [CoreStep]_vars
  PROVE  SpikeNeedsRecentDelta'
<1> SUFFICES ASSUME "snapshot" \in Wired, NEW n \in evaluated' PROVE LargeGap(snapshot_log', n)
  BY DEF SpikeNeedsRecentDelta, LargeGap, Abs
<1>0. \A k \in evaluated : LargeGap(snapshot_log, k)
  BY DEF SpikeNeedsRecentDelta, LargeGap
<1>1. ASSUME NEW symbol \in Legs, NEW timestamp \in Timestamps,
             NEW price \in LegPrices[symbol], update(symbol, price, timestamp)
      PROVE  LargeGap(snapshot_log', n)
  <2>1. UNCHANGED <<snapshot_log, evaluated>>
    BY <1>1 DEF update
  <2> QED
    BY <1>0, <2>1
<1>2. ASSUME NEW real_price \in RealPrices, NEW timestamp \in Timestamps,
             compareToReal(real_price, timestamp)
      PROVE  LargeGap(snapshot_log', n)
  <2> DEFINE row == SnapshotRow(leg, real_price, Synthetic(leg), timestamp)
             len == Len(snapshot_log)
  <2>1. snapshot_log' = Append(snapshot_log, row)
    BY <1>2 DEF compareToReal, Logged
  <2>2. /\ n \in evaluated \/ (n = Len(snapshot_log') /\ isPersistentSpike(buffer'))
    BY <1>2 DEF compareToReal
  <2> HIDE DEF row
  <2>3. snapshot_log \in Seq(SnapshotRows) /\ evaluated \subseteq 0 .. len
    BY DEF SynthTypeOK
  <2>4. /\ len \in Nat /\ DOMAIN snapshot_log = 1 .. len
        /\ DOMAIN snapshot_log' = 1 .. len + 1 /\ Len(snapshot_log') = len + 1
        /\ \A i \in 1 .. len : snapshot_log'[i] = snapshot_log[i]
    BY <2>1, <2>3
  <2>5. CASE n \in evaluated
    <3>1. PICK i \in DOMAIN snapshot_log :
                 i <= n /\ i > n - Window /\ Abs(snapshot_log[i].diff) >= SpikeThreshold
      BY <1>0, <2>5 DEF LargeGap
    <3>2. i \in DOMAIN snapshot_log' /\ snapshot_log'[i] = snapshot_log[i]
      BY <2>4
    <3> QED
      BY <3>1, <3>2 DEF LargeGap
  <2>6. CASE n = Len(snapshot_log') /\ isPersistentSpike(buffer')
    <3> DEFINE w == Len(buffer')
    <3>1. /\ w = Ledger!Smaller(Window, len + 1)
          /\ \A j \in DOMAIN buffer' : buffer'[j] = snapshot_log'[len + 1 - w + j].diff
      BY <2>4 DEF WindowIsRecentDeltas, Ledger!Smaller
    <3>2. buffer' \in Seq(Int) /\ Window \in Nat \ {0}
      BY SynthAssumption DEF SynthTypeOK
    <3>3. w \in Nat /\ w >= 1 /\ w <= Window /\ w <= len + 1
      BY <2>4, <3>1, <3>2 DEF Ledger!Smaller
    <3>4. buffer' # <<>>
      BY <3>3
    <3>5. PICK j \in 1 .. w : Abs(buffer'[j]) >= SpikeThreshold
      BY <2>6, <3>2, <3>4, SpikeHasLargeDelta
    <3>6. j \in DOMAIN buffer'
      BY <3>2
    <3> DEFINE i == len + 1 - w + j
    <3>7. Abs(snapshot_log'[i].diff) >= SpikeThreshold
      BY <3>1, <3>5, <3>6
    <3>8. i \in 1 .. len + 1 /\ i <= n /\ i > n - Window
      BY <2>4, <2>6, <3>2, <3>3
    <3> HIDE DEF i
    <3> QED
      BY <2>4, <3>7, <3>8 DEF LargeGap
  <2> QED
    BY <2>2, <2>5, <2>6
<1>3. CASE UNCHANGED vars
  <2>1. UNCHANGED <<snapshot_log, evaluated>>
    BY <1>3 DEF vars, synthVars
  <2> QED
    BY <1>0, <2>1
<1> QED
  BY <1>1, <1>2, <1>3, CoreCases

\* evaluate is never called without a recent gap of the threshold's size, whoever calls.
LEMMA CoreSpikes == CoreSpec => []SpikeNeedsRecentDelta
<1>1. SynthInit => SpikeNeedsRecentDelta
  BY DEF SynthInit, SpikeNeedsRecentDelta
<1>2. SynthInv => WindowIsRecentDeltas
  BY DEF SynthInv
<1> QED
  BY <1>1, <1>2, SpikeStep, CoreTypes, SynthInvariant, PTL DEF CoreSpec

\* MispricingBuffer.hpp with SyntheticSpotSynth.hpp lines 54 and 70-71: evaluate is called on an average,
\* for every size of the window, yet never without a gap of the spike threshold's size
\* among the comparisons averaged.
THEOREM SpikeCorrect == SynthSpec => []SpikeNeedsRecentDelta
  BY SynthCore, CoreSpikes
-----------------------------------------------------------------------------
\* The sign of a trade's profit.

\* What is left of a gap after the slippage on both prices, in the unit of a trade's
\* prices: the price difference in the trade's favour, for either direction.
Gain(synthetic, real) == SlipDen * Abs(synthetic - real) - (real + synthetic)

\* It is the difference of the slipped prices, and the price that the profit is divided
\* by is positive and at most the real price slipped upwards.
LEMMA GainIs ==
  ASSUME NEW synthetic \in Nat \ {0}, NEW real \in RealPrices
  PROVE  LET s == Entry(synthetic, real)
             r == Exit(synthetic, real)
         IN  /\ Gain(synthetic, real) \in Int
             /\ Gain(synthetic, real) = IF Direction(synthetic, real) = "BUY" THEN r - s ELSE s - r
             /\ r <= real * (SlipDen + 1)
<1>1. real \in Nat \ {0} /\ SlipDen \in Nat
  BY SynthAssumption
<1>2. /\ synthetic * (SlipDen + 1) = SlipDen * synthetic + synthetic
      /\ synthetic * (SlipDen - 1) = SlipDen * synthetic - synthetic
      /\ real * (SlipDen + 1) = SlipDen * real + real
      /\ real * (SlipDen - 1) = SlipDen * real - real
      /\ SlipDen * (synthetic - real) = SlipDen * synthetic - SlipDen * real
      /\ SlipDen * (real - synthetic) = SlipDen * real - SlipDen * synthetic
      /\ SlipDen * synthetic \in Int /\ SlipDen * real \in Int
  BY <1>1
<1>3. CASE synthetic > real
  <2>1. Abs(synthetic - real) = synthetic - real
    BY <1>1, <1>3 DEF Abs
  <2>2. /\ Direction(synthetic, real) = "SELL"
        /\ Entry(synthetic, real) = synthetic * (SlipDen - 1)
        /\ Exit(synthetic, real) = real * (SlipDen + 1)
    BY <1>3 DEF Direction, Entry, Exit, Slipped
  <2> QED
    BY <1>1, <1>2, <2>1, <2>2 DEF Gain
<1>4. CASE ~(synthetic > real)
  <2>1. Abs(synthetic - real) = real - synthetic
    BY <1>1, <1>4 DEF Abs
  <2>2. /\ Direction(synthetic, real) = "BUY"
        /\ Entry(synthetic, real) = synthetic * (SlipDen + 1)
        /\ Exit(synthetic, real) = real * (SlipDen - 1)
    BY <1>4 DEF Direction, Entry, Exit, Slipped
  <2> QED
    BY <1>1, <1>2, <2>1, <2>2 DEF Gain
<1> QED
  BY <1>3, <1>4


\* A profit needs a difference in the trade's favour; and such a difference is a profit
\* if the fixed-point unit is fine enough for the price that divides it.
LEMMA ProfitSign ==
  ASSUME NEW s \in Nat \ {0}, NEW r \in Nat \ {0}, NEW d \in {"BUY", "SELL"}, NEW gain \in Int,
         gain = IF d = "BUY" THEN r - s ELSE s - r
  PROVE  /\ Ledger!PnL(s, r, d) > 0 => gain > 0
         /\ (gain > 0 /\ r * r <= 100 * Scale /\ r <= MaxExposure * Scale)
              => Ledger!PnL(s, r, d) > 0
<1> DEFINE size == Ledger!Size(s, r)
           pnl == Ledger!PnL(s, r, d)
<1>1. size \in Nat /\ MaxExposure * Scale \in Nat
  <2>1. Driven!Size(s, r) \in Nat /\ MaxExposure * Scale \in Nat
    BY EnginesApply, Driven!SizeCapped
  <2> QED
    BY <2>1, SameRecord
<1>2. pnl = IF gain >= 0 THEN (gain * size) \div r ELSE -(((-gain) * size) \div r)
  BY DEF Ledger!PnL
<1>3. size = Ledger!Smaller((100 * Scale * Ledger!Spread(s, r)) \div r, MaxExposure * Scale)
  BY DEF Ledger!Size
<1>4. gain > 0 => Ledger!Spread(s, r) = gain
  BY DEF Ledger!Spread, Ledger!Larger, Ledger!Smaller
<1> HIDE DEF size, pnl
<1>5. ASSUME pnl > 0 PROVE gain > 0
  <2>1. CASE gain < 0
    <3>1. -gain \in Nat
      BY <2>1
    <3>2. (-gain) * size \in Nat
      BY <1>1, <3>1, MulNat
    <3>3. ((-gain) * size) \div r \in Nat
      BY <3>2, DivNat
    <3>4. pnl = -(((-gain) * size) \div r)
      BY <1>2, <2>1
    <3> HIDE <1>2
    <3> QED
      BY <1>5, <3>3, <3>4
  <2>2. CASE gain = 0
    <3>1. 0 * size = 0 /\ 0 \div r = 0
      BY <1>1
    <3> QED
      BY <1>2, <1>5, <2>2, <3>1
  <2> QED
    BY <2>1, <2>2
<1>6. ASSUME gain > 0, r * r <= 100 * Scale, r <= MaxExposure * Scale PROVE pnl > 0
  <2>1. 100 * Scale \in Nat /\ gain \in Nat \ {0}
    BY <1>6, SynthAssumption
  <2> DEFINE unit == 100 * Scale
             scaled == unit * gain
  <2>2. scaled \in Nat /\ scaled >= unit
    <3>1. gain * unit \in Nat /\ gain * unit >= unit
      BY <2>1, MulNat, MulAtLeast
    <3>2. unit * gain = gain * unit
      BY <2>1
    <3> QED
      BY <3>1, <3>2
  <2>3. size = Ledger!Smaller(scaled \div r, MaxExposure * Scale)
    BY <1>3, <1>4, <1>6
  <2>4. r * r <= unit /\ r * r \in Nat /\ unit \in Nat
    BY <1>6, <2>1, MulNat
  <2> HIDE DEF scaled, unit
  <2>5. r * r <= scaled
    BY <2>2, <2>4
  <2>6. scaled \div r >= r /\ scaled \div r \in Nat
    BY <2>2, <2>5, DivAtLeast, DivNat
  <2>7. size >= r
    BY <1>1, <1>6, <2>3, <2>6 DEF Ledger!Smaller
  <2>8. gain * size >= size /\ gain * size \in Nat
    BY <1>1, <2>1, MulAtLeast, MulNat
  <2>9. (gain * size) \div r > 0
    <3>1. gain * size >= r
      BY <1>1, <2>7, <2>8
    <3> QED
      BY <2>8, <3>1, DivPositive
  <2> QED
    BY <1>2, <1>6, <2>9
<1> QED
  BY <1>5, <1>6 DEF pnl

\* The trade that a step records, and the snapshot row the same step writes.
LEMMA TradedRow ==
  ASSUME SynthTypeOK, "snapshot" \in Wired, [CoreStep]_vars, trades' # trades
  PROVE  \E synthetic \in Nat \ {0}, real \in RealPrices :
           /\ Last(snapshot_log').diff = synthetic - real
           /\ Last(snapshot_log').real = real /\ Last(snapshot_log').synthetic = synthetic
           /\ Last(trades').pnl = Ledger!PnL(Entry(synthetic, real), Exit(synthetic, real),
                                             Direction(synthetic, real))
<1>1. ASSUME NEW symbol \in Legs, NEW timestamp \in Timestamps,
             NEW price \in LegPrices[symbol], update(symbol, price, timestamp)
      PROVE  FALSE
  BY <1>1 DEF update, pnlVars
<1>2. ASSUME UNCHANGED vars PROVE FALSE
  BY <1>2 DEF vars, pnlVars
<1>3. PICK real \in RealPrices, timestamp \in Timestamps : compareToReal(real, timestamp)
  BY <1>1, <1>2, CoreCases
<1> DEFINE synthetic == Synthetic(leg)
           row == SnapshotRow(leg, real, synthetic, timestamp)
<1>4. synthetic \in Nat \ {0} /\ leg["ETHBTC"].price \in LegPrices["ETHBTC"]
      /\ leg["BTCUSDT"].price \in LegPrices["BTCUSDT"]
  BY <1>3, SyntheticPositive DEF SynthTypeOK, LegType, compareToReal
<1>5. snapshot_log' = Logged("snapshot", snapshot_log, row)
      /\ Execute(synthetic, real, timestamp)
  BY <1>3 DEF compareToReal, pnlVars
<1> HIDE DEF synthetic
<1>6. row \in SnapshotRows
  <2>1. synthetic - real \in Int
    BY <1>4, SynthAssumption
  <2> QED
    BY <1>4, <2>1 DEF SnapshotRow, SnapshotRows
<1>7. row.diff = synthetic - real /\ row.real = real /\ row.synthetic = synthetic
  BY DEF SnapshotRow
<1> HIDE DEF row
<1>8. Last(snapshot_log') = row
  BY <1>5, <1>6, LoggedLast DEF SynthTypeOK
<1>9. "pnl" \in Wired
  BY <1>5 DEF Execute, pnlVars
<1>10. PICK t \in Driven!Trade :
         /\ Driven!Booked(t)
         /\ t.pnl = Ledger!PnL(Entry(synthetic, real), Exit(synthetic, real),
                               Direction(synthetic, real))
  BY <1>4, <1>5, <1>9, ExecutedTrade
<1>11. Last(trades') = t
  <2>1. trades \in Seq(Driven!Trade) /\ trades' = Append(trades, t)
    BY <1>10, SameRecord DEF SynthTypeOK, Ledger!PnLTypeOK, Driven!Booked
  <2> QED
    BY <2>1 DEF Last
<1> QED
  BY <1>4, <1>7, <1>8, <1>10, <1>11

\* A trade that earns money was made on a gap that exceeds the slippage.
ProfitNeedsGap ==
  [][ trades' # trades =>
        LET row == Last(snapshot_log')
        IN  Last(trades').pnl > 0 => SlipDen * Abs(row.diff) > row.real + row.synthetic ]_vars

\* The fixed-point unit resolves every profit: the smallest one, one unit of price on
\* the largest real price, is not rounded to zero.  The doubles of the code always do.
FineScale ==
  \A real \in RealPrices :
    LET r == real * (SlipDen + 1) IN r * r <= 100 * Scale /\ r <= MaxExposure * Scale

\* What a step may do, for every unit and for a fine one.
LEMMA ProfitStep ==
  ASSUME SynthTypeOK, "snapshot" \in Wired, [CoreStep]_vars, trades' # trades
  PROVE  LET row == Last(snapshot_log')
             covered == SlipDen * Abs(row.diff) > row.real + row.synthetic
         IN  /\ Last(trades').pnl > 0 => covered
             /\ FineScale /\ covered => Last(trades').pnl > 0
<1> DEFINE row == Last(snapshot_log')
<1>1. PICK synthetic \in Nat \ {0}, real \in RealPrices :
        /\ row.diff = synthetic - real /\ row.real = real /\ row.synthetic = synthetic
        /\ Last(trades').pnl = Ledger!PnL(Entry(synthetic, real), Exit(synthetic, real),
                                          Direction(synthetic, real))
  BY TradedRow
<1> HIDE DEF row
<1> DEFINE s == Entry(synthetic, real)
           r == Exit(synthetic, real)
           d == Direction(synthetic, real)
           gain == Gain(synthetic, real)
           top == real * (SlipDen + 1)
<1>2. s \in Nat \ {0} /\ r \in Nat \ {0} /\ d \in {"BUY", "SELL"}
  BY ExecutedPrices
<1>3. /\ gain \in Int /\ r <= top
      /\ gain = IF d = "BUY" THEN r - s ELSE s - r
  BY GainIs
<1>4. SlipDen * Abs(row.diff) > row.real + row.synthetic <=> gain > 0
  <2>1. SlipDen * Abs(synthetic - real) \in Int /\ real \in Int /\ synthetic \in Int
    <3>1. SlipDen \in Int /\ real \in Int
      BY SynthAssumption
    <3>2. Abs(synthetic - real) \in Int
      BY <3>1 DEF Abs
    <3> QED
      BY <3>1, <3>2
  <2> QED
    BY <1>1, <2>1 DEF Gain
<1>5. FineScale => r * r <= 100 * Scale /\ r <= MaxExposure * Scale
  <2> SUFFICES ASSUME FineScale PROVE r * r <= 100 * Scale /\ r <= MaxExposure * Scale
    OBVIOUS
  <2>1. top * top <= 100 * Scale /\ top <= MaxExposure * Scale
    BY DEF FineScale
  <2>2. real \in Nat /\ SlipDen + 1 \in Nat /\ Scale \in Nat /\ MaxExposure \in Nat
    BY SynthAssumption
  <2>3. top \in Nat /\ 100 * Scale \in Nat /\ MaxExposure * Scale \in Nat
    BY <2>2, MulNat
  <2> HIDE DEF top, r
  <2>4. r * r \in Nat /\ top * r \in Nat /\ top * top \in Nat
    BY <1>2, <2>3, MulNat
  <2>5. r * r <= top * r /\ r * top <= top * top
    BY <1>2, <1>3, <2>3, MulMonotonic
  <2>6. r * top = top * r
    BY <1>2, <2>3
  <2>7. r * r <= top * top
    BY <2>4, <2>5, <2>6
  <2> QED
    BY <1>2, <1>3, <2>1, <2>3, <2>4, <2>7
<1> HIDE DEF s, r, d, gain, top
<1>6. /\ Ledger!PnL(s, r, d) > 0 => gain > 0
      /\ (gain > 0 /\ r * r <= 100 * Scale /\ r <= MaxExposure * Scale)
           => Ledger!PnL(s, r, d) > 0
  BY <1>2, <1>3, ProfitSign
<1>7. Last(trades').pnl = Ledger!PnL(s, r, d)
  BY <1>1 DEF s, r, d
<1> QED
  BY <1>4, <1>5, <1>6, <1>7 DEF row

\* A profit needs a gap that covers the slippage, whoever calls.
LEMMA CoreProfitNeeds == "snapshot" \in Wired => (CoreSpec => ProfitNeedsGap)
<1> SUFFICES ASSUME "snapshot" \in Wired PROVE CoreSpec => ProfitNeedsGap
  OBVIOUS
<1> DEFINE Needs == trades' # trades =>
                      LET row == Last(snapshot_log')
                      IN  Last(trades').pnl > 0
                            => SlipDen * Abs(row.diff) > row.real + row.synthetic
<1>1. SynthTypeOK /\ [CoreStep]_vars => [Needs]_vars
  BY ProfitStep
<1> QED
  BY <1>1, CoreTypes, PTL DEF CoreSpec, ProfitNeedsGap

\* With a fine unit, such a gap is also enough, whoever calls.
LEMMA CoreProfitIff ==
  "snapshot" \in Wired /\ FineScale => (CoreSpec => ProfitIffGapCoversSlippage)
<1> SUFFICES ASSUME "snapshot" \in Wired, FineScale PROVE CoreSpec => ProfitIffGapCoversSlippage
  OBVIOUS
<1> DEFINE Iff == trades' # trades =>
                    LET row == Last(snapshot_log')
                    IN  Last(trades').pnl > 0
                          <=> SlipDen * Abs(row.diff) > row.real + row.synthetic
<1>1. SynthTypeOK /\ [CoreStep]_vars => [Iff]_vars
  BY ProfitStep
<1> QED
  BY <1>1, CoreTypes, PTL DEF CoreSpec, ProfitIffGapCoversSlippage

\* SyntheticSpotSynth.hpp lines 83-91 with MockPnLEngine.hpp lines 33-39: a trade that
\* earns money was made on a gap larger than the slippage paid on both prices, whatever
\* the rounding of sizes and profits.
THEOREM ProfitNeedsGapCorrect == "snapshot" \in Wired => (SynthSpec => ProfitNeedsGap)
  BY SynthCore, CoreProfitNeeds

\* The same lines, both ways: where rounding does not swallow a profit, a trade earns
\* money exactly when the gap exceeds the slippage paid on both prices.
THEOREM ProfitCorrect ==
  "snapshot" \in Wired /\ FineScale => (SynthSpec => ProfitIffGapCoversSlippage)
  BY SynthCore, CoreProfitIff
-----------------------------------------------------------------------------
\* The cooldown that main configures.

\* Every gap of the trigger threshold's size has a signal with its own timestamp.
EveryGapSignalled ==
  {"snapshot", "arb"} \subseteq Wired =>
    \A i \in DOMAIN snapshot_log :
      Abs(snapshot_log[i].diff) >= TriggerThreshold =>
        \E k \in DOMAIN Signals : Signals[k] = snapshot_log[i].ts

\* src/main.cpp line 40 constructs the engine with 0.2, which the std::uint64_t parameter
\* of ArbOpportunityEngine.hpp makes 0 milliseconds: with any cooldown below one unit
\* nothing is throttled, except gaps within one and the same millisecond.
THEOREM SubUnitCooldown == CooldownTenths \in 0 .. 9 => (SynthSpec => []EveryGapSignalled)
<1> SUFFICES ASSUME CooldownTenths \in 0 .. 9 PROVE SynthSpec => []EveryGapSignalled
  OBVIOUS
<1>1. Arb!cooldown = 0
  BY DEF Arb!cooldown
<1>2. SynthInv => EveryGapSignalled
  <2> SUFFICES ASSUME SynthInv, {"snapshot", "arb"} \subseteq Wired,
                      NEW i \in DOMAIN snapshot_log,
                      Abs(snapshot_log[i].diff) >= TriggerThreshold
               PROVE  \E k \in DOMAIN Signals : Signals[k] = snapshot_log[i].ts
    BY DEF EveryGapSignalled
  <2>1. snapshot_log[i].ts \in Timestamps /\ Signals \in Seq(Timestamps)
    <3>1. snapshot_log \in Seq(Row) /\ Signals \in Seq(Timestamps)
      BY DEF SynthInv, CoreType, Signals
    <3>2. snapshot_log[i] \in Row
      BY <3>1
    <3> QED
      BY <3>1, <3>2 DEF Row
  <2>2. PICK k \in DOMAIN Signals : /\ Signals[k] <= snapshot_log[i].ts
                                    /\ snapshot_log[i].ts <= Signals[k] + 0
    BY <1>1 DEF SynthInv, NoMissedOpportunity
  <2>3. Signals[k] \in Timestamps
    BY <2>1
  <2>4. Signals[k] \in Nat /\ snapshot_log[i].ts \in Nat
    BY <2>1, <2>3, LowerHalf
  <2> QED
    BY <2>2, <2>4
<1> QED
  BY <1>2, SynthCore, SynthInvariant, PTL
=============================================================================
