--------------------- MODULE SyntheticPerpEngineProofs ---------------------
(***************************************************************************)
(* Proofs about the perpetual monitor, for every threshold, alert gap,     *)
(* funding schedule and width of the timestamp type.  The invariant is a   *)
(* predicate on the engine's record, and each operation is shown to keep   *)
(* it, so that the handlers, which call two operations in one step, can    *)
(* use the same lemmas.                                                    *)
(***************************************************************************)
EXTENDS SyntheticPerpEngine, MachineIntsProofs

\* The time of the last alert is that of a mark that alerted, or still 0.
AlertKnown(p) ==
  \/ p.last_alert = 0
  \/ \E k \in DOMAIN p.marks : p.marks[k].alert /\ p.marks[k].ts = p.last_alert

\* A funding time that may be used has been received.
FundingKnown(p) == "funding" \in p.ready => p.next_funding \in PerpTimes

\* The two safety properties, of a list of marks.
Genuine(marks) ==
  \A i \in DOMAIN marks : marks[i].alert /\ OnTime(marks[i]) => Exceeds(marks[i])
Excused(marks, i) ==
  \/ marks[i].ts <= AlertGap
  \/ \E k \in 1 .. i - 1 : /\ marks[k].alert /\ marks[k].ts <= marks[i].ts
                           /\ marks[i].ts <= marks[k].ts + AlertGap
NoneMissed(marks) ==
  \A i \in DOMAIN marks :
    OnTime(marks[i]) /\ Exceeds(marks[i]) /\ ~marks[i].alert => Excused(marks, i)

\* The inductive invariant.
PerpGood(p) == /\ p \in PerpRecords /\ AlertKnown(p) /\ FundingKnown(p)
               /\ Genuine(p.marks) /\ NoneMissed(p.marks)

\* Times and 0 are in the lower half of the type.
LEMMA PerpLowerHalf ==
  ASSUME NEW t \in {0} \cup PerpTimes
  PROVE  t \in 0 .. (Half - 1) /\ t \in Nat
<1>1. t = 0 \/ t \in 0 .. (Half - 1)
  BY PerpAssumption
<1> QED
  BY <1>1, HalfAssumption

\* The fields the invariant looks at.
LEMMA PerpFields ==
  ASSUME NEW p \in PerpRecords
  PROVE  /\ p.spot \in Nat /\ p.funding_rate \in Int /\ p.next_funding \in {0} \cup PerpTimes
         /\ p.last_mark_price \in Nat /\ p.ready \in SUBSET {"spot", "funding", "mark"}
         /\ p.last_alert \in {0} \cup PerpTimes /\ p.marks \in Seq(MarkRecords)
  BY DEF PerpRecords

\* updateSpot keeps the invariant.
LEMMA SpotGood ==
  ASSUME NEW p, PerpGood(p), NEW price \in Nat
  PROVE  PerpGood(updateSpot(p, price)) /\ updateSpot(p, price).spot = price
<1> DEFINE q == updateSpot(p, price)
<1>1. p \in PerpRecords
  BY DEF PerpGood
<1>2. /\ q.spot = price /\ q.funding_rate = p.funding_rate /\ q.next_funding = p.next_funding
      /\ q.last_mark_price = p.last_mark_price /\ q.ready = p.ready \cup {"spot"}
      /\ q.last_alert = p.last_alert /\ q.marks = p.marks
      /\ q \in PerpRecords
  BY <1>1 DEF updateSpot, PerpRecords
<1> HIDE DEF q
<1>3. AlertKnown(q) /\ FundingKnown(q) /\ Genuine(q.marks) /\ NoneMissed(q.marks)
  BY <1>2 DEF PerpGood, AlertKnown, FundingKnown
<1>4. PerpGood(q) /\ q.spot = price
  BY <1>2, <1>3 DEF PerpGood
<1> QED
  BY <1>4 DEF q

\* updateFunding keeps the invariant.
LEMMA FundingGood ==
  ASSUME NEW p, PerpGood(p), NEW rate \in Int, NEW ts \in PerpTimes
  PROVE  PerpGood(updateFunding(p, rate, ts))
<1> DEFINE q == updateFunding(p, rate, ts)
<1>1. p \in PerpRecords
  BY DEF PerpGood
<1>2. /\ q.next_funding = ts
      /\ q.ready = p.ready \cup {"funding"}
      /\ q.last_alert = p.last_alert /\ q.marks = p.marks
      /\ q \in PerpRecords
  BY <1>1 DEF updateFunding, PerpRecords
<1> HIDE DEF q
<1>3. AlertKnown(q) /\ FundingKnown(q) /\ Genuine(q.marks) /\ NoneMissed(q.marks)
  BY <1>2 DEF PerpGood, AlertKnown, FundingKnown
<1>4. PerpGood(q)
  BY <1>2, <1>3 DEF PerpGood
<1> QED
  BY <1>4 DEF q

\* On time, the monitor's unsigned arithmetic gives the gap of getSynthetic.
LEMMA MonitorExact ==
  ASSUME NEW p, NEW m, NEW price, NEW ts \in PerpTimes, p.next_funding \in PerpTimes,
         m.mark = price, m.ts = ts, m.spot = p.spot, m.funding_rate = p.funding_rate,
         m.next_funding = p.next_funding, ts <= p.next_funding
  PROVE  MonitorGap(p, price, ts) = Gap(m)
<1>1. ts \in 0 .. (Half - 1) /\ p.next_funding \in 0 .. (Half - 1)
  BY PerpLowerHalf
<1>2. ts \in U64 /\ p.next_funding \in U64
  BY <1>1, HalfAssumption DEF U64
<1>3. USub(p.next_funding, ts) = p.next_funding - ts
  BY <1>1, <1>2, USubCases
<1> QED
  BY <1>3 DEF MonitorGap, Gap, PerpPrice

\* A mark added at the end of the list leaves the verdicts on the others alone.
LEMMA MarkAdded ==
  ASSUME NEW marks \in Seq(MarkRecords), NEW m \in MarkRecords,
         Genuine(marks), NoneMissed(marks),
         m.alert /\ OnTime(m) => Exceeds(m),
         OnTime(m) /\ Exceeds(m) /\ ~m.alert =>
           \/ m.ts <= AlertGap
           \/ \E k \in DOMAIN marks : /\ marks[k].alert /\ marks[k].ts <= m.ts
                                      /\ m.ts <= marks[k].ts + AlertGap
  PROVE  Genuine(Append(marks, m)) /\ NoneMissed(Append(marks, m))
<1> DEFINE new == Append(marks, m)
           n == Len(marks)
<1>1. /\ n \in Nat /\ DOMAIN marks = 1 .. n /\ DOMAIN new = 1 .. n + 1
      /\ new[n + 1] = m
      /\ \A i \in 1 .. n : new[i] = marks[i]
  OBVIOUS
<1> HIDE DEF new, n
<1>2. Genuine(new)
  <2> SUFFICES ASSUME NEW i \in DOMAIN new, new[i].alert, OnTime(new[i]) PROVE Exceeds(new[i])
    BY DEF Genuine
  <2>1. CASE i = n + 1
    BY <1>1, <2>1
  <2>2. CASE i \in 1 .. n
    BY <1>1, <2>2 DEF Genuine
  <2> QED
    BY <1>1, <2>1, <2>2
<1>3. NoneMissed(new)
  <2> SUFFICES ASSUME NEW i \in DOMAIN new, OnTime(new[i]), Exceeds(new[i]), ~new[i].alert
               PROVE  Excused(new, i)
    BY DEF NoneMissed
  <2>1. CASE i = n + 1
    <3>1. CASE m.ts <= AlertGap
      BY <1>1, <2>1, <3>1 DEF Excused
    <3>2. ASSUME NEW k \in DOMAIN marks, marks[k].alert, marks[k].ts <= m.ts,
                 m.ts <= marks[k].ts + AlertGap
          PROVE  Excused(new, i)
      <4>1. k \in 1 .. i - 1 /\ new[k] = marks[k] /\ new[i] = m
        BY <1>1, <2>1
      <4> QED
        BY <3>2, <4>1 DEF Excused
    <3>3. OnTime(m) /\ Exceeds(m) /\ ~m.alert
      BY <1>1, <2>1
    <3> QED
      BY <3>1, <3>2, <3>3
  <2>2. CASE i \in 1 .. n
    <3>1. new[i] = marks[i] /\ \A k \in 1 .. i - 1 : new[k] = marks[k]
      BY <1>1, <2>2
    <3>2. Excused(marks, i)
      BY <1>1, <2>2, <3>1 DEF NoneMissed
    <3> QED
      BY <3>1, <3>2 DEF Excused
  <2> QED
    BY <1>1, <2>1, <2>2
<1> QED
  BY <1>2, <1>3 DEF new

\* updateMark keeps the invariant.
LEMMA MarkGood ==
  ASSUME NEW p, PerpGood(p), NEW price \in Nat, NEW ts \in PerpTimes
  PROVE  PerpGood(updateMark(p, price, ts))
<1> DEFINE q == updateMark(p, price, ts)
           due == MonitorGap(p, price, ts) > PerpThreshold * RateHour
           rested == USub(ts, p.last_alert) > AlertGap
           alert == due /\ rested
           m == [mark |-> price, ts |-> ts, spot |-> p.spot, funding_rate |-> p.funding_rate,
                 next_funding |-> p.next_funding, alert |-> alert]
<1>1. p \in PerpRecords /\ AlertKnown(p) /\ FundingKnown(p)
      /\ Genuine(p.marks) /\ NoneMissed(p.marks)
  BY DEF PerpGood
<1>2. CASE ~({"spot", "funding"} \subseteq p.ready)
  <2>1. /\ q.next_funding = p.next_funding /\ q.ready = p.ready \cup {"mark"}
        /\ q.last_alert = p.last_alert /\ q.marks = p.marks
        /\ q \in PerpRecords
    BY <1>1, <1>2 DEF updateMark, PerpRecords
  <2> HIDE DEF q
  <2>2. AlertKnown(q) /\ FundingKnown(q) /\ Genuine(q.marks) /\ NoneMissed(q.marks)
    BY <1>1, <2>1 DEF AlertKnown, FundingKnown
  <2>3. PerpGood(q)
    BY <2>1, <2>2 DEF PerpGood
  <2> QED
    BY <2>3 DEF q
<1>3. CASE {"spot", "funding"} \subseteq p.ready
  <2>1. /\ q.spot = p.spot /\ q.funding_rate = p.funding_rate
        /\ q.next_funding = p.next_funding /\ q.last_mark_price = price
        /\ q.ready = p.ready \cup {"mark"}
        /\ q.last_alert = (IF alert THEN ts ELSE p.last_alert)
        /\ q.marks = Append(p.marks, m)
        /\ q = [spot |-> q.spot, funding_rate |-> q.funding_rate,
                next_funding |-> q.next_funding, last_mark_price |-> q.last_mark_price,
                ready |-> q.ready, last_alert |-> q.last_alert, marks |-> q.marks]
    BY <1>1, <1>3 DEF updateMark, PerpRecords
  <2>2. p.next_funding \in PerpTimes
    BY <1>1, <1>3 DEF FundingKnown
  <2>3. m \in MarkRecords
    <3>1. alert \in BOOLEAN
      OBVIOUS
    <3> QED
      BY <1>1, <2>2, <3>1, PerpFields DEF MarkRecords
  <2>4. /\ m.mark = price /\ m.ts = ts /\ m.spot = p.spot /\ m.funding_rate = p.funding_rate
        /\ m.next_funding = p.next_funding /\ m.alert = alert
    OBVIOUS
  <2>5. rested <=> (ts > p.last_alert + AlertGap \/ ts < p.last_alert)
    <3>1. p.last_alert \in {0} \cup PerpTimes
      BY <1>1, PerpFields
    <3>2. ts \in 0 .. (Half - 1) /\ p.last_alert \in 0 .. (Half - 1)
      BY <3>1, PerpLowerHalf
    <3> QED
      BY <3>2, PerpAssumption, WrappedAge
  <2> HIDE DEF q, m, due, rested
  <2>6. OnTime(m) => (due <=> Exceeds(m))
    <3> SUFFICES ASSUME OnTime(m) PROVE due <=> Exceeds(m)
      OBVIOUS
    <3>1. ts <= p.next_funding
      BY <2>4 DEF OnTime
    <3>2. MonitorGap(p, price, ts) = Gap(m)
      BY <2>2, <2>4, <3>1, MonitorExact
    <3> QED
      BY <3>2 DEF due, Exceeds
  <2>7. p.marks \in Seq(MarkRecords) /\ p.last_alert \in {0} \cup PerpTimes
        /\ AlertGap \in Nat /\ ts \in Nat /\ p.last_alert \in Nat
    <3>1. p.marks \in Seq(MarkRecords) /\ p.last_alert \in {0} \cup PerpTimes
      BY <1>1, PerpFields
    <3> QED
      BY <3>1, PerpLowerHalf, PerpAssumption
  <2>8. OnTime(m) /\ Exceeds(m) /\ ~m.alert =>
          \/ m.ts <= AlertGap
          \/ \E k \in DOMAIN p.marks : /\ p.marks[k].alert /\ p.marks[k].ts <= m.ts
                                       /\ m.ts <= p.marks[k].ts + AlertGap
    <3> SUFFICES ASSUME OnTime(m), Exceeds(m), ~m.alert
                 PROVE  \/ m.ts <= AlertGap
                        \/ \E k \in DOMAIN p.marks : /\ p.marks[k].alert /\ p.marks[k].ts <= m.ts
                                                     /\ m.ts <= p.marks[k].ts + AlertGap
      OBVIOUS
    <3>1. ~rested
      BY <2>4, <2>6
    <3>2. p.last_alert <= ts /\ ts <= p.last_alert + AlertGap
      BY <2>5, <2>7, <3>1
    <3> QED
      BY <1>1, <2>4, <2>7, <3>2 DEF AlertKnown
  <2>9. m.alert /\ OnTime(m) => Exceeds(m)
    BY <2>4, <2>6
  <2>10. Genuine(q.marks) /\ NoneMissed(q.marks)
    BY <1>1, <2>1, <2>3, <2>7, <2>8, <2>9, MarkAdded
  <2>11. AlertKnown(q)
    <3>1. /\ Len(p.marks) + 1 \in DOMAIN q.marks /\ q.marks[Len(p.marks) + 1] = m
          /\ \A k \in DOMAIN p.marks : k \in DOMAIN q.marks /\ q.marks[k] = p.marks[k]
      BY <2>1, <2>7
    <3>2. CASE alert
      BY <2>1, <2>4, <3>1, <3>2 DEF AlertKnown
    <3>3. CASE ~alert
      BY <1>1, <2>1, <3>1, <3>3 DEF AlertKnown
    <3> QED
      BY <3>2, <3>3
  <2>12. q \in PerpRecords /\ FundingKnown(q)
    <3>1. q.marks \in Seq(MarkRecords)
      BY <2>1, <2>3, <2>7
    <3>2. q.last_alert \in {0} \cup PerpTimes
      BY <2>1, <2>7
    <3>3. /\ q.spot \in Nat /\ q.funding_rate \in Int /\ q.next_funding \in {0} \cup PerpTimes
          /\ q.last_mark_price \in Nat /\ q.ready \in SUBSET {"spot", "funding", "mark"}
      BY <1>1, <2>1, PerpFields
    <3> QED
      BY <2>1, <2>2, <3>1, <3>2, <3>3 DEF PerpRecords, FundingKnown
  <2>13. PerpGood(q)
    BY <2>10, <2>11, <2>12 DEF PerpGood
  <2> QED
    BY <2>13 DEF q
<1> QED
  BY <1>2, <1>3

\* The engine as constructed.
LEMMA PerpStartGood == PerpGood(PerpStart)
<1>1. PerpStart \in PerpRecords
  BY DEF PerpStart, PerpRecords
<1>2. PerpStart.marks = <<>> /\ PerpStart.last_alert = 0 /\ PerpStart.ready = {}
  BY DEF PerpStart
<1> QED
  BY <1>1, <1>2 DEF PerpGood, AlertKnown, FundingKnown, Genuine, NoneMissed

\* What the invariant says of the engine.
LEMMA PerpGoodImplies ==
  PerpGood(perp) => PerpTypeOK /\ AlertsGenuineBeforeFunding /\ NoMissedMark
  BY DEF PerpGood, PerpTypeOK, Genuine, NoneMissed, Excused, AlertsGenuineBeforeFunding, NoMissedMark

\* Every sequence of calls keeps the invariant.
LEMMA PerpInvariant == PerpSpec => []PerpGood(perp)
<1>1. PerpInit => PerpGood(perp)
  BY PerpStartGood DEF PerpInit
<1>2. PerpGood(perp) /\ [PerpNext]_perp => PerpGood(perp')
  <2> SUFFICES ASSUME PerpGood(perp), [PerpNext]_perp PROVE PerpGood(perp')
    OBVIOUS
  <2>0. PerpPrices \subseteq Nat /\ Rates \subseteq Int
    BY PerpAssumption
  <2>1. ASSUME NEW price \in PerpPrices, perp' = updateSpot(perp, price) PROVE PerpGood(perp')
    BY <2>0, <2>1, SpotGood
  <2>2. ASSUME NEW rate \in Rates, NEW ts \in PerpTimes, perp' = updateFunding(perp, rate, ts)
        PROVE  PerpGood(perp')
    BY <2>0, <2>2, FundingGood
  <2>3. ASSUME NEW price \in PerpPrices, NEW ts \in PerpTimes, perp' = updateMark(perp, price, ts)
        PROVE  PerpGood(perp')
    BY <2>0, <2>3, MarkGood
  <2>4. CASE UNCHANGED perp
    BY <2>4
  <2> QED
    BY <2>1, <2>2, <2>3, <2>4 DEF PerpNext
<1>3. PerpGood(perp)' <=> PerpGood(perp')
  OBVIOUS
<1> QED
  BY <1>1, <1>2, <1>3, PTL DEF PerpSpec

\* SyntheticPerpEngine.hpp, updateSpot, updateFunding and updateMark: the members
\* keep their types.
THEOREM PerpTypeCorrect == PerpSpec => []PerpTypeOK
  BY PerpInvariant, PerpGoodImplies, PTL

\* SyntheticPerpEngine.hpp line 32: until the funding time, the monitor's unsigned
\* arithmetic alerts only on gaps that getSynthetic shows too.
THEOREM AlertsGenuineCorrect == PerpSpec => []AlertsGenuineBeforeFunding
  BY PerpInvariant, PerpGoodImplies, PTL

\* SyntheticPerpEngine.hpp line 46: a mark on time whose gap exceeds the threshold
\* alerts or comes shortly after one that did, in whatever order marks arrive.
THEOREM NoMissedMarkCorrect == PerpSpec => []NoMissedMark
  BY PerpInvariant, PerpGoodImplies, PTL
=============================================================================
