------------------------ MODULE SyntheticPerpEngine ------------------------
(***************************************************************************)
(* The perpetual monitor of include/SyntheticPerpEngine.hpp: a synthetic   *)
(* price spot + rate * spot * hours, compared with every mark price.  The  *)
(* operations are functions from the engine's state to its next state, so  *)
(* that a feed handler can call several of them in one step.               *)
(*                                                                         *)
(* Rates are integers and prices are compared in units of 1/RateHour,      *)
(* where RateHour is the number of rate units times milliseconds in one    *)
(* hour of a rate of 1.0: no rounding.                                     *)
(***************************************************************************)
EXTENDS MachineInts, Sequences

CONSTANTS PerpPrices, Rates, PerpTimes,   \* arguments of the operations
          RateHour, PerpThreshold,
          AlertGap,                       \* 5000 ms
          MaxMarks                        \* bound: marks evaluated

ASSUME PerpAssumption ==
  /\ PerpPrices \subseteq Nat \ {0} /\ Rates \subseteq Int
  /\ PerpTimes \subseteq 0 .. (Half - 1)
  /\ RateHour \in Nat \ {0} /\ PerpThreshold \in Nat
  /\ AlertGap \in Nat /\ AlertGap < Half /\ MaxMarks \in Nat

VARIABLE perp   \* the members, the ready_* flags that are set, updateMark's
                \* static last_alert, and a history of the marks compared

PerpStart == [spot |-> 0, funding_rate |-> 0, next_funding |-> 0, last_mark_price |-> 0,
              ready |-> {}, last_alert |-> 0, marks |-> <<>>]

\* spot + rate * spot * hours, with ms milliseconds to the next funding.
PerpPrice(p, ms) == p.spot * RateHour + p.funding_rate * p.spot * ms

updateSpot(p, price) == [p EXCEPT !.spot = price, !.ready = @ \cup {"spot"}]

updateFunding(p, rate, next_ts) ==
  [p EXCEPT !.funding_rate = rate, !.next_funding = next_ts, !.ready = @ \cup {"funding"}]

\* Mutant: the operands of the unsigned difference swapped.
MonitorGap_Swapped(p, mark_price, timestamp) ==
  Abs(mark_price * RateHour - PerpPrice(p, USub(timestamp, p.next_funding)))

\* The monitor's |delta|: the hours come from an unsigned difference.
MonitorGap(p, mark_price, timestamp) ==
  Abs(mark_price * RateHour - PerpPrice(p, USub(p.next_funding, timestamp)))

\* Mutant: last_alert is refreshed by every mark, alert or not.
updateMark_AlwaysRefresh(p, mark_price, timestamp) ==
  LET marked == [p EXCEPT !.last_mark_price = mark_price, !.ready = @ \cup {"mark"}]
      alert == /\ MonitorGap(p, mark_price, timestamp) > PerpThreshold * RateHour
               /\ USub(timestamp, p.last_alert) > AlertGap
  IN  IF {"spot", "funding"} \subseteq p.ready
      THEN [marked EXCEPT
              !.last_alert = timestamp,
              !.marks = Append(@, [mark |-> mark_price, ts |-> timestamp, spot |-> p.spot,
                                   funding_rate |-> p.funding_rate,
                                   next_funding |-> p.next_funding, alert |-> alert])]
      ELSE marked

\* updateMark: stored always, compared once spot and funding are known.
updateMark(p, mark_price, timestamp) ==
  LET marked == [p EXCEPT !.last_mark_price = mark_price, !.ready = @ \cup {"mark"}]
      alert == /\ MonitorGap(p, mark_price, timestamp) > PerpThreshold * RateHour
               /\ USub(timestamp, p.last_alert) > AlertGap
  IN  IF {"spot", "funding"} \subseteq p.ready
      THEN [marked EXCEPT
              !.last_alert = IF alert THEN timestamp ELSE @,
              !.marks = Append(@, [mark |-> mark_price, ts |-> timestamp, spot |-> p.spot,
                                   funding_rate |-> p.funding_rate,
                                   next_funding |-> p.next_funding, alert |-> alert])]
      ELSE marked

PerpInit == perp = PerpStart
PerpNext ==
  /\ Len(perp.marks) < MaxMarks
  /\ \/ \E price \in PerpPrices : perp' = updateSpot(perp, price)
     \/ \E rate \in Rates, ts \in PerpTimes : perp' = updateFunding(perp, rate, ts)
     \/ \E price \in PerpPrices, ts \in PerpTimes : perp' = updateMark(perp, price, ts)
PerpSpec == PerpInit /\ [][PerpNext]_perp
-----------------------------------------------------------------------------
MarkRecords == [mark : Nat, ts : PerpTimes, spot : Nat, funding_rate : Int,
                next_funding : PerpTimes, alert : BOOLEAN]

PerpRecords ==
  [spot : Nat, funding_rate : Int, next_funding : {0} \cup PerpTimes,
   last_mark_price : Nat, ready : SUBSET {"spot", "funding", "mark"},
   last_alert : {0} \cup PerpTimes, marks : Seq(MarkRecords)]

PerpTypeOK == perp \in PerpRecords

\* The gap by getSynthetic's arithmetic, which is in double and has a sign.
Gap(m) == Abs(m.mark * RateHour - PerpPrice(m, m.next_funding - m.ts))
Exceeds(m) == Gap(m) > PerpThreshold * RateHour
OnTime(m) == m.ts <= m.next_funding

\* Until the funding time has passed, the monitor alerts only on gaps that the
\* overlay's getSynthetic would show too.
AlertsGenuineBeforeFunding ==
  \A i \in DOMAIN perp.marks :
    perp.marks[i].alert /\ OnTime(perp.marks[i]) => Exceeds(perp.marks[i])

\* No gap goes unreported: a mark on time that exceeds the threshold alerts, or
\* comes at most AlertGap after an alert, or after the clock's zero, where the
\* static last_alert starts.  Marks may come in any order.
NoMissedMark ==
  \A i \in DOMAIN perp.marks :
    LET m == perp.marks[i]
    IN  OnTime(m) /\ Exceeds(m) /\ ~m.alert =>
          \/ m.ts <= AlertGap
          \/ \E k \in 1 .. i - 1 : /\ perp.marks[k].alert /\ perp.marks[k].ts <= m.ts
                                   /\ m.ts <= perp.marks[k].ts + AlertGap
=============================================================================
