------------------------ MODULE ArbOpportunityEngine ------------------------
(***************************************************************************)
(* The per-symbol signal cooldown of include/ArbOpportunityEngine.hpp.     *)
(* shouldTrigger compares std::uint64_t timestamps taken from exchange     *)
(* messages, so "time since the last signal" is computed modulo 2^64.      *)
(***************************************************************************)
EXTENDS MachineInts, Sequences

CONSTANTS Symbols,         \* keys of last_trigger
          Timestamps,      \* timestamps a tick may carry
          CooldownTenths,  \* the constructor's argument, in tenths
          InOrder,         \* does the feed deliver a symbol's ticks in time order?
          MaxFired         \* bound: signals kept per symbol

ASSUME ArbAssumption ==
  /\ Timestamps \subseteq 0 .. (Half - 1)
  /\ CooldownTenths \in Nat
  /\ CooldownTenths < 10 * Half
  /\ InOrder \in BOOLEAN
  /\ MaxFired \in Nat

\* The constructor takes a std::uint64_t: a fractional argument (main passes
\* 0.2) is truncated.
cooldown == CooldownTenths \div 10

VARIABLES last_trigger,    \* std::unordered_map: symbol -> timestamp, partial
          fired            \* symbol -> timestamps for which shouldTrigger has
                           \* returned true since the symbol was last reset
arbVars == <<last_trigger, fired>>

ArbInit == /\ last_trigger = [s \in {} |-> 0]
           /\ fired = [s \in Symbols |-> <<>>]

\* Mutant: >= for >.
CooldownPassed_Inclusive(symbol, timestamp) ==
  symbol \in DOMAIN last_trigger =>
    USub(timestamp, last_trigger[symbol]) >= cooldown

CooldownPassed(symbol, timestamp) ==
  symbol \in DOMAIN last_trigger =>
    USub(timestamp, last_trigger[symbol]) > cooldown

\* Mutant: the map is written with insert, which keeps an existing entry.
shouldTrigger_InsertOnly(symbol, timestamp) ==
  /\ CooldownPassed(symbol, timestamp)
  /\ last_trigger' = [s \in DOMAIN last_trigger \cup {symbol} |->
                        IF s \in DOMAIN last_trigger THEN last_trigger[s] ELSE timestamp]
  /\ fired' = [fired EXCEPT ![symbol] = Append(@, timestamp)]

\* Mutant: the end of the cooldown is stored instead of its start.
shouldTrigger_Deadline(symbol, timestamp) ==
  /\ CooldownPassed(symbol, timestamp)
  /\ last_trigger' = [s \in DOMAIN last_trigger \cup {symbol} |->
                        IF s = symbol THEN timestamp + cooldown ELSE last_trigger[s]]
  /\ fired' = [fired EXCEPT ![symbol] = Append(@, timestamp)]

\* shouldTrigger returns true and restarts the cooldown.
shouldTrigger(symbol, timestamp) ==
  /\ CooldownPassed(symbol, timestamp)
  /\ last_trigger' = [s \in DOMAIN last_trigger \cup {symbol} |->
                        IF s = symbol THEN timestamp ELSE last_trigger[s]]
  /\ fired' = [fired EXCEPT ![symbol] = Append(@, timestamp)]

\* shouldTrigger returns false.
suppressed(symbol, timestamp) ==
  /\ ~CooldownPassed(symbol, timestamp)
  /\ UNCHANGED arbVars

reset(symbol) ==
  /\ last_trigger' = [s \in DOMAIN last_trigger \ {symbol} |-> last_trigger[s]]
  /\ fired' = [fired EXCEPT ![symbol] = <<>>]

\* What an in-order feed guarantees of the next tick: it is no older than the
\* ticks that fired before it.
Admissible(symbol, timestamp) ==
  InOrder => \A i \in DOMAIN fired[symbol] : fired[symbol][i] <= timestamp

ArbNext ==
  \E symbol \in Symbols :
    \/ \E timestamp \in Timestamps :
         /\ Admissible(symbol, timestamp)
         /\ Len(fired[symbol]) < MaxFired
         /\ shouldTrigger(symbol, timestamp) \/ suppressed(symbol, timestamp)
    \/ reset(symbol)

ArbSpec == ArbInit /\ [][ArbNext]_arbVars
-----------------------------------------------------------------------------
ArbTypeOK ==
  /\ DOMAIN last_trigger \subseteq Symbols
  /\ last_trigger \in [DOMAIN last_trigger -> Timestamps]
  /\ fired \in [Symbols -> Seq(Timestamps)]

\* The map holds exactly the symbols that fired since their last reset, each
\* with the timestamp of its most recent signal: forgetting to store it, or
\* storing it for a suppressed tick, breaks the cooldown of later ticks.
LastTriggerIsLatest ==
  /\ DOMAIN last_trigger = {s \in Symbols : fired[s] # <<>>}
  /\ \A s \in DOMAIN last_trigger : last_trigger[s] = fired[s][Len(fired[s])]

\* "Returns true if signal can fire (i.e., cooldown passed)", with "time between
\* signals per symbol" (lines 13 and 9 of the header): any two signals of a symbol
\* are more than the cooldown apart, whatever ticks, suppressed or of other
\* symbols, came in between.  It holds of ticks in time order and fails when one
\* comes late, since the unsigned age then wraps.
CooldownRespected ==
  \A s \in Symbols : \A i, j \in DOMAIN fired[s] :
    i < j => fired[s][j] > fired[s][i] + cooldown

\* All that the wrapping subtraction leaves of CooldownRespected when ticks may
\* come late: a signal comes after the cooldown of the one before it, or carries
\* an older timestamp than that one.
CooldownOrRegression ==
  \A s \in Symbols : \A i \in 1 .. Len(fired[s]) - 1 :
    \/ fired[s][i + 1] > fired[s][i] + cooldown
    \/ fired[s][i + 1] < fired[s][i]
=============================================================================
