---------------------------- MODULE FundingCache ----------------------------
(***************************************************************************)
(* The funding cache of src/utils/funding_cache.hpp, access by access,     *)
(* with its two users: the message handlers of                             *)
(* src/feeds/binance_funding_ws.cpp, one thread per symbol, and threads    *)
(* that call compute_synthetic_price (src/engine/synthetic_pricing.cpp).   *)
(* Both are compiled into the program; main starts neither.                *)
(***************************************************************************)
EXTENDS Integers

CONSTANTS Symbols,           \* a feed thread is named by its symbol
          Pricers,           \* threads that call compute_synthetic_price
          FeedRates, FeedTimes,   \* values of "r" and "T" in messages
          IntHalf            \* int has 2 * IntHalf values (2^31 in C++)

ASSUME FundingAssumption ==
  /\ Symbols \cap Pricers = {} /\ "free" \notin Symbols \cup Pricers
  /\ FeedRates \subseteq Int /\ FeedTimes \subseteq Nat
  /\ IntHalf \in Nat \ {0}

Threads == Symbols \cup Pricers
NoInfo == [rate |-> 0, time |-> 0]

VARIABLES rates_,   \* std::unordered_map: symbol -> FundingInfo, partial
          mutex_,   \* its owner
          pc,       \* thread -> "idle", "lock", "in" or "half" (one field done)
          info,     \* feed -> the update it makes
          wanted,   \* pricer -> the symbol it asks for
          copy,     \* pricer -> what it has copied so far
          answer    \* pricer -> what its last get returned
fundVars == <<rates_, mutex_, pc, info, wanted, copy, answer>>

FundInit ==
  /\ rates_ = [s \in {} |-> NoInfo] /\ mutex_ = "free"
  /\ pc = [t \in Threads |-> "idle"] /\ info = [s \in Symbols |-> NoInfo]
  /\ wanted \in [Pricers -> Symbols]
  /\ copy = [p \in Pricers |-> NoInfo] /\ answer = [p \in Pricers |-> NoInfo]

\* j.value("T", 0): the default is an int, so the number is narrowed to int.
ToInt(x) == ((x + IntHalf) % (2 * IntHalf)) - IntHalf

\* A message with a number "T" and a decimal string "r"; either may be absent, and
\* then counts as 0.
Messages == [r : FeedRates, T : FeedTimes, absent : SUBSET {"r", "T"}]

\* Mutant: the rate is read from the wrong key.
Parsed_WrongKey(m) == [rate |-> IF "T" \in m.absent THEN 0 ELSE m.T,
                       time |-> IF "T" \in m.absent THEN 0 ELSE ToInt(m.T)]

Parsed(m) == [rate |-> IF "r" \in m.absent THEN 0 ELSE m.r,
              time |-> IF "T" \in m.absent THEN 0 ELSE ToInt(m.T)]

Transition(t, from, to) == pc[t] = from /\ pc' = [pc EXCEPT ![t] = to]

onMessage(s, m) ==
  /\ Transition(s, "idle", "lock")
  /\ info' = [info EXCEPT ![s] = Parsed(m)]
  /\ UNCHANGED <<rates_, mutex_, wanted, copy, answer>>

\* Any other message throws; the exception is caught and the cache left alone.
parseError(s) == pc[s] = "idle" /\ UNCHANGED fundVars

\* compute_synthetic_price calls get.
callGet(p, s) ==
  /\ Transition(p, "idle", "lock") /\ wanted' = [wanted EXCEPT ![p] = s]
  /\ UNCHANGED <<rates_, mutex_, info, copy, answer>>

\* Mutant: get and update do not lock.
lock_guard_None(t) ==
  /\ Transition(t, "lock", "in")
  /\ UNCHANGED <<rates_, mutex_, info, wanted, copy, answer>>

\* Mutant: get waits until its symbol has an entry.
lock_guard_Waits(t) ==
  /\ Transition(t, "lock", "in") /\ mutex_ = "free" /\ mutex_' = t
  /\ t \in Pricers => wanted[t] \in DOMAIN rates_
  /\ UNCHANGED <<rates_, info, wanted, copy, answer>>

\* The lock_guard of update and of get.
lock_guard(t) ==
  /\ Transition(t, "lock", "in") /\ mutex_ = "free" /\ mutex_' = t
  /\ UNCHANGED <<rates_, info, wanted, copy, answer>>

Find(s) == IF s \in DOMAIN rates_ THEN rates_[s] ELSE NoInfo
Stored(s, i) == [x \in DOMAIN rates_ \cup {s} |-> IF x = s THEN i ELSE rates_[x]]

\* rates_[symbol] = {rate, next_time}: the entry is made if need be, then its
\* fields are assigned.
storeRate(s) ==
  /\ Transition(s, "in", "half")
  /\ rates_' = Stored(s, [Find(s) EXCEPT !.rate = info[s].rate])
  /\ UNCHANGED <<mutex_, info, wanted, copy, answer>>

storeTime(s) ==
  /\ Transition(s, "half", "idle") /\ mutex_' = "free"
  /\ rates_' = Stored(s, [Find(s) EXCEPT !.time = info[s].time])
  /\ UNCHANGED <<info, wanted, copy, answer>>

copyRate(p) ==
  /\ Transition(p, "in", "half")
  /\ copy' = [copy EXCEPT ![p].rate = Find(wanted[p]).rate]
  /\ UNCHANGED <<rates_, mutex_, info, wanted, answer>>

\* The second field is copied, the guard ends and get returns.
returnInfo(p) ==
  LET result == [copy[p] EXCEPT !.time = Find(wanted[p]).time]
  IN  /\ Transition(p, "half", "idle") /\ mutex_' = "free"
      /\ copy' = [copy EXCEPT ![p] = result] /\ answer' = [answer EXCEPT ![p] = result]
      /\ UNCHANGED <<rates_, info, wanted>>

Work(t) == IF t \in Symbols THEN storeRate(t) \/ storeTime(t) ELSE copyRate(t) \/ returnInfo(t)

FundNext ==
  \/ \E s \in Symbols : parseError(s) \/ \E m \in Messages : onMessage(s, m)
  \/ \E p \in Pricers, s \in Symbols : callGet(p, s)
  \/ \E t \in Threads : lock_guard(t) \/ Work(t)

\* The operating system runs every thread.  Weak fairness only: std::mutex does not
\* promise a waiting thread its turn while others keep taking the lock.
FundFairness == \A t \in Threads : WF_fundVars(Work(t)) /\ WF_fundVars(lock_guard(t))

FundSpec == FundInit /\ [][FundNext]_fundVars /\ FundFairness
-----------------------------------------------------------------------------
\* What an entry may hold.  A time may be as sent or narrowed: which of the two the
\* cache should keep is not for the type to say.
Infos == [rate : FeedRates \cup {0}, time : FeedTimes \cup {0} \cup {ToInt(x) : x \in FeedTimes}]

FundTypeOK ==
  /\ DOMAIN rates_ \subseteq Symbols /\ rates_ \in [DOMAIN rates_ -> Infos]
  /\ mutex_ \in Threads \cup {"free"}
  /\ pc \in [Threads -> {"idle", "lock", "in", "half"}]
  /\ info \in [Symbols -> Infos] /\ wanted \in [Pricers -> Symbols]
  /\ copy \in [Pricers -> Infos] /\ answer \in [Pricers -> Infos]

\* The map as its users see it: an update takes effect with its first store.
View == [s \in Symbols |-> IF pc[s] = "half" THEN info[s] ELSE Find(s)]

Atomic == INSTANCE AtomicFundingCache WITH cache <- View

\* The cache implements the atomic one: no get returns the rate of one update
\* with the time of another, and none returns what is no longer there.
CacheIsAtomic == Atomic!AtomicSpec

\* The lock cannot be lost or waited for in vain: once no thread starts another
\* update or get, every call under way, of however many threads, returns.
CallsComplete ==
  <>[][\A t \in Threads : pc[t] = "idle" => pc'[t] = "idle"]_pc
    => <>[](\A t \in Threads : pc[t] = "idle")
=============================================================================
