------------------------- MODULE SharedStateProofs -------------------------
(***************************************************************************)
(* Proofs about state that threads share: that the funding cache           *)
(* implements the atomic one, for any number of feeds and of threads that  *)
(* ask for prices, and how much the stats overlay can mix although only    *)
(* its print statements are locked, for any number of messages.            *)
(***************************************************************************)
EXTENDS FundingCache, Overlay, TLAPS

\* mutex_ is owned by the thread that is inside update or get.
Inside(t) == pc[t] \in {"in", "half"}
CacheLocked == \A t \in Threads : Inside(t) <=> mutex_ = t

\* What the first half of an update has done ...
StoredHalf == \A s \in Symbols : pc[s] = "half" => Find(s).rate = info[s].rate

\* ... and the first half of a get, which nobody has disturbed since.
CopiedHalf == \A p \in Pricers : pc[p] = "half" => copy[p].rate = Find(wanted[p]).rate

\* The inductive invariant.
FundInv == FundTypeOK /\ CacheLocked /\ StoredHalf /\ CopiedHalf

\* FundingInfo{} is an entry.
LEMMA NoInfoTyped == NoInfo \in Infos
  BY DEF NoInfo, Infos

\* What a handler makes of a message is an entry.
LEMMA ParsedTyped == ASSUME NEW m \in Messages PROVE Parsed(m) \in Infos
<1>1. m.r \in FeedRates /\ m.T \in FeedTimes
  BY DEF Messages
<1> QED
  BY <1>1 DEF Parsed, Infos

\* Find returns an entry.
LEMMA FindTyped == ASSUME FundTypeOK, NEW s PROVE Find(s) \in Infos
  BY NoInfoTyped DEF FundTypeOK, Find

\* Two entries with the same fields are equal.
LEMMA InfoEqual ==
  ASSUME NEW a \in Infos, NEW b \in Infos, a.rate = b.rate, a.time = b.time
  PROVE  a = b
  BY DEF Infos

\* An entry with a field of another one is an entry.
LEMMA InfoMixed ==
  ASSUME NEW a \in Infos, NEW b \in Infos
  PROVE  /\ [a EXCEPT !.rate = b.rate] \in Infos
         /\ [a EXCEPT !.time = b.time] \in Infos
         /\ [a EXCEPT !.rate = b.rate].rate = b.rate
         /\ [a EXCEPT !.time = b.time].rate = a.rate
         /\ [a EXCEPT !.time = b.time].time = b.time
  BY DEF Infos

\* Storing an entry changes what Find returns for its symbol and for no other.
LEMMA FindStored ==
  ASSUME FundTypeOK, NEW s \in Symbols, NEW i \in Infos, rates_' = Stored(s, i)
  PROVE  /\ DOMAIN rates_' \subseteq Symbols /\ rates_' \in [DOMAIN rates_' -> Infos]
         /\ Find(s)' = i
         /\ \A x \in Symbols \ {s} : Find(x)' = Find(x)
  BY DEF FundTypeOK, Stored, Find

\* No thread is both a feed and a pricer.
LEMMA Disjoint == Threads = Symbols \cup Pricers /\ \A p \in Pricers : p \notin Symbols
  BY FundingAssumption DEF Threads

\* A thread inside keeps every other one out.
LEMMA OneInside ==
  ASSUME FundInv, NEW t \in Threads, NEW u \in Threads, t # u, Inside(t)
  PROVE  ~Inside(u)
  BY DEF FundInv, CacheLocked

\* The initial state satisfies the invariant.
LEMMA FundStart == FundInit => FundInv
<1> SUFFICES ASSUME FundInit PROVE FundInv
  OBVIOUS
<1>1. FundTypeOK
  BY NoInfoTyped DEF FundInit, FundTypeOK
<1>2. CacheLocked
  BY FundingAssumption DEF FundInit, CacheLocked, Inside, Threads
<1>3. StoredHalf /\ CopiedHalf
  BY DEF FundInit, StoredHalf, CopiedHalf, Threads
<1> QED
  BY <1>1, <1>2, <1>3 DEF FundInv

\* A thread that moves on without touching mutex_, from outside to outside or from
\* inside to inside, leaves the lock as it was.
LEMMA KeepsLock ==
  ASSUME FundTypeOK, CacheLocked, NEW t \in Threads, NEW from, NEW to,
         Transition(t, from, to), to \in {"idle", "lock", "in", "half"},
         from \in {"in", "half"} <=> to \in {"in", "half"},
         UNCHANGED mutex_
  PROVE  CacheLocked' /\ pc' \in [Threads -> {"idle", "lock", "in", "half"}]
  BY DEF FundTypeOK, CacheLocked, Inside, Transition

\* So does one that releases mutex_ when it leaves.
LEMMA ReleasesLock ==
  ASSUME FundTypeOK, CacheLocked, NEW t \in Threads, Transition(t, "half", "idle"),
         mutex_' = "free"
  PROVE  CacheLocked' /\ pc' \in [Threads -> {"idle", "lock", "in", "half"}]
  BY FundingAssumption DEF FundTypeOK, CacheLocked, Inside, Transition, Threads

\* Every step preserves the invariant.
LEMMA FundStep == ASSUME FundInv, [FundNext]_fundVars PROVE FundInv'
<1> USE Disjoint
<1>0. FundTypeOK /\ CacheLocked /\ StoredHalf /\ CopiedHalf
  BY DEF FundInv
<1>1. CASE \E s \in Symbols, m \in Messages : onMessage(s, m)
  <2> PICK s \in Symbols, m \in Messages : onMessage(s, m)
    BY <1>1
  <2>1. CacheLocked' /\ pc' \in [Threads -> {"idle", "lock", "in", "half"}]
    BY <1>0, KeepsLock DEF onMessage
  <2>2. FundTypeOK'
    BY <1>0, <2>1, ParsedTyped DEF onMessage, FundTypeOK
  <2>3. StoredHalf' /\ CopiedHalf'
    BY <1>0 DEF onMessage, Transition, StoredHalf, CopiedHalf, Find, FundTypeOK
  <2> QED
    BY <2>1, <2>2, <2>3 DEF FundInv
<1>2. CASE \E p \in Pricers, s \in Symbols : callGet(p, s)
  <2> PICK p \in Pricers, s \in Symbols : callGet(p, s)
    BY <1>2
  <2>1. CacheLocked' /\ pc' \in [Threads -> {"idle", "lock", "in", "half"}]
    BY <1>0, KeepsLock DEF callGet
  <2>2. FundTypeOK'
    BY <1>0, <2>1 DEF callGet, FundTypeOK
  <2>3. StoredHalf' /\ CopiedHalf'
    BY <1>0 DEF callGet, Transition, StoredHalf, CopiedHalf, Find, FundTypeOK
  <2> QED
    BY <2>1, <2>2, <2>3 DEF FundInv
<1>3. CASE \E t \in Threads : lock_guard(t)
  <2> PICK t \in Threads : lock_guard(t)
    BY <1>3
  <2>1. FundTypeOK'
    BY <1>0 DEF lock_guard, Transition, FundTypeOK
  <2>2. CacheLocked'
    BY <1>0, FundingAssumption DEF lock_guard, Transition, CacheLocked, Inside, FundTypeOK, Threads
  <2>3. StoredHalf' /\ CopiedHalf'
    BY <1>0 DEF lock_guard, Transition, StoredHalf, CopiedHalf, Find, FundTypeOK
  <2> QED
    BY <2>1, <2>2, <2>3 DEF FundInv
<1>4. CASE \E s \in Symbols : storeRate(s)
  <2> PICK s \in Symbols : storeRate(s)
    BY <1>4
  <2> DEFINE i == [Find(s) EXCEPT !.rate = info[s].rate]
  <2>1. Find(s) \in Infos /\ info[s] \in Infos
    BY <1>0, FindTyped DEF FundTypeOK
  <2>2. i \in Infos /\ i.rate = info[s].rate
    BY <2>1, InfoMixed
  <2>3. rates_' = Stored(s, i)
    BY DEF storeRate
  <2> HIDE DEF i
  <2>4. /\ DOMAIN rates_' \subseteq Symbols /\ rates_' \in [DOMAIN rates_' -> Infos]
        /\ Find(s)' = i /\ \A x \in Symbols \ {s} : Find(x)' = Find(x)
    BY <1>0, <2>2, <2>3, FindStored
  <2>5. CacheLocked' /\ pc' \in [Threads -> {"idle", "lock", "in", "half"}]
    BY <1>0, KeepsLock DEF storeRate
  <2>6. FundTypeOK'
    BY <1>0, <2>4, <2>5 DEF storeRate, FundTypeOK
  <2>7. \A t \in Threads \ {s} : pc'[t] = pc[t] /\ pc[t] # "half"
    <3>1. Inside(s)
      BY DEF storeRate, Transition, Inside
    <3> QED
      BY <1>0, <3>1, OneInside DEF storeRate, Transition, Inside, FundTypeOK
  <2>8. StoredHalf'
    BY <2>2, <2>4, <2>7 DEF storeRate, StoredHalf
  <2>9. CopiedHalf'
    BY <2>7 DEF CopiedHalf
  <2> QED
    BY <2>5, <2>6, <2>8, <2>9 DEF FundInv
<1>5. CASE \E s \in Symbols : storeTime(s)
  <2> PICK s \in Symbols : storeTime(s)
    BY <1>5
  <2> DEFINE i == [Find(s) EXCEPT !.time = info[s].time]
  <2>1. Find(s) \in Infos /\ info[s] \in Infos
    BY <1>0, FindTyped DEF FundTypeOK
  <2>2. i \in Infos
    BY <2>1, InfoMixed
  <2>3. rates_' = Stored(s, i)
    BY DEF storeTime
  <2> HIDE DEF i
  <2>4. DOMAIN rates_' \subseteq Symbols /\ rates_' \in [DOMAIN rates_' -> Infos]
    BY <1>0, <2>2, <2>3, FindStored
  <2>5. CacheLocked' /\ pc' \in [Threads -> {"idle", "lock", "in", "half"}]
    BY <1>0, ReleasesLock DEF storeTime
  <2>6. FundTypeOK'
    BY <1>0, <2>4, <2>5 DEF storeTime, FundTypeOK
  <2>7. \A t \in Threads : pc'[t] # "half"
    <3>1. Inside(s)
      BY DEF storeTime, Transition, Inside
    <3> QED
      BY <1>0, <3>1, OneInside DEF storeTime, Transition, Inside, FundTypeOK
  <2>8. StoredHalf' /\ CopiedHalf'
    BY <2>7 DEF StoredHalf, CopiedHalf
  <2> QED
    BY <2>5, <2>6, <2>8 DEF FundInv
<1>6. CASE \E p \in Pricers : copyRate(p)
  <2> PICK p \in Pricers : copyRate(p)
    BY <1>6
  <2>1. wanted[p] \in Symbols /\ Find(wanted[p]) \in Infos /\ copy[p] \in Infos
    BY <1>0, FindTyped DEF FundTypeOK
  <2>2. [copy[p] EXCEPT !.rate = Find(wanted[p]).rate] \in Infos
    BY <2>1, InfoMixed
  <2>3. CacheLocked' /\ pc' \in [Threads -> {"idle", "lock", "in", "half"}]
    BY <1>0, KeepsLock DEF copyRate
  <2>4. FundTypeOK'
    BY <1>0, <2>2, <2>3 DEF copyRate, FundTypeOK
  <2>5. StoredHalf'
    BY <1>0 DEF copyRate, Transition, StoredHalf, Find, FundTypeOK
  <2>6. CopiedHalf'
    BY <1>0, <2>1, InfoMixed DEF copyRate, Transition, CopiedHalf, Find, FundTypeOK
  <2> QED
    BY <2>3, <2>4, <2>5, <2>6 DEF FundInv
<1>7. CASE \E p \in Pricers : returnInfo(p)
  <2> PICK p \in Pricers : returnInfo(p)
    BY <1>7
  <2>1. wanted[p] \in Symbols /\ Find(wanted[p]) \in Infos /\ copy[p] \in Infos
    BY <1>0, FindTyped DEF FundTypeOK
  <2>2. [copy[p] EXCEPT !.time = Find(wanted[p]).time] \in Infos
    BY <2>1, InfoMixed
  <2>3. CacheLocked' /\ pc' \in [Threads -> {"idle", "lock", "in", "half"}]
    BY <1>0, ReleasesLock DEF returnInfo
  <2>4. FundTypeOK'
    BY <1>0, <2>2, <2>3 DEF returnInfo, FundTypeOK
  <2>5. StoredHalf' /\ CopiedHalf'
    BY <1>0 DEF returnInfo, Transition, StoredHalf, CopiedHalf, Find, FundTypeOK
  <2> QED
    BY <2>3, <2>4, <2>5 DEF FundInv
<1>8. CASE UNCHANGED fundVars
  BY <1>0, <1>8 DEF fundVars, FundInv, FundTypeOK, CacheLocked, Inside, StoredHalf, CopiedHalf, Find
<1> QED
  BY <1>1, <1>2, <1>3, <1>4, <1>5, <1>6, <1>7, <1>8 DEF FundNext, Work, parseError

\* The invariant holds in every reachable state.
LEMMA FundInvariant == FundSpec => []FundInv
<1>1. FundInv /\ [FundNext]_fundVars => FundInv'
  BY FundStep
<1> QED
  BY <1>1, FundStart, PTL DEF FundSpec

\* src/utils/funding_cache.hpp: the cache, its users and what they have copied
\* keep their types.
THEOREM FundTypeCorrect == FundSpec => []FundTypeOK
<1>1. FundInv => FundTypeOK
  BY DEF FundInv
<1> QED
  BY <1>1, FundInvariant, PTL
-----------------------------------------------------------------------------
\* The users' view of a symbol with no update under way, and with one half done.
LEMMA ViewIs ==
  ASSUME NEW s \in Symbols
  PROVE  View[s] = IF pc[s] = "half" THEN info[s] ELSE Find(s)
  BY DEF View

\* The view depends on nothing but the map and the updates that are half done.
LEMMA ViewKept ==
  ASSUME FundTypeOK, UNCHANGED rates_,
         \A s \in Symbols : \/ pc'[s] = pc[s] /\ info'[s] = info[s]
                            \/ pc'[s] # "half" /\ pc[s] # "half"
  PROVE  View' = View
  BY DEF View, Find

\* Every step maps to a step of the atomic cache or to a stutter.
LEMMA FundRefines ==
  ASSUME FundInv, [FundNext]_fundVars
  PROVE  [Atomic!AtomicNext]_<<View, answer>>
<1> USE Disjoint
<1>0. FundTypeOK /\ CacheLocked /\ StoredHalf /\ CopiedHalf
  BY DEF FundInv
<1>1. CASE \E s \in Symbols, m \in Messages : onMessage(s, m)
  <2> PICK s \in Symbols, m \in Messages : onMessage(s, m)
    BY <1>1
  <2>1. View' = View
    BY <1>0, ViewKept DEF onMessage, Transition, FundTypeOK
  <2> QED
    BY <2>1 DEF onMessage
<1>2. CASE \E p \in Pricers, s \in Symbols : callGet(p, s)
  <2> PICK p \in Pricers, s \in Symbols : callGet(p, s)
    BY <1>2
  <2>1. View' = View
    BY <1>0, ViewKept DEF callGet, Transition, FundTypeOK
  <2> QED
    BY <2>1 DEF callGet
<1>3. CASE \E t \in Threads : lock_guard(t)
  <2> PICK t \in Threads : lock_guard(t)
    BY <1>3
  <2>1. View' = View
    BY <1>0, ViewKept DEF lock_guard, Transition, FundTypeOK
  <2> QED
    BY <2>1 DEF lock_guard
<1>4. CASE \E s \in Symbols : storeRate(s)
  \* The first store is where the update takes effect.
  <2> PICK s \in Symbols : storeRate(s)
    BY <1>4
  <2>1. Find(s) \in Infos /\ info[s] \in Infos
    BY <1>0, FindTyped DEF FundTypeOK
  <2>2. [Find(s) EXCEPT !.rate = info[s].rate] \in Infos
    BY <2>1, InfoMixed
  <2>3. \A x \in Symbols \ {s} : Find(x)' = Find(x)
    BY <1>0, <2>2, FindStored DEF storeRate
  <2>4. pc'[s] = "half" /\ info' = info /\ \A x \in Symbols \ {s} : pc'[x] = pc[x]
    BY <1>0 DEF storeRate, Transition, FundTypeOK
  <2>5. View' = [View EXCEPT ![s] = info[s]]
    BY <2>3, <2>4 DEF View
  <2>6. Atomic!update(s, info[s])
    BY <2>5 DEF Atomic!update, storeRate
  <2> QED
    BY <2>1, <2>6 DEF Atomic!AtomicNext
<1>5. CASE \E s \in Symbols : storeTime(s)
  <2> PICK s \in Symbols : storeTime(s)
    BY <1>5
  <2> DEFINE i == [Find(s) EXCEPT !.time = info[s].time]
  <2>1. Find(s) \in Infos /\ info[s] \in Infos
    BY <1>0, FindTyped DEF FundTypeOK
  <2>2. i \in Infos /\ i.rate = Find(s).rate /\ i.time = info[s].time
    BY <2>1, InfoMixed
  <2>3. Find(s).rate = info[s].rate
    BY <1>0 DEF storeTime, Transition, StoredHalf
  <2>4. i = info[s]
    BY <2>1, <2>2, <2>3, InfoEqual
  <2>5. Find(s)' = info[s] /\ \A x \in Symbols \ {s} : Find(x)' = Find(x)
    BY <1>0, <2>1, <2>4, FindStored DEF storeTime
  <2>6. /\ pc[s] = "half" /\ pc'[s] = "idle" /\ info' = info
        /\ \A x \in Symbols \ {s} : pc'[x] = pc[x]
    BY <1>0 DEF storeTime, Transition, FundTypeOK
  <2>7. View' = View
    BY <2>5, <2>6 DEF View
  <2> QED
    BY <2>7 DEF storeTime
<1>6. CASE \E p \in Pricers : copyRate(p)
  <2> PICK p \in Pricers : copyRate(p)
    BY <1>6
  <2>1. View' = View
    BY <1>0, ViewKept DEF copyRate, Transition, FundTypeOK
  <2> QED
    BY <2>1 DEF copyRate
<1>7. CASE \E p \in Pricers : returnInfo(p)
  \* What was copied in two halves is the entry as it is now.
  <2> PICK p \in Pricers : returnInfo(p)
    BY <1>7
  <2> DEFINE s == wanted[p]
             r == [copy[p] EXCEPT !.time = Find(s).time]
  <2>1. s \in Symbols /\ Find(s) \in Infos /\ copy[p] \in Infos
    BY <1>0, FindTyped DEF FundTypeOK
  <2>2. r \in Infos /\ r.rate = copy[p].rate /\ r.time = Find(s).time
    BY <2>1, InfoMixed
  <2>3. copy[p].rate = Find(s).rate
    BY <1>0 DEF returnInfo, Transition, CopiedHalf
  <2>4. r = Find(s)
    BY <2>1, <2>2, <2>3, InfoEqual
  <2>5. pc[s] # "half"
    <3>1. Inside(p)
      BY DEF returnInfo, Transition, Inside
    <3> QED
      BY <2>1, <3>1, OneInside DEF Inside
  <2>6. View[s] = r
    BY <2>1, <2>4, <2>5, ViewIs
  <2>7. answer' = [answer EXCEPT ![p] = View[s]]
    BY <2>6 DEF returnInfo
  <2>8. View' = View
    BY <1>0, ViewKept DEF returnInfo, Transition, FundTypeOK
  <2>9. Atomic!get(p, s)
    BY <2>7, <2>8 DEF Atomic!get
  <2> QED
    BY <2>1, <2>9 DEF Atomic!AtomicNext
<1>8. CASE UNCHANGED fundVars
  BY <1>8 DEF fundVars, View, Find
<1> QED
  BY <1>1, <1>2, <1>3, <1>4, <1>5, <1>6, <1>7, <1>8 DEF FundNext, Work, parseError

\* The initial state maps to the atomic cache's.
LEMMA FundInitRefines == FundInit => Atomic!AtomicInit
  BY Disjoint DEF FundInit, Atomic!AtomicInit, View, Find

\* src/utils/funding_cache.hpp lines 14-23: with its lock_guards the cache is atomic
\* for its users, whatever feeds and pricers do.
THEOREM CacheAtomicCorrect == FundSpec => CacheIsAtomic
<1>1. FundInv /\ [FundNext]_fundVars => [Atomic!AtomicNext]_<<View, answer>>
  BY FundRefines
<1> QED
  BY <1>1, FundInvariant, FundInitRefines, PTL DEF FundSpec, CacheIsAtomic, Atomic!AtomicSpec
-----------------------------------------------------------------------------
\* The overlay prints its block, with log_mutex.
Printing == {"mark", "funding", "count", "pnl"}

\* log_mutex is owned by the thread that prints.
PrintLocked ==
  /\ feed = "print" <=> log_mutex = "feed"
  /\ stats \in Printing <=> log_mutex = "stats"

\* What the overlay has read of a field is current, or the feed has written the field
\* once since and is now on its way to the print statement at the places fs.
Behind(f, fs) ==
  \/ engine[f] = seen[f]
  \/ engine[f] = seen[f] + 1 /\ feed \in fs

\* Funding and mark price are written only when a message arrives.
ReadsBehind ==
  /\ stats \in {"funding", "count", "pnl"} => Behind("mark", {"lock"})
  /\ stats \in {"count", "pnl"} => Behind("funding", {"lock"})

\* The inductive invariant.
OverInv == OverTypeOK /\ PrintLocked /\ ReadsBehind

\* The initial state satisfies the invariant.
LEMMA OverStart == OverInit => OverInv
  BY DEF OverInit, OverInv, OverTypeOK, PrintLocked, ReadsBehind, Printing

\* The values after the feed has written the fields in fs.
LEMMA Written ==
  ASSUME engine \in [Fields -> Nat], NEW fs, Write(fs)
  PROVE  /\ engine' \in [Fields -> Nat]
         /\ \A f \in fs \cap Fields : engine'[f] = engine[f] + 1
         /\ \A f \in Fields \ fs : engine'[f] = engine[f]
  BY DEF Write

\* A step of the feed that writes neither mark price nor funding nor log_mutex, from a
\* place where it is neither waiting for the print statement nor at it.
LEMMA QuietStep ==
  ASSUME OverInv, NEW from, NEW to, Feed(from, to), NEW fs, Write(fs),
         "mark" \notin fs, "funding" \notin fs,
         from \notin {"lock", "print"}, to # "print",
         to \in Legs \cup {"idle", "lock", "print", "spot", "real", "add"},
         UNCHANGED log_mutex, UNCHANGED received
  PROVE  OverInv'
<1>0. OverTypeOK /\ PrintLocked /\ ReadsBehind
  BY DEF OverInv
<1>1. /\ engine' \in [Fields -> Nat]
      /\ engine'["mark"] = engine["mark"] /\ engine'["funding"] = engine["funding"]
  BY <1>0, Written DEF OverTypeOK, Fields
<1>2. feed = from /\ feed' = to /\ stats' = stats /\ seen' = seen
  BY DEF Feed
<1>3. OverTypeOK'
  BY <1>0, <1>1, <1>2 DEF OverTypeOK
<1>4. PrintLocked'
  BY <1>0, <1>2 DEF PrintLocked
<1>5. ReadsBehind'
  BY <1>0, <1>1, <1>2 DEF ReadsBehind, Behind
<1> QED
  BY <1>3, <1>4, <1>5 DEF OverInv

\* Every step preserves the invariant.
LEMMA OverStep == ASSUME OverInv, [OverNext]_overVars PROVE OverInv'
<1>0. OverTypeOK /\ PrintLocked /\ ReadsBehind
  BY DEF OverInv
<1>1. CASE on_message
  \* The next message may write mark price or funding; it then waits for log_mutex.
  <2>1. PICK fs \in {{}, {"funding"}, {"mark"}} : Write(fs)
    BY <1>1 DEF on_message
  <2>2. /\ feed = "idle" /\ feed' = "lock" /\ stats' = stats /\ seen' = seen
        /\ log_mutex' = log_mutex /\ received' = received + 1
    BY <1>1 DEF on_message, Feed
  <2>3. /\ engine' \in [Fields -> Nat]
        /\ engine'["mark"] \in {engine["mark"], engine["mark"] + 1}
        /\ engine'["funding"] \in {engine["funding"], engine["funding"] + 1}
    BY <1>0, <2>1, Written DEF OverTypeOK, Fields
  <2>4. OverTypeOK'
    BY <1>0, <2>2, <2>3 DEF OverTypeOK
  <2>5. PrintLocked'
    BY <1>0, <2>2 DEF PrintLocked
  <2>6. ReadsBehind'
    BY <1>0, <2>2, <2>3 DEF ReadsBehind, Behind
  <2> QED
    BY <2>4, <2>5, <2>6 DEF OverInv
<1>2. CASE lockFeed
  \* The overlay does not print, so nothing it has read under the lock is at stake.
  <2>1. /\ feed' = "print" /\ feed = "lock" /\ stats' = stats /\ seen' = seen /\ engine' = engine
        /\ log_mutex = "free" /\ log_mutex' = "feed" /\ received' = received
    BY <1>2 DEF lockFeed, Feed
  <2>2. OverTypeOK' /\ PrintLocked'
    BY <1>0, <2>1 DEF OverTypeOK, PrintLocked
  <2>3. ReadsBehind'
    BY <1>0, <2>1 DEF ReadsBehind, PrintLocked, Printing
  <2> QED
    BY <2>2, <2>3 DEF OverInv
<1>3. CASE printed
  <2>1. PICK next \in {"spot", "ethbtc", "real"} : Feed("print", next)
    BY <1>3 DEF printed
  <2>2. /\ feed = "print" /\ feed' = next /\ stats' = stats /\ seen' = seen /\ engine' = engine
        /\ log_mutex' = "free" /\ received' = received
    BY <1>3, <2>1 DEF printed, Feed
  <2>3. OverTypeOK' /\ PrintLocked'
    BY <1>0, <2>2 DEF OverTypeOK, PrintLocked, Legs
  <2>4. ReadsBehind'
    BY <1>0, <2>2 DEF ReadsBehind, PrintLocked, Printing
  <2> QED
    BY <2>3, <2>4 DEF OverInv
<1>4. CASE updateSpot
  BY <1>4, QuietStep DEF updateSpot, Legs
<1>5. CASE \E leg \in Legs : updateLeg(leg)
  BY <1>5, QuietStep DEF updateLeg, Legs
<1>6. CASE updateCross
  BY <1>6, QuietStep DEF updateCross
<1>7. CASE bufferAdd
  BY <1>7, QuietStep DEF bufferAdd
<1>8. CASE wake
  BY <1>0, <1>8 DEF wake, OverInv, OverTypeOK, PrintLocked, Printing, ReadsBehind, Behind, Fields
<1>9. CASE lockStats
  BY <1>0, <1>9 DEF lockStats, OverInv, OverTypeOK, PrintLocked, Printing, ReadsBehind, Behind,
                    Fields
<1>10. CASE \E f \in Fields : read(f)
  <2>1. PICK f \in Fields : read(f)
    BY <1>10
  <2>2. /\ stats = f /\ stats' = After[f] /\ seen' = [seen EXCEPT ![f] = engine[f]]
        /\ log_mutex' = (IF After[f] = "sleep" THEN "free" ELSE log_mutex)
        /\ feed' = feed /\ engine' = engine /\ received' = received
    BY <2>1 DEF read
  <2>3. /\ seen' \in [Fields -> Nat] /\ seen'[f] = engine[f]
        /\ \A g \in Fields \ {f} : seen'[g] = seen[g]
    BY <1>0, <2>2 DEF OverTypeOK
  <2>4. CASE f \in Fields \ Printing
    <3>1. stats' \in {"ethbtc", "btcusdt", "delta", "spot", "lock"} /\ log_mutex' = log_mutex
      BY <2>2, <2>4 DEF Fields, Legs, Printing, After
    <3>2. OverTypeOK' /\ PrintLocked'
      BY <1>0, <2>2, <2>3, <2>4, <3>1 DEF OverTypeOK, PrintLocked, Printing, Fields, Legs
    <3>3. ReadsBehind'
      BY <3>1 DEF ReadsBehind
    <3> QED
      BY <3>2, <3>3 DEF OverInv
  <2>5. CASE f \in {"mark", "funding", "count"}
    <3>1. /\ f = "mark" => stats' = "funding"
          /\ f = "funding" => stats' = "count"
          /\ f = "count" => stats' = "pnl"
          /\ log_mutex' = log_mutex
      BY <2>2, <2>5 DEF After
    <3>2. OverTypeOK'
      BY <1>0, <2>2, <2>3, <2>5, <3>1 DEF OverTypeOK, Fields
    <3>3. PrintLocked'
      BY <1>0, <2>2, <2>5, <3>1 DEF PrintLocked, Printing
    <3>4. ReadsBehind'
      BY <1>0, <2>2, <2>3, <2>5, <3>1 DEF ReadsBehind, Behind, Fields
    <3> QED
      BY <3>2, <3>3, <3>4 DEF OverInv
  <2>6. CASE f = "pnl"
    <3>1. stats' = "sleep" /\ log_mutex' = "free"
      BY <2>2, <2>6 DEF After
    <3>2. OverTypeOK'
      BY <1>0, <2>2, <2>3, <3>1 DEF OverTypeOK
    <3>3. PrintLocked'
      BY <1>0, <2>2, <2>6, <3>1 DEF PrintLocked, Printing
    <3>4. ReadsBehind'
      BY <3>1 DEF ReadsBehind
    <3> QED
      BY <3>2, <3>3, <3>4 DEF OverInv
  <2> QED
    BY <2>4, <2>5, <2>6 DEF Printing
<1>11. CASE UNCHANGED overVars
  BY <1>0, <1>11 DEF overVars, OverInv, OverTypeOK, PrintLocked, ReadsBehind, Behind
<1> QED
  BY <1>1, <1>2, <1>3, <1>4, <1>5, <1>6, <1>7, <1>8, <1>9, <1>10, <1>11 DEF OverNext, FeedStep

\* The invariant holds in every reachable state.
LEMMA OverInvariant == OverSpec => []OverInv
<1>1. OverInv /\ [OverNext]_overVars => OverInv'
  BY OverStep
<1> QED
  BY <1>1, OverStart, PTL DEF OverSpec

\* src/main.cpp, on_message and stats_overlay: the two threads and log_mutex keep
\* their types.
THEOREM OverTypeCorrect == OverSpec => []OverTypeOK
<1>1. OverInv => OverTypeOK
  BY DEF OverInv
<1> QED
  BY <1>1, OverInvariant, PTL

\* src/main.cpp, stats_overlay: because both print statements take log_mutex, the mark
\* price and the funding rate in the block are at most one update old when it is
\* complete, although the engines have no lock.
THEOREM ReadsFreshCorrect == OverSpec => []LockedReadsFresh
<1>1. OverInv => LockedReadsFresh
  <2> SUFFICES ASSUME OverInv PROVE LockedReadsFresh
    OBVIOUS
  <2>1. ReadsBehind /\ \A f \in Fields : engine[f] \in Nat /\ seen[f] \in Nat
    BY DEF OverInv, OverTypeOK
  <2> QED
    BY <2>1 DEF ReadsBehind, Behind, LockedReadsFresh, Fields
<1> QED
  BY <1>1, OverInvariant, PTL
=============================================================================
