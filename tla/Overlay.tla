------------------------------- MODULE Overlay -------------------------------
(***************************************************************************)
(* The stats_overlay thread of src/main.cpp against the feed thread that   *)
(* changes what it displays.  Only the tick and the snapshot block are     *)
(* printed under log_mutex; the engines have no lock.  Each value is       *)
(* represented by its version, the number of times it has been written, so *)
(* that a mixture of old and new values shows.                             *)
(***************************************************************************)
EXTENDS Naturals

CONSTANT MaxMessages   \* bound: messages received
ASSUME OverlayAssumption == MaxMessages \in Nat

Legs == {"ethbtc", "btcusdt"}
Fields == Legs \cup {"real", "delta", "spot", "mark", "funding", "count", "pnl"}

VARIABLES feed,        \* where on_message is
          stats,       \* where stats_overlay is
          log_mutex,   \* its owner
          engine,      \* field -> version
          seen,        \* field -> version the overlay has read in this pass
          received     \* messages so far
overVars == <<feed, stats, log_mutex, engine, seen, received>>

OverInit ==
  /\ feed = "idle" /\ stats = "sleep" /\ log_mutex = "free" /\ received = 0
  /\ engine = [f \in Fields |-> 0] /\ seen = engine

Feed(from, to) == feed = from /\ feed' = to /\ UNCHANGED <<stats, seen>>

\* The feed thread writes the fields in fs.
Write(fs) == engine' = [f \in Fields |-> IF f \in fs THEN engine[f] + 1 ELSE engine[f]]

\* A message is parsed; funding and mark price are stored before the lock.
on_message ==
  /\ Feed("idle", "lock") /\ received < MaxMessages /\ received' = received + 1
  /\ \E fs \in {{}, {"funding"}, {"mark"}} : Write(fs)
  /\ UNCHANGED log_mutex

\* Mutant: the tick is printed without log_mutex.
lockFeed_None ==
  /\ Feed("lock", "print")
  /\ UNCHANGED <<log_mutex, engine, received>>

lockFeed ==
  /\ Feed("lock", "print") /\ log_mutex = "free" /\ log_mutex' = "feed"
  /\ UNCHANGED <<engine, received>>

\* The tick is printed and the guard ends; the symbol decides what follows.
printed ==
  /\ \E next \in {"spot", "ethbtc", "real"} : Feed("print", next)
  /\ log_mutex' = "free" /\ UNCHANGED <<engine, received>>

\* BTCUSDT: perp.updateSpot, then ethSynth.update; ETHBTC: ethSynth.update.
updateSpot ==
  Feed("spot", "btcusdt") /\ Write({"spot"}) /\ UNCHANGED <<log_mutex, received>>
updateLeg(leg) ==
  Feed(leg, "idle") /\ Write({leg}) /\ UNCHANGED <<log_mutex, received>>

\* ETHUSDT: ethCross.update; then, except in a batch, compareToReal, which enters
\* buffer.add (push_back, pop_front) once both legs are known.
updateCross ==
  /\ \E next \in {"idle"} \cup (IF \A leg \in Legs : engine[leg] > 0 THEN {"add"} ELSE {}) :
       Feed("real", next)
  /\ Write({"real"}) /\ UNCHANGED <<log_mutex, received>>

\* The deque is complete again.  main attaches no ledger to ethSynth, so that
\* compareToReal writes nothing else the overlay reads: the number of trades and
\* the total are read below, but nobody writes them.
bufferAdd ==
  Feed("add", "idle") /\ Write({"delta"}) /\ UNCHANGED <<log_mutex, received>>

FeedStep == \/ on_message \/ lockFeed \/ printed \/ updateSpot \/ \E leg \in Legs : updateLeg(leg)
            \/ updateCross \/ bufferAdd
-----------------------------------------------------------------------------
\* Mutant: the loop body is executed once.
After_Once ==
  [real |-> "ethbtc", ethbtc |-> "btcusdt", btcusdt |-> "delta", delta |-> "spot",
   spot |-> "lock", mark |-> "funding", funding |-> "count", count |-> "pnl", pnl |-> "done"]

\* The overlay's reads in the order of the code: the locals real, synth,
\* avgDelta and fundingAdjusted without the lock, the others while printing the
\* block under it.
After == [real |-> "ethbtc", ethbtc |-> "btcusdt", btcusdt |-> "delta", delta |-> "spot",
          spot |-> "lock", mark |-> "funding", funding |-> "count", count |-> "pnl", pnl |-> "sleep"]

wake ==
  /\ stats = "sleep" /\ stats' = "real"
  /\ UNCHANGED <<feed, log_mutex, engine, seen, received>>

read(f) ==
  /\ stats = f /\ stats' = After[f] /\ seen' = [seen EXCEPT ![f] = engine[f]]
  /\ log_mutex' = IF After[f] = "sleep" THEN "free" ELSE log_mutex
  /\ UNCHANGED <<feed, engine, received>>

lockStats ==
  /\ stats = "lock" /\ stats' = "mark" /\ log_mutex = "free" /\ log_mutex' = "stats"
  /\ UNCHANGED <<feed, engine, seen, received>>

OverNext == FeedStep \/ wake \/ lockStats \/ \E f \in Fields : read(f)
OverSpec == OverInit /\ [][OverNext]_overVars
-----------------------------------------------------------------------------
OverTypeOK ==
  /\ feed \in Legs \cup {"idle", "lock", "print", "spot", "real", "add"}
  /\ stats \in Fields \cup {"sleep", "lock"}
  /\ log_mutex \in {"free", "feed", "stats"}
  /\ engine \in [Fields -> Nat] /\ seen \in [Fields -> Nat]
  /\ received \in Nat

\* The lock on the two print statements bounds what the overlay can mix: while
\* it prints its block the feed finishes the message at hand and stops at the
\* next one's print, so mark price and funding rate, which are read under the
\* lock, are at most one update old when the block is complete.
LockedReadsFresh ==
  /\ stats \in {"funding", "count", "pnl"} => engine["mark"] <= seen["mark"] + 1
  /\ stats \in {"count", "pnl"} => engine["funding"] <= seen["funding"] + 1
=============================================================================
