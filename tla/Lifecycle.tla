----------------------------- MODULE Lifecycle -----------------------------
(***************************************************************************)
(* The life of the process: the main thread of src/main.cpp with its       *)
(* Binance event loop, the three std::threads it starts (stats_overlay,    *)
(* bybit_thread, spread_monitor), SIGINT, log_mutex, and the ways the      *)
(* process ends.  What the threads compute is left out; when they touch    *)
(* the global engines, and what they wait for, is kept.                    *)
(***************************************************************************)
EXTENDS Naturals

VARIABLES mainpc,     \* where the main thread is
          link,       \* the Binance connection, as client.run() sees it
          bybit,      \* bybit_thread
          stats,      \* stats_overlay
          spread,     \* spread_monitor
          log_mutex,  \* its owner
          running,    \* std::atomic<bool>
          status,     \* how the process ended
          touched     \* threads that used a global engine after its destructor
vars == <<mainpc, link, bybit, stats, spread, log_mutex, running, status, touched>>

LifeInit ==
  /\ mainpc = "start" /\ link = "none"
  /\ bybit = "none" /\ stats = "none" /\ spread = "none"
  /\ log_mutex = "free" /\ running = TRUE /\ status = "alive" /\ touched = {}

\* Static destructors run once main has returned or called std::exit.
Destroyed == mainpc \in {"exit0", "exit42"}

\* A thread's use of a global engine, recorded if the engine is gone.
Touch(thread) == touched' = IF Destroyed THEN touched \cup {thread} ELSE touched

\* std::terminate or a failed assertion, in whichever thread.
Terminate == status' = "abort"
-----------------------------------------------------------------------------
(* The main thread.                                                        *)

\* A step of main that changes nothing else.
Main(from, to) ==
  /\ mainpc = from /\ mainpc' = to
  /\ UNCHANGED <<link, bybit, stats, spread, log_mutex, running, status, touched>>

\* main up to the label reconnect: the SIGINT handler and the threads.
start ==
  /\ mainpc = "start" /\ mainpc' = "connect"
  /\ bybit' = "connecting" /\ stats' = "test" /\ spread' = "test"
  /\ UNCHANGED <<link, log_mutex, running, status, touched>>

\* init_asio, the handlers, get_connection, connect; then client.run().
connect ==
  /\ mainpc = "connect" /\ mainpc' = "run" /\ link' = "connecting"
  /\ UNCHANGED <<bybit, stats, spread, log_mutex, running, status, touched>>

\* get_connection reports an error: return 1 destroys joinable std::threads.
connectError ==
  /\ mainpc = "connect" /\ Terminate
  /\ UNCHANGED <<mainpc, link, bybit, stats, spread, log_mutex, running, touched>>

\* A std::exception leaves the try block, from client.run() also while the
\* connection is open (on_message catches its own): the client is destroyed by the
\* jump back; wait 500 ms ...
fatal ==
  /\ mainpc \in {"connect", "run"}
  /\ mainpc' = "backoff" /\ link' = "none"
  /\ UNCHANGED <<bybit, stats, spread, log_mutex, running, status, touched>>

\* Mutant: the loop is left instead of going back to reconnect.
backoff_GivesUp == Main("backoff", "joinBybit")

\* ... and goto reconnect.
backoff == Main("backoff", "connect")

opened ==
  /\ mainpc = "run" /\ link = "connecting" /\ link' = "open"
  /\ UNCHANGED <<mainpc, bybit, stats, spread, log_mutex, running, status, touched>>

\* The handshake fails.  No fail handler is set: run() is out of work and returns.
connectFailed ==
  /\ mainpc = "run" /\ link = "connecting"
  /\ link' = "failed" /\ mainpc' = "joinBybit"
  /\ UNCHANGED <<bybit, stats, spread, log_mutex, running, status, touched>>

\* on_message has parsed a tick and wants log_mutex.
on_message == link = "open" /\ Main("run", "lock")

\* An entry of a batch lacks a key: an assertion of the JSON library fails.
onMessageAsserts ==
  /\ mainpc = "run" /\ link = "open" /\ Terminate
  /\ UNCHANGED <<mainpc, link, bybit, stats, spread, log_mutex, running, touched>>

lockMain ==
  /\ mainpc = "lock" /\ log_mutex = "free"
  /\ mainpc' = "print" /\ log_mutex' = "main"
  /\ UNCHANGED <<link, bybit, stats, spread, running, status, touched>>

\* The lock_guard ends; the engines are updated outside the lock.
updateEngines ==
  /\ mainpc = "print" /\ mainpc' = "run" /\ log_mutex' = "free"
  /\ UNCHANGED <<link, bybit, stats, spread, running, status, touched>>

\* The open connection ends: the close handler starts its 2 s sleep.
closed ==
  /\ mainpc = "run" /\ link = "open" /\ link' = "closed" /\ mainpc' = "closing"
  /\ UNCHANGED <<bybit, stats, spread, log_mutex, running, status, touched>>

\* Mutant: the handler returns without std::exit and run() returns.
closing_Returns == Main("closing", "joinBybit")

\* std::exit(42) inside the handler.
closing == Main("closing", "exit42")

joinBybit == bybit = "done" /\ Main("joinBybit", "joinSpread")

\* Mutant: stats_overlay is detached, not joined.
joinSpread_Detach == spread = "done" /\ Main("joinSpread", "exit0")

joinSpread == spread = "done" /\ Main("joinSpread", "joinStats")

joinStats == stats = "done" /\ Main("joinStats", "exit0")

\* Mutant: the two exit codes are confused with main's return 1.
exited_Code1 ==
  /\ Destroyed /\ status' = "1"
  /\ UNCHANGED <<mainpc, link, bybit, stats, spread, log_mutex, running, touched>>

\* The static destructors are done.
exited ==
  /\ Destroyed /\ status' = IF mainpc = "exit0" THEN "0" ELSE "42"
  /\ UNCHANGED <<mainpc, link, bybit, stats, spread, log_mutex, running, touched>>
-----------------------------------------------------------------------------
(* bybit_thread: run_bybit_stream never looks at running.                  *)

bybitOpened ==
  /\ bybit = "connecting" /\ bybit' = "open"
  /\ UNCHANGED <<mainpc, link, stats, spread, log_mutex, running, status, touched>>

\* get_connection fails, the handshake fails or the connection closes: the
\* thread function returns.
bybitEnded ==
  /\ bybit \in {"connecting", "open"} /\ bybit' = "done"
  /\ UNCHANGED <<mainpc, link, stats, spread, log_mutex, running, status, touched>>

\* connect, or send in the open handler, throws and nothing catches it; or an
\* entry of a message lacks a key, which is an assertion as in on_message.
bybitThrows ==
  /\ bybit \in {"connecting", "open"} /\ Terminate
  /\ UNCHANGED <<mainpc, link, bybit, stats, spread, log_mutex, running, touched>>
-----------------------------------------------------------------------------
(* stats_overlay: while (running) { sleep 2 s; read; lock; print; }        *)

\* Mutant: running is read once, before the loop.
statsTest_Once ==
  /\ stats = "test" /\ stats' = "sleep"
  /\ UNCHANGED <<mainpc, link, bybit, spread, log_mutex, running, status, touched>>

statsTest ==
  /\ stats = "test" /\ stats' = IF running THEN "sleep" ELSE "done"
  /\ UNCHANGED <<mainpc, link, bybit, spread, log_mutex, running, status, touched>>

\* Awake: the prices are read without a lock.
statsRead ==
  /\ stats = "sleep" /\ stats' = "lock" /\ Touch("stats")
  /\ UNCHANGED <<mainpc, link, bybit, spread, log_mutex, running, status>>

statsLock ==
  /\ stats = "lock" /\ log_mutex = "free" /\ stats' = "print" /\ log_mutex' = "stats"
  /\ UNCHANGED <<mainpc, link, bybit, spread, running, status, touched>>

\* Mutant: the mutex is not released (lock() without a guard).
statsPrint_KeepsLock ==
  /\ stats = "print" /\ stats' = "test" /\ Touch("stats")
  /\ UNCHANGED <<mainpc, link, bybit, spread, log_mutex, running, status>>

\* The snapshot, with further reads of perp and pnlTracker; the guard ends.
statsPrint ==
  /\ stats = "print" /\ stats' = "test" /\ log_mutex' = "free" /\ Touch("stats")
  /\ UNCHANGED <<mainpc, link, bybit, spread, running, status>>
-----------------------------------------------------------------------------
(* spread_monitor: while (running) { sleep 3 s; read; print; }             *)

spreadTest ==
  /\ spread = "test" /\ spread' = IF running THEN "sleep" ELSE "done"
  /\ UNCHANGED <<mainpc, link, bybit, stats, log_mutex, running, status, touched>>

spreadRead ==
  /\ spread = "sleep" /\ spread' = "test" /\ Touch("spread")
  /\ UNCHANGED <<mainpc, link, bybit, stats, log_mutex, running, status>>
-----------------------------------------------------------------------------
\* SIGINT after std::signal has registered the handler.
signal_handler ==
  /\ mainpc # "start" /\ running /\ running' = FALSE
  /\ UNCHANGED <<mainpc, link, bybit, stats, spread, log_mutex, status, touched>>

MainStep == \/ start \/ connect \/ backoff \/ lockMain \/ updateEngines \/ closing
            \/ joinBybit \/ joinSpread \/ joinStats \/ exited
StatsStep == statsTest \/ statsRead \/ statsPrint
SpreadStep == spreadTest \/ spreadRead
\* What the network, the exchanges and the user decide.
Environment == \/ connectError \/ fatal \/ opened \/ connectFailed \/ on_message
               \/ onMessageAsserts \/ closed \/ bybitOpened \/ bybitEnded \/ bybitThrows \/ signal_handler

LifeNext ==
  \/ status = "alive" /\ (MainStep \/ StatsStep \/ statsLock \/ SpreadStep \/ Environment)
  \/ status # "alive" /\ UNCHANGED vars

\* The operating system schedules every runnable thread.  std::mutex promises
\* no order among waiters, but it is free between any two messages, so a thread
\* that keeps waiting for it gets it (strong fairness).  Nothing is assumed
\* of the environment.
Fairness ==
  /\ WF_vars(status = "alive" /\ MainStep)
  /\ SF_vars(status = "alive" /\ lockMain)
  /\ WF_vars(status = "alive" /\ StatsStep)
  /\ SF_vars(status = "alive" /\ statsLock)
  /\ WF_vars(status = "alive" /\ SpreadStep)

LifeSpec == LifeInit /\ [][LifeNext]_vars /\ Fairness
-----------------------------------------------------------------------------
Ended == status # "alive"
Threads == {"bybit", "stats", "spread"}

LifeTypeOK ==
  /\ mainpc \in {"start", "connect", "run", "backoff", "lock", "print", "closing",
                 "joinBybit", "joinSpread", "joinStats", "exit0", "exit42"}
  /\ link \in {"none", "connecting", "open", "closed", "failed"}
  /\ bybit \in {"none", "connecting", "open", "done"}
  /\ stats \in {"none", "test", "sleep", "lock", "print", "done"}
  /\ spread \in {"none", "test", "sleep", "done"}
  /\ log_mutex \in {"free", "main", "stats"}
  /\ running \in BOOLEAN /\ status \in {"alive", "0", "42", "abort"}
  /\ touched \subseteq Threads

\* "Join threads before clean exit" (main.cpp line 269): main reaches its return 0
\* only when every thread has finished, which takes a SIGINT, so that no thread
\* sees a destroyed engine and log_mutex is not abandoned.
CleanExit ==
  mainpc = "exit0" => /\ bybit = "done" /\ stats = "done" /\ spread = "done"
                      /\ ~running /\ log_mutex = "free" /\ touched = {}

\* What an exit code says about the run, however often the connection was lost and
\* retried.  0: the last handshake failed, SIGINT had come and the Bybit thread had
\* ended.  42 ("force reconnect logic via exit code", main.cpp line 245): a
\* connection that was open has been closed.
ExitCodesMean ==
  /\ status = "0" => link = "failed" /\ ~running /\ bybit = "done"
  /\ status = "42" => link = "closed"

\* log_mutex has an owner exactly while one of its two users is printing, and
\* never both: the owner recorded is the thread that is inside.
MutexOwner ==
  /\ log_mutex = "main" <=> mainpc = "print"
  /\ log_mutex = "stats" <=> stats = "print"

\* SIGINT stops both monitors, whatever the feeds do, unless the process is gone
\* first.
SigintStopsMonitors == ~running ~> (Ended \/ (stats = "done" /\ spread = "done"))

\* Once SIGINT has come, main has left the event loop and Bybit's connection has
\* ended, the joins complete and the process ends.
ShutdownCompletes ==
  (~running /\ mainpc = "joinBybit" /\ bybit = "done") ~> Ended

\* A closed Binance connection ends the process, even if a thread is sleeping or
\* holds log_mutex.
CloseEndsProcess == link = "closed" ~> Ended

\* "Register SIGINT handler to cleanly exit" (main.cpp line 154): SIGINT ends the
\* process.
SigintEndsProcess == ~running ~> Ended
=============================================================================
