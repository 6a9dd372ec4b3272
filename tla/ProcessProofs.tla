--------------------------- MODULE ProcessProofs ---------------------------
(***************************************************************************)
(* Proofs about the process: the safety of its life cycle, and what the    *)
(* ways it can end leave in arbitrage_log.csv, for any number of sessions, *)
(* trades and alerts.                                                      *)
(***************************************************************************)
EXTENDS Lifecycle, ArbLogFile, TLAPS

-----------------------------------------------------------------------------
\* The life cycle.  Its state space is finite and TLC covers it; the proofs say why
\* the properties hold.

\* Why main can rely on its joins: each join is passed only behind a finished
\* thread, and the monitors finish only after SIGINT.
JoinOrder ==
  /\ mainpc = "start" => stats = "none"
  /\ running => stats # "done" /\ spread # "done"
  /\ mainpc \in {"joinSpread", "joinStats", "exit0"} => bybit = "done"
  /\ mainpc \in {"joinStats", "exit0"} => spread = "done"
  /\ mainpc = "exit0" => stats = "done"

\* Who may have used a destroyed engine: nobody, unless main is in std::exit.
TouchedOnlyInExit == touched # {} => mainpc = "exit42"

\* What main's place says about the Binance connection: it is open, or still being
\* made, in the event loop; the joins lie behind a failed handshake, the close
\* handler behind a closed connection.
LinkStage ==
  /\ mainpc \in {"start", "connect", "backoff"} => link = "none"
  /\ mainpc = "run" => link \in {"connecting", "open"}
  /\ mainpc \in {"lock", "print"} => link = "open"
  /\ mainpc \in {"closing", "exit42"} => link = "closed"
  /\ mainpc \in {"joinBybit", "joinSpread", "joinStats", "exit0"} => link = "failed"

\* The exit codes that main's place allows.
CodeStage == /\ status = "0" => mainpc = "exit0"
             /\ status = "42" => mainpc = "exit42"

\* The inductive invariant.
LifeInv == /\ LifeTypeOK /\ MutexOwner /\ JoinOrder /\ TouchedOnlyInExit
           /\ LinkStage /\ CodeStage

\* The cases of the next-state relation.
LEMMA LifeSteps ==
  ASSUME [LifeNext]_vars
  PROVE  \/ start \/ connect \/ connectError \/ fatal \/ backoff \/ opened \/ connectFailed \/ on_message \/ onMessageAsserts \/ lockMain
         \/ updateEngines \/ closed \/ closing \/ joinBybit \/ joinSpread \/ joinStats \/ exited \/ bybitOpened
         \/ bybitEnded \/ bybitThrows \/ statsTest \/ statsRead \/ statsLock \/ statsPrint \/ spreadTest \/ spreadRead \/ signal_handler
         \/ UNCHANGED vars
  BY DEF LifeNext, MainStep, StatsStep, SpreadStep, Environment

\* The initial state satisfies the invariant.
LEMMA LifeStart == LifeInit => LifeInv
  BY DEF LifeInit, LifeInv, LifeTypeOK, MutexOwner, JoinOrder, TouchedOnlyInExit, LinkStage,
         CodeStage

\* Every step preserves the invariant: one case per action.
LEMMA LifeStep == ASSUME LifeInv, [LifeNext]_vars PROVE LifeInv'
<1> USE DEF LifeInv, LifeTypeOK, MutexOwner, JoinOrder, TouchedOnlyInExit, LinkStage, CodeStage
<1>1. CASE start
  BY <1>1 DEF start
<1>2. CASE connect
  BY <1>2 DEF connect
<1>3. CASE connectError \/ onMessageAsserts
  BY <1>3 DEF connectError, onMessageAsserts, Terminate
<1>4. CASE fatal
  BY <1>4 DEF fatal
<1>5. CASE backoff
  BY <1>5 DEF backoff, Main
<1>6. CASE opened
  BY <1>6 DEF opened
<1>7. CASE connectFailed
  BY <1>7 DEF connectFailed
<1>8. CASE on_message
  BY <1>8 DEF on_message, Main
<1>9. CASE lockMain
  BY <1>9 DEF lockMain
<1>10. CASE updateEngines
  BY <1>10 DEF updateEngines
<1>11. CASE closed
  BY <1>11 DEF closed
<1>12. CASE closing
  BY <1>12 DEF closing, Main
<1>13. CASE joinBybit
  BY <1>13 DEF joinBybit, Main
<1>14. CASE joinSpread
  BY <1>14 DEF joinSpread, Main
<1>15. CASE joinStats
  BY <1>15 DEF joinStats, Main
<1>16. CASE exited
  BY <1>16 DEF exited, Destroyed
<1>17. CASE bybitOpened
  BY <1>17 DEF bybitOpened
<1>18. CASE bybitEnded
  BY <1>18 DEF bybitEnded
<1>19. CASE bybitThrows
  BY <1>19 DEF bybitThrows, Terminate
<1>20. CASE statsTest
  BY <1>20 DEF statsTest
<1>21. CASE statsRead
  BY <1>21 DEF statsRead, Touch, Destroyed, Threads
<1>22. CASE statsLock
  BY <1>22 DEF statsLock
<1>23. CASE statsPrint
  BY <1>23 DEF statsPrint, Touch, Destroyed, Threads
<1>24. CASE spreadTest
  BY <1>24 DEF spreadTest
<1>25. CASE spreadRead
  BY <1>25 DEF spreadRead, Touch, Destroyed, Threads
<1>26. CASE signal_handler
  <2>1. running' = FALSE /\ UNCHANGED <<mainpc, link, bybit, stats, spread, log_mutex, status, touched>>
    BY <1>26, Zenon DEF signal_handler
  <2>2. LifeTypeOK'
    <3>1. running' \in BOOLEAN
      BY <2>1
    <3> QED
      BY <2>1, <3>1
  <2>3. MutexOwner' /\ TouchedOnlyInExit'
    BY <2>1, Zenon
  <2>4. JoinOrder'
    BY <2>1, Zenon
  <2>5. LinkStage' /\ CodeStage'
    BY <2>1, Zenon
  <2> QED
    BY <2>2, <2>3, <2>4, <2>5
<1>27. CASE UNCHANGED vars
  BY <1>27 DEF vars
<1> QED
  BY <1>1, <1>2, <1>3, <1>4, <1>5, <1>6, <1>7, <1>8, <1>9, <1>10, <1>11, <1>12, <1>13, <1>14, <1>15, <1>16, <1>17, <1>18, <1>19, <1>20, <1>21, <1>22, <1>23, <1>24, <1>25, <1>26, <1>27, LifeSteps

\* The invariant holds in every reachable state.
LEMMA LifeInvariant == LifeSpec => []LifeInv
<1>1. LifeInv /\ [LifeNext]_vars => LifeInv'
  BY LifeStep
<1> QED
  BY <1>1, LifeStart, PTL DEF LifeSpec

\* main.cpp: the life cycle keeps its types.
THEOREM LifeTypeCorrect == LifeSpec => []LifeTypeOK
<1>1. LifeInv => LifeTypeOK
  BY DEF LifeInv
<1> QED
  BY <1>1, LifeInvariant, PTL

\* main.cpp lines 269-274: main returns 0 only behind three finished threads, with
\* the mutex free and no engine used after its destructor.
THEOREM CleanExitCorrect == LifeSpec => []CleanExit
<1>1. LifeInv => CleanExit
  BY DEF LifeInv, CleanExit, LifeTypeOK, MutexOwner, JoinOrder, TouchedOnlyInExit
<1> QED
  BY <1>1, LifeInvariant, PTL

\* main.cpp lines 68, 112 and 167: log_mutex excludes its two users.
THEOREM MutexCorrect == LifeSpec => []MutexOwner
<1>1. LifeInv => MutexOwner
  BY DEF LifeInv
<1> QED
  BY <1>1, LifeInvariant, PTL

\* main.cpp lines 246-274: the process returns 0 only after a handshake that failed,
\* a SIGINT and the end of the Bybit thread, and 42 only after a connection that was
\* open has closed, through any number of retries.
THEOREM ExitCodesCorrect == LifeSpec => []ExitCodesMean
<1>1. LifeInv => ExitCodesMean
  BY DEF LifeInv, LifeTypeOK, JoinOrder, LinkStage, CodeStage, ExitCodesMean
<1> QED
  BY <1>1, LifeInvariant, PTL

-----------------------------------------------------------------------------
\* The file arbitrage_log.csv and its three streams.

\* A stream's buffer holds rows of that stream.
OwnRows == \A s \in Streams : \A i \in DOMAIN buf[s] : buf[s][i].from = s

\* Until log_file writes something out, the file holds the append streams' rows.
OnlyAppended == pos = 0 => \A i \in DOMAIN disk : disk[i].from \in AppendStreams

\* A clean exit has written out all of log_file.
ExitWritesAll == phase = "exit0" => pos = Len(recorded) + 1

\* Until log_file writes something out, arbLogger's row of each trade is on disk or
\* in the buffer, and nowhere but on disk once the close handler has exited.
OnDisk(row) == \E j \in DOMAIN disk : disk[j] = row
InBuffer(row) == \E j \in DOMAIN buf["arbLogger"] : buf["arbLogger"][j] = row
ArbRowsKept ==
  pos = 0 => \A i \in DOMAIN recorded :
    /\ phase = "run" => OnDisk(Row("arbLogger", recorded[i]))
                          \/ InBuffer(Row("arbLogger", recorded[i]))
    /\ phase = "exit42" => OnDisk(Row("arbLogger", recorded[i]))

\* The inductive invariant.
LogInv == /\ LogTypeOK /\ LogFileRowsSafe
          /\ OwnRows /\ OnlyAppended /\ ExitWritesAll /\ ArbRowsKept

\* A header and a numbered row are rows.
LEMMA RowTyped ==
  ASSUME NEW s \in Streams, NEW n \in Nat
  PROVE  /\ Row(s, n) \in Rows /\ Row(s, n).from = s
         /\ Header(s) \in Rows /\ Header(s).from = s /\ Header(s) = Row(s, 0)
  BY DEF Row, Header, Rows

\* Writing at an offset within the file replaces rows from there on, and keeps
\* the others.
LEMMA WriteAtIs ==
  ASSUME NEW d \in Seq(Rows), NEW rows \in Seq(Rows), NEW p \in Nat, p <= Len(d)
  PROVE  /\ WriteAt(d, p, rows) \in Seq(Rows)
         /\ Len(WriteAt(d, p, rows)) >= Len(d)
         /\ Len(WriteAt(d, p, rows)) >= p + Len(rows)
         /\ \A i \in 1 .. p : WriteAt(d, p, rows)[i] = d[i]
         /\ \A i \in 1 .. Len(rows) : WriteAt(d, p, rows)[p + i] = rows[i]
<1> DEFINE m == IF p + Len(rows) > Len(d) THEN p + Len(rows) ELSE Len(d)
<1>1. m \in Nat /\ m >= Len(d) /\ m >= p + Len(rows)
  OBVIOUS
<1>2. \A i \in 1 .. m : (IF i > p /\ i <= p + Len(rows) THEN rows[i - p] ELSE d[i]) \in Rows
  OBVIOUS
<1>3. WriteAt(d, p, rows) = [i \in 1 .. m |->
        IF i > p /\ i <= p + Len(rows) THEN rows[i - p] ELSE d[i]]
  BY DEF WriteAt
<1> HIDE DEF m
<1>4. WriteAt(d, p, rows) \in Seq(Rows) /\ Len(WriteAt(d, p, rows)) = m
  <2>1. WriteAt(d, p, rows) \in [1 .. m -> Rows]
    BY <1>2, <1>3
  <2> QED
    BY <1>1, <2>1
<1>5. \A i \in 1 .. p : WriteAt(d, p, rows)[i] = d[i]
  BY <1>1, <1>3
<1>6. \A i \in 1 .. Len(rows) : WriteAt(d, p, rows)[p + i] = rows[i]
  BY <1>1, <1>3
<1> QED
  BY <1>1, <1>4, <1>5, <1>6

\* Appending rows keeps those that are there.
LEMMA ConcatIs ==
  ASSUME NEW d \in Seq(Rows), NEW e \in Seq(Rows)
  PROVE  /\ d \o e \in Seq(Rows) /\ Len(d \o e) = Len(d) + Len(e)
         /\ \A i \in 1 .. Len(d) : (d \o e)[i] = d[i]
         /\ \A i \in 1 .. Len(e) : (d \o e)[Len(d) + i] = e[i]
         /\ \A i \in DOMAIN (d \o e) :
              (\E j \in DOMAIN d : (d \o e)[i] = d[j]) \/ (\E j \in DOMAIN e : (d \o e)[i] = e[j])
<1>1. d \o e \in Seq(Rows) /\ Len(d \o e) = Len(d) + Len(e)
  OBVIOUS
<1>2. \A i \in 1 .. Len(d) : (d \o e)[i] = d[i]
  OBVIOUS
<1>3. \A i \in 1 .. Len(e) : (d \o e)[Len(d) + i] = e[i]
  OBVIOUS
<1>4. ASSUME NEW i \in DOMAIN (d \o e)
      PROVE (\E j \in DOMAIN d : (d \o e)[i] = d[j]) \/ (\E j \in DOMAIN e : (d \o e)[i] = e[j])
  <2>1. CASE i <= Len(d)
    BY <1>1, <1>2, <2>1
  <2>2. CASE i > Len(d)
    <3>1. i - Len(d) \in DOMAIN e
      BY <1>1, <2>2
    <3>2. (d \o e)[i] = e[i - Len(d)]
      BY <1>1, <2>2
    <3> QED
      BY <3>1, <3>2
  <2> QED
    BY <1>1, <2>1, <2>2
<1> QED
  BY <1>1, <1>2, <1>3, <1>4

\* A buffer is split into what is written out and what remains.
LEMMA SplitIs ==
  ASSUME NEW b \in Seq(Rows), NEW n \in 1 .. Len(b)
  PROVE  /\ SubSeq(b, 1, n) \in Seq(Rows) /\ Len(SubSeq(b, 1, n)) = n
         /\ SubSeq(b, n + 1, Len(b)) \in Seq(Rows)
         /\ Len(SubSeq(b, n + 1, Len(b))) = Len(b) - n
         /\ \A i \in 1 .. n : SubSeq(b, 1, n)[i] = b[i]
         /\ \A i \in 1 .. Len(b) - n : SubSeq(b, n + 1, Len(b))[i] = b[n + i]
<1>1. SubSeq(b, 1, n) \in Seq(Rows) /\ Len(SubSeq(b, 1, n)) = n
  OBVIOUS
<1>2. SubSeq(b, n + 1, Len(b)) \in Seq(Rows) /\ Len(SubSeq(b, n + 1, Len(b))) = Len(b) - n
  OBVIOUS
<1>3. \A i \in 1 .. n : SubSeq(b, 1, n)[i] = b[i]
  OBVIOUS
<1>4. \A i \in 1 .. Len(b) - n : SubSeq(b, n + 1, Len(b))[i] = b[n + i]
  OBVIOUS
<1> QED
  BY <1>1, <1>2, <1>3, <1>4

\* Append keeps what is there and adds one element.
LEMMA AppendIs ==
  ASSUME NEW S, NEW b \in Seq(S), NEW e \in S
  PROVE  /\ Append(b, e) \in Seq(S) /\ Len(Append(b, e)) = Len(b) + 1
         /\ DOMAIN Append(b, e) = 1 .. Len(b) + 1 /\ DOMAIN b = 1 .. Len(b) /\ Len(b) \in Nat
         /\ \A i \in 1 .. Len(b) : Append(b, e)[i] = b[i]
         /\ Append(b, e)[Len(b) + 1] = e
  OBVIOUS

\* The three buffers.
LEMMA BufTyped ==
  ASSUME NEW b, b = [s \in Streams |-> b[s]], b["logger"] \in Seq(Rows),
         b["arbLogger"] \in Seq(Rows), b["log_file"] \in Seq(Rows)
  PROVE  b \in [Streams -> Seq(Rows)]
<1>1. \A s \in Streams : b[s] \in Seq(Rows)
  BY Zenon DEF Streams, AppendStreams
<1> QED
  BY <1>1, Zenon

\* The rows of the static streams at exit.
LEMMA StaticRowsAre ==
  ASSUME LogInv
  PROVE  /\ StaticRows \in Seq(Rows)
         /\ \A i \in DOMAIN StaticRows : StaticRows[i].from \in AppendStreams
         /\ \A j \in DOMAIN buf["arbLogger"] : StaticRows[j] = buf["arbLogger"][j]
         /\ Len(StaticRows) >= Len(buf["arbLogger"])
<1>1. /\ buf["arbLogger"] \in Seq(Rows) /\ buf["logger"] \in Seq(Rows)
      /\ \A i \in DOMAIN buf["arbLogger"] : buf["arbLogger"][i].from \in AppendStreams
      /\ \A i \in DOMAIN buf["logger"] : buf["logger"][i].from \in AppendStreams
  BY DEF LogInv, LogTypeOK, OwnRows, Streams, AppendStreams
<1> DEFINE a == buf["arbLogger"]
           l == buf["logger"]
<1>2. /\ a \o l \in Seq(Rows) /\ Len(a \o l) = Len(a) + Len(l)
      /\ \A i \in 1 .. Len(a) : (a \o l)[i] = a[i]
      /\ \A i \in DOMAIN (a \o l) :
           (\E j \in DOMAIN a : (a \o l)[i] = a[j]) \/ (\E j \in DOMAIN l : (a \o l)[i] = l[j])
  BY <1>1, ConcatIs
<1>3. StaticRows = a \o l /\ DOMAIN a = 1 .. Len(a) /\ Len(a) \in Nat /\ Len(l) \in Nat
  BY <1>1 DEF StaticRows
<1>4. \A i \in DOMAIN StaticRows : StaticRows[i].from \in AppendStreams
  BY <1>1, <1>2, <1>3
<1>5. \A j \in DOMAIN a : StaticRows[j] = a[j]
  BY <1>2, <1>3
<1>6. Len(StaticRows) >= Len(a)
  <2>1. Len(StaticRows) = Len(a) + Len(l)
    BY <1>2, <1>3, Zenon
  <2> HIDE DEF a, l
  <2> QED
    BY <1>3, <2>1
<1>7. StaticRows \in Seq(Rows)
  BY <1>2, <1>3
<1> QED
  BY <1>4, <1>5, <1>6, <1>7, Zenon

\* The initial state satisfies the invariant.
LEMMA LogStart == LogInit => LogInv
<1> SUFFICES ASSUME LogInit PROVE LogInv
  OBVIOUS
<1>1. LogTypeOK
  BY DEF LogInit, LogTypeOK
<1>2. LogFileRowsSafe /\ OwnRows
  BY DEF LogInit, LogFileRowsSafe, OwnRows
<1>3. OnlyAppended /\ ExitWritesAll /\ ArbRowsKept
  BY DEF LogInit, OnlyAppended, ExitWritesAll, ArbRowsKept
<1> QED
  BY <1>1, <1>2, <1>3 DEF LogInv

\* A new session starts from an empty file.
LEMMA StartKeeps == ASSUME LogInv, startSession PROVE LogInv'
<1>0. /\ disk' = <<>> /\ pos' = 0 /\ phase' = "run" /\ recorded' = <<>>
      /\ buf' \in [Streams -> Seq(Rows)]
      /\ buf'["log_file"] = <<Header("log_file")>>
      /\ \A s \in Streams : buf'[s] = <<Header(s)>> \/ buf'[s] = <<>>
  BY RowTyped DEF startSession, Streams, AppendStreams
<1>1. LogTypeOK'
  BY <1>0 DEF LogInv, LogTypeOK, startSession
<1>2. LogFileRowsSafe'
  BY <1>0, RowTyped DEF LogFileRowsSafe, LogFileRow, Row, Header
<1>3. OwnRows'
  BY <1>0, RowTyped DEF OwnRows
<1>4. OnlyAppended' /\ ExitWritesAll' /\ ArbRowsKept'
  BY <1>0 DEF OnlyAppended, ExitWritesAll, ArbRowsKept
<1> QED
  BY <1>1, <1>2, <1>3, <1>4 DEF LogInv

\* A trade adds its row to both buffers.
LEMMA RecordKeeps == ASSUME LogInv, recordTrade PROVE LogInv'
<1> USE DEF LogInv
<1> DEFINE r == records + 1
<1>0. /\ phase = "run" /\ phase' = "run" /\ disk' = disk /\ pos' = pos
      /\ r \in Nat /\ records' = r /\ recorded' = Append(recorded, r)
      /\ buf["log_file"] \in Seq(Rows) /\ buf["arbLogger"] \in Seq(Rows)
      /\ Row("log_file", r) \in Rows /\ Row("arbLogger", r) \in Rows
  BY RowTyped DEF recordTrade, LogTypeOK, Streams, AppendStreams
<1>1. /\ buf'["log_file"] = Append(buf["log_file"], Row("log_file", r))
      /\ buf'["arbLogger"] = Append(buf["arbLogger"], Row("arbLogger", r))
      /\ buf'["logger"] = buf["logger"]
      /\ DOMAIN buf' = Streams /\ buf' = [s \in Streams |-> buf'[s]]
  BY DEF recordTrade, LogTypeOK, Streams, AppendStreams
<1>2. LogTypeOK'
  <2>1. buf["logger"] \in Seq(Rows)
    BY DEF LogTypeOK, Streams, AppendStreams
  <2>2. buf' \in [Streams -> Seq(Rows)]
    <3>1. buf'["log_file"] \in Seq(Rows) /\ buf'["arbLogger"] \in Seq(Rows)
      BY <1>0, <1>1, AppendIs
    <3> QED
      BY <1>1, <2>1, <3>1, BufTyped, Zenon
  <2>3. recorded' \in Seq(Nat)
    BY <1>0, AppendIs DEF LogTypeOK
  <2> QED
    BY <1>0, <2>2, <2>3 DEF LogTypeOK, recordTrade
<1>3. LogFileRowsSafe'
  <2>1. recorded \in Seq(Nat) /\ pos \in Nat /\ disk \in Seq(Rows)
    BY DEF LogTypeOK
  <2>2. /\ Len(recorded') = Len(recorded) + 1
        /\ \A i \in 1 .. Len(recorded) : recorded'[i] = recorded[i]
        /\ recorded'[Len(recorded) + 1] = r
    BY <1>0, <2>1, AppendIs
  <2>3. \A i \in 1 .. Len(recorded) + 1 : LogFileRow(recorded', i) = LogFileRow(recorded, i)
    BY <2>1, <2>2 DEF LogFileRow
  <2>4. LogFileRow(recorded', Len(recorded) + 2) = Row("log_file", r)
    BY <2>1, <2>2 DEF LogFileRow
  <2>5. /\ Len(buf'["log_file"]) = Len(buf["log_file"]) + 1 /\ Len(buf["log_file"]) \in Nat
        /\ DOMAIN buf'["log_file"] = 1 .. Len(buf["log_file"]) + 1
        /\ DOMAIN buf["log_file"] = 1 .. Len(buf["log_file"])
        /\ \A i \in DOMAIN buf["log_file"] : buf'["log_file"][i] = buf["log_file"][i]
        /\ buf'["log_file"][Len(buf["log_file"]) + 1] = Row("log_file", r)
    BY <1>0, <1>1, AppendIs
  <2>6. /\ pos <= Len(disk) /\ pos <= Len(recorded) + 1
        /\ \A i \in 1 .. pos : disk[i] = LogFileRow(recorded, i)
        /\ pos + Len(buf["log_file"]) = Len(recorded) + 1
        /\ \A i \in DOMAIN buf["log_file"] : buf["log_file"][i] = LogFileRow(recorded, pos + i)
    BY <1>0 DEF LogFileRowsSafe
  <2>7. \A i \in 1 .. pos : disk[i] = LogFileRow(recorded', i)
    BY <2>1, <2>3, <2>6
  <2>8. ASSUME NEW i \in DOMAIN buf'["log_file"] PROVE buf'["log_file"][i] = LogFileRow(recorded', pos + i)
    <3>1. CASE i <= Len(buf["log_file"])
      <4>1. i \in DOMAIN buf["log_file"] /\ pos + i \in 1 .. Len(recorded) + 1
        BY <2>1, <2>5, <2>6, <3>1
      <4> QED
        BY <2>3, <2>5, <2>6, <4>1
    <3>2. CASE i = Len(buf["log_file"]) + 1
      <4>1. pos + i = Len(recorded) + 2
        BY <2>1, <2>5, <2>6, <3>2
      <4> QED
        BY <2>4, <2>5, <3>2, <4>1
    <3> QED
      BY <2>5, <3>1, <3>2
  <2> QED
    BY <1>0, <2>1, <2>2, <2>5, <2>6, <2>7, <2>8 DEF LogFileRowsSafe
<1>4. OwnRows'
  <2>1. \A s \in Streams : \A i \in DOMAIN buf[s] : buf[s][i].from = s
    BY DEF OwnRows
  <2>2. "log_file" \in Streams /\ "arbLogger" \in Streams /\ "logger" \in Streams
    BY DEF Streams, AppendStreams
  <2>3. ASSUME NEW i \in DOMAIN buf'["log_file"] PROVE buf'["log_file"][i].from = "log_file"
    BY <1>0, <1>1, <2>1, <2>2, AppendIs, RowTyped
  <2>4. ASSUME NEW i \in DOMAIN buf'["arbLogger"] PROVE buf'["arbLogger"][i].from = "arbLogger"
    BY <1>0, <1>1, <2>1, <2>2, AppendIs, RowTyped
  <2>5. \A i \in DOMAIN buf'["logger"] : buf'["logger"][i].from = "logger"
    BY <1>1, <2>1, <2>2, Zenon
  <2> QED
    BY <2>3, <2>4, <2>5, Zenon DEF OwnRows, Streams, AppendStreams
<1>5. OnlyAppended' /\ ExitWritesAll'
  BY <1>0 DEF OnlyAppended, ExitWritesAll
<1>6. ArbRowsKept'
  <2> SUFFICES ASSUME pos = 0, NEW i \in DOMAIN recorded'
               PROVE  \/ OnDisk(Row("arbLogger", recorded'[i]))
                      \/ \E j \in DOMAIN buf'["arbLogger"] :
                           buf'["arbLogger"][j] = Row("arbLogger", recorded'[i])
    BY <1>0 DEF ArbRowsKept, OnDisk, InBuffer
  <2>1. recorded \in Seq(Nat)
    BY DEF LogTypeOK
  <2>2. CASE i = Len(recorded) + 1
    <3>1. Len(buf["arbLogger"]) + 1 \in DOMAIN buf'["arbLogger"]
      BY <1>0, <1>1
    <3>2. buf'["arbLogger"][Len(buf["arbLogger"]) + 1] = Row("arbLogger", recorded'[i])
      BY <1>0, <1>1, <2>1, <2>2
    <3> QED
      BY <3>1, <3>2
  <2>3. CASE i \in DOMAIN recorded
    <3>1. recorded'[i] = recorded[i]
      BY <1>0, <2>1, <2>3
    <3>2. OnDisk(Row("arbLogger", recorded[i])) \/ InBuffer(Row("arbLogger", recorded[i]))
      BY <1>0, <2>3 DEF ArbRowsKept
    <3>3. \A j \in DOMAIN buf["arbLogger"] :
            j \in DOMAIN buf'["arbLogger"] /\ buf'["arbLogger"][j] = buf["arbLogger"][j]
      BY <1>0, <1>1
    <3> QED
      BY <3>1, <3>2, <3>3 DEF InBuffer
  <2> QED
    BY <1>0, <2>1, <2>2, <2>3
<1> QED
  BY <1>2, <1>3, <1>4, <1>5, <1>6

\* An alert adds a row to logger's buffer.
LEMMA AlertKeeps == ASSUME LogInv, logAlert PROVE LogInv'
<1> USE DEF LogInv
<1>0. /\ phase = "run" /\ UNCHANGED <<disk, pos, phase, recorded, sessions>>
      /\ records' \in Nat /\ buf["logger"] \in Seq(Rows)
      /\ Row("logger", records') \in Rows /\ Row("logger", records').from = "logger"
  BY RowTyped DEF logAlert, LogTypeOK, Streams, AppendStreams
<1>1. /\ buf'["logger"] = Append(buf["logger"], Row("logger", records'))
      /\ buf'["arbLogger"] = buf["arbLogger"] /\ buf'["log_file"] = buf["log_file"]
      /\ buf' = [s \in Streams |-> buf'[s]]
  BY DEF logAlert, LogTypeOK, Streams, AppendStreams
<1>2. LogTypeOK'
  <2>1. buf["arbLogger"] \in Seq(Rows) /\ buf["log_file"] \in Seq(Rows)
    BY DEF LogTypeOK, Streams, AppendStreams
  <2>2. buf' \in [Streams -> Seq(Rows)]
    <3>1. buf'["logger"] \in Seq(Rows)
      BY <1>0, <1>1, AppendIs
    <3> QED
      BY <1>1, <2>1, <3>1, BufTyped, Zenon
  <2> QED
    BY <1>0, <2>2 DEF LogTypeOK
<1>3. LogFileRowsSafe'
  BY <1>0, <1>1 DEF LogFileRowsSafe, LogFileRow
<1>4. OwnRows'
  <2>1. \A s \in Streams : \A i \in DOMAIN buf[s] : buf[s][i].from = s
    BY DEF OwnRows
  <2>2. "log_file" \in Streams /\ "arbLogger" \in Streams /\ "logger" \in Streams
    BY DEF Streams, AppendStreams
  <2>3. ASSUME NEW i \in DOMAIN buf'["logger"] PROVE buf'["logger"][i].from = "logger"
    BY <1>0, <1>1, <2>1, <2>2, AppendIs
  <2>4. /\ \A i \in DOMAIN buf'["arbLogger"] : buf'["arbLogger"][i].from = "arbLogger"
        /\ \A i \in DOMAIN buf'["log_file"] : buf'["log_file"][i].from = "log_file"
    BY <1>1, <2>1, <2>2, Zenon
  <2> QED
    BY <2>3, <2>4, Zenon DEF OwnRows, Streams, AppendStreams
<1>5. OnlyAppended' /\ ExitWritesAll' /\ ArbRowsKept'
  BY <1>0, <1>1 DEF OnlyAppended, ExitWritesAll, ArbRowsKept, OnDisk, InBuffer
<1> QED
  BY <1>2, <1>3, <1>4, <1>5

\* What LogFileRowsSafe says while the program runs.
LEMMA RunningRows ==
  ASSUME LogInv, phase = "run"
  PROVE  /\ disk \in Seq(Rows) /\ pos \in Nat /\ buf["log_file"] \in Seq(Rows)
         /\ Len(disk) \in Nat /\ Len(recorded) \in Nat
         /\ Len(buf["log_file"]) \in Nat /\ DOMAIN buf["log_file"] = 1 .. Len(buf["log_file"])
         /\ pos <= Len(disk)
         /\ pos + Len(buf["log_file"]) = Len(recorded) + 1
         /\ \A i \in 1 .. pos : disk[i] = LogFileRow(recorded, i)
         /\ \A i \in 1 .. Len(buf["log_file"]) :
              buf["log_file"][i] = LogFileRow(recorded, pos + i)
<1>1. /\ disk \in Seq(Rows) /\ pos \in Nat /\ buf["log_file"] \in Seq(Rows) /\ recorded \in Seq(Nat)
  BY DEF LogInv, LogTypeOK, Streams, AppendStreams
<1>2. /\ Len(disk) \in Nat /\ Len(recorded) \in Nat
      /\ Len(buf["log_file"]) \in Nat /\ DOMAIN buf["log_file"] = 1 .. Len(buf["log_file"])
  BY <1>1
<1> QED
  BY <1>1, <1>2 DEF LogInv, LogFileRowsSafe

\* log_file's first n buffered rows, written at its offset, continue the rows that
\* are there.
LEMMA WriteRows ==
  ASSUME LogInv, phase = "run", NEW out \in Seq(Rows), Len(out) <= Len(buf["log_file"]),
         \A i \in 1 .. Len(out) : out[i] = buf["log_file"][i]
  PROVE  /\ WriteAt(disk, pos, out) \in Seq(Rows)
         /\ pos + Len(out) \in Nat /\ pos + Len(out) <= Len(WriteAt(disk, pos, out))
         /\ \A i \in 1 .. pos + Len(out) : WriteAt(disk, pos, out)[i] = LogFileRow(recorded, i)
<1> DEFINE w == WriteAt(disk, pos, out)
<1>0. Len(out) \in Nat
  OBVIOUS
<1>1. /\ w \in Seq(Rows) /\ Len(w) >= pos + Len(out)
      /\ \A i \in 1 .. pos : w[i] = disk[i]
      /\ \A i \in 1 .. Len(out) : w[pos + i] = out[i]
  BY RunningRows, WriteAtIs
<1>2. Len(w) \in Nat
  BY <1>1
<1> HIDE DEF w
<1>3. ASSUME NEW i \in 1 .. pos + Len(out) PROVE w[i] = LogFileRow(recorded, i)
  <2>1. CASE i <= pos
    <3>1. i \in 1 .. pos
      BY <1>0, <2>1, RunningRows
    <3> QED
      BY <1>1, <3>1, RunningRows
  <2>2. CASE i > pos
    <3>1. i - pos \in 1 .. Len(out) /\ pos + (i - pos) = i
      BY <1>0, <2>2, RunningRows
    <3>2. w[i] = out[i - pos]
      BY <1>1, <3>1
    <3>3. out[i - pos] = buf["log_file"][i - pos] /\ i - pos \in 1 .. Len(buf["log_file"])
      BY <1>0, <3>1, RunningRows
    <3> QED
      BY <3>1, <3>2, <3>3, RunningRows
  <2> QED
    BY <1>0, <2>1, <2>2, RunningRows
<1> QED
  BY <1>0, <1>1, <1>2, <1>3, RunningRows DEF w

\* Writing out log_file's buffer, in part.
LEMMA FlushLogFileKeeps == ASSUME LogInv, flush("log_file") PROVE LogInv'
<1> USE DEF LogInv
<1> DEFINE b == buf["log_file"]
<1>0. phase = "run" /\ phase' = "run" /\ recorded' = recorded
  BY DEF flush
<1>1. b \in Seq(Rows) /\ Len(b) \in Nat
  BY <1>0, RunningRows
<1>2. PICK n \in 1 .. Len(b) :
        /\ buf' = [buf EXCEPT !["log_file"] = SubSeq(b, n + 1, Len(b))]
        /\ disk' = WriteAt(disk, pos, SubSeq(b, 1, n)) /\ pos' = pos + n
  BY DEF flush, LogTypeOK, Streams
<1> DEFINE out == SubSeq(b, 1, n)
           rest == SubSeq(b, n + 1, Len(b))
<1>3. /\ out \in Seq(Rows) /\ Len(out) = n /\ rest \in Seq(Rows) /\ Len(rest) = Len(b) - n
      /\ \A i \in 1 .. n : out[i] = b[i]
      /\ \A i \in 1 .. Len(b) - n : rest[i] = b[n + i]
  BY <1>1, SplitIs
<1>4. /\ disk' \in Seq(Rows) /\ pos' \in Nat /\ pos' <= Len(disk')
      /\ \A i \in 1 .. pos' : disk'[i] = LogFileRow(recorded, i)
  <2> HIDE DEF out
  <2>1. /\ WriteAt(disk, pos, out) \in Seq(Rows)
        /\ pos + Len(out) \in Nat /\ pos + Len(out) <= Len(WriteAt(disk, pos, out))
        /\ \A i \in 1 .. pos + Len(out) : WriteAt(disk, pos, out)[i] = LogFileRow(recorded, i)
    BY <1>0, <1>1, <1>3, WriteRows
  <2>2. disk' = WriteAt(disk, pos, out) /\ pos' = pos + Len(out)
    BY <1>2, <1>3 DEF out
  <2> QED
    BY <2>1, <2>2
<1>5. /\ buf'["log_file"] = rest /\ buf'["logger"] = buf["logger"]
      /\ buf'["arbLogger"] = buf["arbLogger"] /\ buf' = [s \in Streams |-> buf'[s]]
  BY <1>2 DEF LogTypeOK, Streams, AppendStreams
<1> HIDE DEF out, rest, b
<1>6. LogTypeOK'
  <2>1. buf["logger"] \in Seq(Rows) /\ buf["arbLogger"] \in Seq(Rows)
    BY DEF LogTypeOK, Streams, AppendStreams
  <2>2. buf' \in [Streams -> Seq(Rows)]
    BY <1>3, <1>5, <2>1, BufTyped, Zenon
  <2> QED
    BY <1>0, <1>4, <2>2 DEF LogTypeOK, flush
<1>7. LogFileRowsSafe'
  <2>1. n \in Nat /\ n <= Len(b) /\ pos \in Nat /\ pos' = pos + n
    BY <1>1, <1>2, <1>0, RunningRows
  <2>2. pos + Len(b) = Len(recorded) + 1 /\ Len(recorded) \in Nat
    BY <1>0, RunningRows DEF b
  <2>3. pos' + Len(rest) = Len(recorded) + 1 /\ pos' <= Len(recorded) + 1
    <3>1. Len(rest) = Len(b) - n
      BY <1>3
    <3> QED
      BY <1>1, <2>1, <2>2, <3>1
  <2>4. DOMAIN rest = 1 .. Len(b) - n
    BY <1>3
  <2>5. ASSUME NEW i \in DOMAIN rest PROVE rest[i] = LogFileRow(recorded, pos' + i)
    <3>1. i \in 1 .. Len(b) - n /\ n + i \in 1 .. Len(b) /\ pos' + i = pos + (n + i)
      BY <1>1, <2>1, <2>4
    <3>2. rest[i] = b[n + i]
      BY <1>3, <3>1
    <3>3. b[n + i] = LogFileRow(recorded, pos + (n + i))
      BY <1>0, <3>1, RunningRows DEF b
    <3> QED
      BY <3>1, <3>2, <3>3
  <2> QED
    BY <1>0, <1>4, <1>5, <2>3, <2>5 DEF LogFileRowsSafe
<1>8. OwnRows'
  <2>1. \A s \in Streams : \A i \in DOMAIN buf[s] : buf[s][i].from = s
    BY DEF OwnRows
  <2>2. "log_file" \in Streams /\ "arbLogger" \in Streams /\ "logger" \in Streams
    BY DEF Streams, AppendStreams
  <2>3. ASSUME NEW i \in DOMAIN rest PROVE rest[i].from = "log_file"
    <3>1. i \in 1 .. Len(b) - n /\ n + i \in DOMAIN b
      BY <1>1, <1>3
    <3>2. rest[i] = b[n + i]
      BY <1>3, <3>1
    <3>3. b[n + i].from = "log_file"
      BY <2>1, <2>2, <3>1 DEF b
    <3> QED
      BY <3>2, <3>3
  <2>4. /\ \A i \in DOMAIN buf'["log_file"] : buf'["log_file"][i].from = "log_file"
        /\ \A i \in DOMAIN buf'["logger"] : buf'["logger"][i].from = "logger"
        /\ \A i \in DOMAIN buf'["arbLogger"] : buf'["arbLogger"][i].from = "arbLogger"
    BY <1>5, <2>1, <2>2, <2>3, Zenon
  <2> QED
    BY <2>4, Zenon DEF OwnRows, Streams, AppendStreams
<1>9. OnlyAppended' /\ ExitWritesAll' /\ ArbRowsKept'
  <2>1. pos' # 0
    BY <1>0, <1>1, <1>2, RunningRows
  <2> QED
    BY <1>0, <2>1 DEF OnlyAppended, ExitWritesAll, ArbRowsKept
<1> QED
  BY <1>6, <1>7, <1>8, <1>9

\* Rows appended to the file leave log_file's part alone.
LEMMA AppendRows ==
  ASSUME LogInv, NEW e \in Seq(Rows), disk' = disk \o e, pos' = pos
  PROVE  /\ disk' \in Seq(Rows) /\ pos' <= Len(disk')
         /\ \A i \in 1 .. pos : disk'[i] = disk[i]
         /\ \A i \in DOMAIN disk : i \in DOMAIN disk' /\ disk'[i] = disk[i]
         /\ \A i \in DOMAIN e : Len(disk) + i \in DOMAIN disk' /\ disk'[Len(disk) + i] = e[i]
<1>1. disk \in Seq(Rows) /\ pos \in Nat /\ pos <= Len(disk) /\ Len(disk) \in Nat
  <2>1. disk \in Seq(Rows) /\ pos \in Nat /\ pos <= Len(disk)
    BY DEF LogInv, LogTypeOK, LogFileRowsSafe
  <2> QED
    BY <2>1
<1>2. /\ disk \o e \in Seq(Rows) /\ Len(disk \o e) = Len(disk) + Len(e) /\ Len(e) \in Nat
      /\ \A i \in 1 .. Len(disk) : (disk \o e)[i] = disk[i]
      /\ \A i \in 1 .. Len(e) : (disk \o e)[Len(disk) + i] = e[i]
  BY <1>1, ConcatIs
<1>3. DOMAIN disk = 1 .. Len(disk) /\ DOMAIN e = 1 .. Len(e) /\ DOMAIN disk' = 1 .. Len(disk')
  BY <1>1, <1>2
<1>4. Len(disk') = Len(disk) + Len(e) /\ disk' \in Seq(Rows)
  BY <1>2
<1>5. \A i \in 1 .. Len(disk) : disk'[i] = disk[i]
  BY <1>2
<1>6. \A i \in 1 .. Len(e) : disk'[Len(disk) + i] = e[i]
  BY <1>2
<1>7. Len(e) \in Nat /\ pos' = pos
  BY <1>2
<1> QED
  BY <1>1, <1>3, <1>4, <1>5, <1>6, <1>7

\* Appended rows of the append streams keep OnlyAppended.
LEMMA AppendOnly ==
  ASSUME LogInv, NEW e \in Seq(Rows), disk' = disk \o e, pos' = pos,
         \A i \in DOMAIN e : e[i].from \in AppendStreams
  PROVE  OnlyAppended'
<1>1. disk \in Seq(Rows)
  BY DEF LogInv, LogTypeOK
<1>2. \A i \in DOMAIN (disk \o e) :
        \/ \E j \in DOMAIN disk : (disk \o e)[i] = disk[j]
        \/ \E j \in DOMAIN e : (disk \o e)[i] = e[j]
  BY <1>1, ConcatIs
<1>3. \A i \in DOMAIN disk' :
        \/ \E j \in DOMAIN disk : disk'[i] = disk[j]
        \/ \E j \in DOMAIN e : disk'[i] = e[j]
  BY <1>2
<1>4. pos = 0 => \A j \in DOMAIN disk : disk[j].from \in AppendStreams
  BY DEF LogInv, OnlyAppended
<1>5. ASSUME pos' = 0, NEW i \in DOMAIN disk' PROVE disk'[i].from \in AppendStreams
  <2>1. \A j \in DOMAIN disk : disk[j].from \in AppendStreams
    BY <1>4, <1>5
  <2>2. CASE \E j \in DOMAIN disk : disk'[i] = disk[j]
    BY <2>1, <2>2
  <2>3. CASE \E j \in DOMAIN e : disk'[i] = e[j]
    BY <2>3
  <2> QED
    BY <1>3, <2>2, <2>3
<1> QED
  BY <1>5 DEF OnlyAppended

\* Writing out the buffer of an append stream, in part.
LEMMA FlushAppendKeeps ==
  ASSUME LogInv, NEW s \in AppendStreams, flush(s) PROVE LogInv'
<1> USE DEF LogInv
<1>0. phase = "run" /\ phase' = "run" /\ recorded' = recorded /\ s # "log_file" /\ s \in Streams
  BY DEF flush, AppendStreams, Streams
<1> DEFINE b == buf[s]
<1>1. b \in Seq(Rows) /\ Len(b) \in Nat
  <2>1. b \in Seq(Rows)
    BY <1>0 DEF LogTypeOK
  <2> QED
    BY <2>1
<1>2. PICK n \in 1 .. Len(b) :
        /\ buf' = [buf EXCEPT ![s] = SubSeq(b, n + 1, Len(b))]
        /\ disk' = disk \o SubSeq(b, 1, n) /\ pos' = pos
  BY <1>0 DEF flush, LogTypeOK
<1> DEFINE out == SubSeq(b, 1, n)
           rest == SubSeq(b, n + 1, Len(b))
<1>3. /\ out \in Seq(Rows) /\ Len(out) = n /\ rest \in Seq(Rows) /\ Len(rest) = Len(b) - n
      /\ \A i \in 1 .. n : out[i] = b[i]
      /\ \A i \in 1 .. Len(b) - n : rest[i] = b[n + i]
  BY <1>1, SplitIs
<1>4. /\ DOMAIN out = 1 .. n /\ DOMAIN rest = 1 .. Len(b) - n /\ DOMAIN b = 1 .. Len(b)
      /\ n \in Nat /\ n <= Len(b)
  BY <1>1, <1>2, <1>3
<1>5. /\ buf'[s] = rest /\ \A t \in Streams \ {s} : buf'[t] = buf[t]
      /\ buf' \in [Streams -> Seq(Rows)]
  BY <1>0, <1>2, <1>3 DEF LogTypeOK
<1>6. disk' = disk \o out /\ pos' = pos
  BY <1>2
<1> HIDE DEF out, rest, b
<1>7. /\ disk' \in Seq(Rows) /\ pos' <= Len(disk')
      /\ \A i \in 1 .. pos : disk'[i] = disk[i]
      /\ \A i \in DOMAIN disk : i \in DOMAIN disk' /\ disk'[i] = disk[i]
      /\ \A i \in DOMAIN out : Len(disk) + i \in DOMAIN disk' /\ disk'[Len(disk) + i] = out[i]
  BY <1>3, <1>6, AppendRows
<1>8. LogTypeOK'
  BY <1>0, <1>5, <1>6, <1>7 DEF LogTypeOK, flush
<1>9. LogFileRowsSafe'
  <2>1. buf'["log_file"] = buf["log_file"]
    BY <1>0, <1>5 DEF Streams
  <2> QED
    BY <1>0, <1>6, <1>7, <2>1 DEF LogFileRowsSafe
<1>10. OwnRows'
  <2>1. \A t \in Streams : \A i \in DOMAIN buf[t] : buf[t][i].from = t
    BY DEF OwnRows
  <2>2. ASSUME NEW i \in DOMAIN rest PROVE rest[i].from = s
    <3>1. i \in 1 .. Len(b) - n /\ n + i \in DOMAIN b
      BY <1>1, <1>4
    <3>2. rest[i] = b[n + i]
      BY <1>3, <3>1
    <3>3. b[n + i].from = s
      BY <1>0, <2>1, <3>1 DEF b
    <3> QED
      BY <3>2, <3>3
  <2>3. ASSUME NEW t \in Streams, NEW i \in DOMAIN buf'[t] PROVE buf'[t][i].from = t
    BY <1>5, <2>1, <2>2
  <2> QED
    BY <2>3 DEF OwnRows
<1>11. OnlyAppended' /\ ExitWritesAll'
  <2>1. \A i \in DOMAIN out : out[i].from \in AppendStreams
    <3>1. \A i \in DOMAIN out : i \in DOMAIN b /\ out[i] = b[i]
      BY <1>1, <1>3, <1>4
    <3>2. \A i \in DOMAIN b : b[i].from = s
      BY <1>0 DEF OwnRows, b
    <3> QED
      BY <3>1, <3>2
  <2>2. OnlyAppended'
    BY <1>3, <1>6, <2>1, AppendOnly
  <2> QED
    BY <1>0, <2>2 DEF ExitWritesAll
<1>12. ArbRowsKept'
  <2> SUFFICES ASSUME pos = 0, NEW k \in DOMAIN recorded
               PROVE  OnDisk(Row("arbLogger", recorded[k]))'
                        \/ InBuffer(Row("arbLogger", recorded[k]))'
    BY <1>0, <1>6 DEF ArbRowsKept, OnDisk, InBuffer
  <2> DEFINE row == Row("arbLogger", recorded[k])
  <2>0. recorded' = recorded
    BY <1>0
  <2>1. OnDisk(row) \/ InBuffer(row)
    BY <1>0 DEF ArbRowsKept
  <2>2. OnDisk(row) => \E j \in DOMAIN disk' : disk'[j] = row
    BY <1>7 DEF OnDisk
  <2>3. ASSUME NEW j \in DOMAIN buf["arbLogger"], buf["arbLogger"][j] = row, s = "arbLogger", j <= n
        PROVE  \E i \in DOMAIN disk' : disk'[i] = row
    <3>1. j \in DOMAIN out /\ out[j] = row
      BY <1>1, <1>3, <1>4, <2>3 DEF b
    <3> QED
      BY <1>7, <3>1
  <2>4. ASSUME NEW j \in DOMAIN buf["arbLogger"], buf["arbLogger"][j] = row, s = "arbLogger", j > n
        PROVE  \E i \in DOMAIN buf'["arbLogger"] : buf'["arbLogger"][i] = row
    <3>1. j \in 1 .. Len(b) /\ b[j] = row
      BY <1>4, <2>4 DEF b
    <3>2. j - n \in 1 .. Len(b) - n /\ n + (j - n) = j
      BY <1>1, <1>4, <2>4, <3>1
    <3>3. rest[j - n] = row
      BY <1>3, <3>1, <3>2
    <3> QED
      BY <1>4, <1>5, <2>4, <3>2, <3>3
  <2>5. ASSUME s # "arbLogger" PROVE buf'["arbLogger"] = buf["arbLogger"]
    BY <1>5, <2>5 DEF Streams, AppendStreams
  <2>6. InBuffer(row) => \/ \E i \in DOMAIN disk' : disk'[i] = row
                         \/ \E i \in DOMAIN buf'["arbLogger"] : buf'["arbLogger"][i] = row
    <3>1. ASSUME NEW j \in DOMAIN buf["arbLogger"], buf["arbLogger"][j] = row, s = "arbLogger"
          PROVE  \/ \E i \in DOMAIN disk' : disk'[i] = row
                 \/ \E i \in DOMAIN buf'["arbLogger"] : buf'["arbLogger"][i] = row
      <4>1. j <= n \/ j > n
        BY <1>1, <1>4, <3>1 DEF b
      <4> QED
        BY <2>3, <2>4, <3>1, <4>1, Zenon
    <3> QED
      BY <2>5, <3>1, Zenon DEF InBuffer
  <2> QED
    BY <2>0, <2>1, <2>2, <2>6, Zenon DEF OnDisk, InBuffer
<1> QED
  BY <1>8, <1>9, <1>10, <1>11, <1>12

\* return 0 writes out log_file's buffer and then those of the static streams.
LEMMA ReturnKeeps == ASSUME LogInv, return0 PROVE LogInv'
<1> USE DEF LogInv
<1> DEFINE b == buf["log_file"]
           w == WriteAt(disk, pos, b)
<1>0. /\ phase = "run" /\ phase' = "exit0" /\ recorded' = recorded
      /\ disk' = w \o StaticRows /\ pos' = pos + Len(b) /\ buf' = [s \in Streams |-> <<>>]
  BY DEF return0
<1>1. b \in Seq(Rows) /\ Len(b) \in Nat /\ pos + Len(b) = Len(recorded) + 1 /\ Len(recorded) \in Nat
  BY <1>0, RunningRows
<1>2. /\ w \in Seq(Rows) /\ pos + Len(b) \in Nat /\ pos + Len(b) <= Len(w)
      /\ \A i \in 1 .. pos + Len(b) : w[i] = LogFileRow(recorded, i)
  BY <1>0, <1>1, WriteRows
<1> HIDE DEF b, w
<1>3. /\ w \o StaticRows \in Seq(Rows) /\ Len(w \o StaticRows) = Len(w) + Len(StaticRows)
      /\ \A i \in 1 .. Len(w) : (w \o StaticRows)[i] = w[i]
  BY <1>2, StaticRowsAre, ConcatIs
<1>4. Len(w) \in Nat /\ Len(StaticRows) \in Nat
  BY <1>2, StaticRowsAre
<1>5. disk' \in Seq(Rows) /\ Len(disk') = Len(w) + Len(StaticRows)
  BY <1>0, <1>3
<1>6. \A i \in 1 .. pos' : disk'[i] = LogFileRow(recorded, i)
  <2>1. ASSUME NEW i \in 1 .. pos' PROVE disk'[i] = LogFileRow(recorded, i)
    <3>1. i \in 1 .. pos + Len(b) /\ i \in 1 .. Len(w)
      BY <1>0, <1>2, <1>4
    <3> QED
      BY <1>0, <1>2, <1>3, <3>1
  <2> QED
    BY <2>1
<1>7. pos' \in Nat /\ pos' <= Len(disk') /\ pos' = Len(recorded) + 1 /\ pos' # 0
  BY <1>0, <1>1, <1>2, <1>4, <1>5
<1>8. LogTypeOK'
  BY <1>0, <1>5, <1>7 DEF LogTypeOK, return0
<1>9. LogFileRowsSafe'
  BY <1>0, <1>6, <1>7 DEF LogFileRowsSafe
<1>10. OwnRows'
  BY <1>0 DEF OwnRows
<1>11. OnlyAppended' /\ ExitWritesAll' /\ ArbRowsKept'
  BY <1>0, <1>7 DEF OnlyAppended, ExitWritesAll, ArbRowsKept
<1> QED
  BY <1>8, <1>9, <1>10, <1>11

\* std::exit writes out the static streams' buffers.
LEMMA ExitKeeps == ASSUME LogInv, exit42 PROVE LogInv'
<1> USE DEF LogInv
<1>0. /\ phase = "run" /\ phase' = "exit42" /\ recorded' = recorded
      /\ disk' = disk \o StaticRows /\ pos' = pos /\ buf' = [s \in Streams |-> <<>>]
  BY DEF exit42
<1>1. /\ disk' \in Seq(Rows) /\ pos' <= Len(disk')
      /\ \A i \in 1 .. pos : disk'[i] = disk[i]
      /\ \A i \in DOMAIN disk : i \in DOMAIN disk' /\ disk'[i] = disk[i]
      /\ \A i \in DOMAIN StaticRows :
           Len(disk) + i \in DOMAIN disk' /\ disk'[Len(disk) + i] = StaticRows[i]
  BY <1>0, StaticRowsAre, AppendRows
<1>2. LogTypeOK'
  BY <1>0, <1>1 DEF LogTypeOK, exit42
<1>3. LogFileRowsSafe'
  BY <1>0, <1>1 DEF LogFileRowsSafe
<1>4. OwnRows'
  BY <1>0 DEF OwnRows
<1>5. OnlyAppended' /\ ExitWritesAll'
  <2>1. OnlyAppended'
    BY <1>0, StaticRowsAre, AppendOnly
  <2> QED
    BY <1>0, <2>1 DEF ExitWritesAll
<1>6. ArbRowsKept'
  <2> SUFFICES ASSUME pos = 0, NEW k \in DOMAIN recorded
               PROVE  \E i \in DOMAIN disk' : disk'[i] = Row("arbLogger", recorded[k])
    BY <1>0 DEF ArbRowsKept, OnDisk
  <2> DEFINE row == Row("arbLogger", recorded[k])
  <2>1. OnDisk(row) \/ InBuffer(row)
    BY <1>0 DEF ArbRowsKept
  <2>2. CASE OnDisk(row)
    BY <1>1, <2>2 DEF OnDisk
  <2>3. CASE InBuffer(row)
    <3>1. PICK j \in DOMAIN buf["arbLogger"] : buf["arbLogger"][j] = row
      BY <2>3 DEF InBuffer
    <3>2. buf["arbLogger"] \in Seq(Rows) /\ StaticRows \in Seq(Rows)
      BY StaticRowsAre DEF LogTypeOK, Streams, AppendStreams
    <3>3. j \in DOMAIN StaticRows
      <4>1. Len(StaticRows) >= Len(buf["arbLogger"])
        BY StaticRowsAre
      <4> QED
        BY <3>1, <3>2, <4>1
    <3>4. StaticRows[j] = row
      BY <3>1, StaticRowsAre
    <3> QED
      BY <1>1, <3>3, <3>4
  <2> QED
    BY <2>1, <2>2, <2>3
<1> QED
  BY <1>2, <1>3, <1>4, <1>5, <1>6

\* std::terminate loses the buffers.
LEMMA AbortKeeps == ASSUME LogInv, abort PROVE LogInv'
<1> USE DEF LogInv
<1>0. /\ phase' = "abort" /\ buf' = [s \in Streams |-> <<>>]
      /\ UNCHANGED <<disk, pos, recorded, records, sessions>>
  BY DEF abort
<1>1. LogTypeOK'
  BY <1>0 DEF LogTypeOK
<1>2. LogFileRowsSafe' /\ OwnRows'
  BY <1>0 DEF LogFileRowsSafe, OwnRows
<1>3. OnlyAppended' /\ ExitWritesAll' /\ ArbRowsKept'
  BY <1>0 DEF OnlyAppended, ExitWritesAll, ArbRowsKept
<1> QED
  BY <1>1, <1>2, <1>3

\* Every step preserves the invariant.
LEMMA LogStep == ASSUME LogInv, [LogNext]_logVars PROVE LogInv'
<1>1. CASE UNCHANGED logVars
  BY <1>1 DEF logVars, LogInv, LogTypeOK, LogFileRowsSafe, OwnRows, OnlyAppended, ExitWritesAll,
     ArbRowsKept, OnDisk, InBuffer
<1>2. CASE \E s \in Streams : flush(s)
  BY <1>2, FlushLogFileKeeps, FlushAppendKeeps DEF Streams
<1> QED
  BY <1>1, <1>2, StartKeeps, RecordKeeps, AlertKeeps, ReturnKeeps, ExitKeeps, AbortKeeps DEF LogNext

\* The invariant holds in every reachable state.
LEMMA LogInvariant == LogSpec => []LogInv
<1>1. LogInv /\ [LogNext]_logVars => LogInv'
  BY LogStep
<1> QED
  BY <1>1, LogStart, PTL DEF LogSpec

\* The file, the buffers and the trades keep their types.
THEOREM LogTypeCorrect == LogSpec => []LogTypeOK
<1>1. LogInv => LogTypeOK
  BY DEF LogInv
<1> QED
  BY <1>1, LogInvariant, PTL

\* main.cpp lines 141 and 41: the append streams never write over log_file's rows.
THEOREM LogFileRowsSafeCorrect == LogSpec => []LogFileRowsSafe
<1>1. LogInv => LogFileRowsSafe
  BY DEF LogInv
<1> QED
  BY <1>1, LogInvariant, PTL

\* main.cpp lines 269-274: a clean exit leaves every trade of the session on disk.
THEOREM CleanExitKeepsTradesCorrect == LogSpec => []CleanExitKeepsTrades
<1>1. ASSUME LogInv PROVE CleanExitKeepsTrades
  <2> SUFFICES ASSUME phase = "exit0"
               PROVE  /\ Len(disk) > Len(recorded)
                      /\ \A i \in DOMAIN recorded : disk[i + 1] = Row("log_file", recorded[i])
    BY DEF CleanExitKeepsTrades
  <2>1. recorded \in Seq(Nat) /\ disk \in Seq(Rows)
    BY <1>1 DEF LogInv, LogTypeOK
  <2>2. /\ pos = Len(recorded) + 1 /\ pos <= Len(disk)
        /\ \A i \in 1 .. pos : disk[i] = LogFileRow(recorded, i)
    BY <1>1 DEF LogInv, ExitWritesAll, LogFileRowsSafe
  <2>3. Len(disk) > Len(recorded)
    BY <2>1, <2>2
  <2>4. ASSUME NEW i \in DOMAIN recorded PROVE disk[i + 1] = Row("log_file", recorded[i])
    <3>1. i + 1 \in 1 .. pos /\ i + 1 # 1 /\ (i + 1) - 1 = i
      BY <2>1, <2>2
    <3>2. LogFileRow(recorded, i + 1) = Row("log_file", recorded[i])
      BY <3>1 DEF LogFileRow
    <3> QED
      BY <2>2, <3>1, <3>2
  <2> QED
    BY <2>3, <2>4
<1> QED
  BY <1>1, LogInvariant, PTL

\* main.cpp line 249: std::exit in the close handler keeps the trades' rows as long
\* as log_file has written nothing out.
THEOREM CloseKeepsTradesCorrect == LogSpec => []CloseKeepsTrades
<1>1. LogInv => CloseKeepsTrades
  BY DEF LogInv, ArbRowsKept, OnDisk, CloseKeepsTrades
<1> QED
  BY <1>1, LogInvariant, PTL

\* summarize_pnl.py lines 43-49: a file the report accepts is in one format.
THEOREM ReportNeverMixesCorrect == LogSpec => []ReportNeverMixes
<1>1. ASSUME LogInv PROVE ReportNeverMixes
  <2>1. disk \in Seq(Rows) /\ pos \in Nat
    BY <1>1 DEF LogInv, LogTypeOK
  <2>2. CASE pos = 0
    BY <1>1, <2>2 DEF LogInv, OnlyAppended, ReportNeverMixes
  <2>3. CASE pos # 0
    <3>1. disk[1] = LogFileRow(recorded, 1)
      BY <1>1, <2>1, <2>3 DEF LogInv, LogFileRowsSafe
    <3>2. disk[1].from = "log_file"
      BY <3>1 DEF LogFileRow, Row
    <3>3. ~Accepts(disk)
      BY <3>2 DEF Accepts, AppendStreams
    <3> QED
      BY <3>3 DEF ReportNeverMixes
  <2> QED
    BY <2>2, <2>3
<1> QED
  BY <1>1, LogInvariant, PTL
=============================================================================
