----------------------------- MODULE ArbLogFile -----------------------------
(***************************************************************************)
(* The file arbitrage_log.csv and the three buffered streams open on it:   *)
(* logger (SyntheticPair.hpp) and arbLogger (main.cpp), both ArbLoggers in *)
(* append mode, and main's own log_file, which truncates the file and then *)
(* writes at its own offset.  Which rows are on disk in the end depends on *)
(* how the process ends.  Accepts is the test reports/summarize_pnl.py     *)
(* makes of the file.                                                      *)
(*                                                                         *)
(* A row, whatever its length, is one cell of the file; a stream's buffer  *)
(* is written out in whole rows.                                           *)
(***************************************************************************)
EXTENDS Naturals, Sequences

CONSTANTS MaxRecords,   \* bound: trades and alerts recorded
          MaxSessions   \* bound: times the program is started
ASSUME LogAssumption == MaxRecords \in Nat /\ MaxSessions \in Nat

VARIABLES disk,       \* the rows of the file
          pos,        \* the offset of log_file, in rows
          buf,        \* stream -> rows not written out yet
          phase,      \* "down", "run", or how the last session ended
          recorded,   \* this session's trades
          records,    \* number of trades and alerts so far
          sessions    \* number of sessions so far
logVars == <<disk, pos, buf, phase, recorded, records, sessions>>

AppendStreams == {"logger", "arbLogger"}
Streams == AppendStreams \cup {"log_file"}
Header(stream) == [from |-> stream, n |-> 0]
Row(stream, n) == [from |-> stream, n |-> n]

LogInit == /\ disk = <<>> /\ pos = 0 /\ buf = [s \in Streams |-> <<>>]
           /\ phase = "down" /\ recorded = <<>> /\ records = 0 /\ sessions = 0

\* The static ArbLoggers open the file and write a header if tellp() is 0, which
\* in append mode may hold before the first write even if the file has rows;
\* then main's log_file truncates it.  All headers stay in the buffers.
startSession ==
  /\ phase # "run" /\ sessions < MaxSessions
  /\ \E tellp \in {0, Len(disk)} :
       buf' = [s \in Streams |->
                 IF s = "log_file" \/ tellp = 0 THEN <<Header(s)>> ELSE <<>>]
  /\ disk' = <<>> /\ pos' = 0
  /\ phase' = "run" /\ recorded' = <<>> /\ sessions' = sessions + 1 /\ UNCHANGED records

\* MockPnLEngine::recordTrade with both loggers attached.
recordTrade ==
  /\ phase = "run" /\ records < MaxRecords
  /\ records' = records + 1 /\ recorded' = Append(recorded, records')
  /\ buf' = [buf EXCEPT !["log_file"] = Append(@, Row("log_file", records')),
                        !["arbLogger"] = Append(@, Row("arbLogger", records'))]
  /\ UNCHANGED <<disk, pos, phase, sessions>>

\* SyntheticPair's alert, through ArbLogger::log.
logAlert ==
  /\ phase = "run" /\ records < MaxRecords
  /\ records' = records + 1
  /\ buf' = [buf EXCEPT !["logger"] = Append(@, Row("logger", records'))]
  /\ UNCHANGED <<disk, pos, phase, recorded, sessions>>

\* Mutant: log_file is opened in append mode too.
WriteAt_Append(d, p, rows) == d \o rows

\* Mutant: log_file starts one row late and leaves a hole in the file.
WriteAt_Hole(d, p, rows) ==
  [i \in 1 .. (p + 1 + Len(rows)) |->
     IF i > p + 1 THEN rows[i - p - 1]
     ELSE IF i <= Len(d) THEN d[i] ELSE Row("hole", 0)]

\* A write at offset p: over what is there, and past the end.
WriteAt(d, p, rows) ==
  [i \in 1 .. (IF p + Len(rows) > Len(d) THEN p + Len(rows) ELSE Len(d)) |->
     IF i > p /\ i <= p + Len(rows) THEN rows[i - p] ELSE d[i]]

\* A full buffer is written out.
flush(s) ==
  /\ phase = "run" /\ buf[s] # <<>>
  /\ \E n \in 1 .. Len(buf[s]) :
       LET out == SubSeq(buf[s], 1, n)
       IN  /\ buf' = [buf EXCEPT ![s] = SubSeq(@, n + 1, Len(@))]
           /\ disk' = IF s = "log_file" THEN WriteAt(disk, pos, out) ELSE disk \o out
           /\ pos' = IF s = "log_file" THEN pos + n ELSE pos
  /\ UNCHANGED <<phase, recorded, records, sessions>>

\* The static destructors: arbLogger, then logger.
StaticRows == buf["arbLogger"] \o buf["logger"]

\* Mutant: the static streams alone are flushed.
return0_StaticsOnly ==
  /\ phase = "run" /\ phase' = "exit0"
  /\ disk' = disk \o StaticRows
  /\ buf' = [s \in Streams |-> <<>>]
  /\ UNCHANGED <<pos, recorded, records, sessions>>

\* return 0: main's locals are destroyed before the statics.
return0 ==
  /\ phase = "run" /\ phase' = "exit0"
  /\ disk' = WriteAt(disk, pos, buf["log_file"]) \o StaticRows
  /\ pos' = pos + Len(buf["log_file"])
  /\ buf' = [s \in Streams |-> <<>>]
  /\ UNCHANGED <<recorded, records, sessions>>

\* Mutant: std::_Exit, which destroys nothing.
exit42_Quick ==
  /\ phase = "run" /\ phase' = "exit42"
  /\ buf' = [s \in Streams |-> <<>>]
  /\ UNCHANGED <<disk, pos, recorded, records, sessions>>

\* std::exit(42) in the close handler: the statics, but none of main's locals.
exit42 ==
  /\ phase = "run" /\ phase' = "exit42"
  /\ disk' = disk \o StaticRows
  /\ buf' = [s \in Streams |-> <<>>]
  /\ UNCHANGED <<pos, recorded, records, sessions>>

\* std::terminate: nothing is flushed.
abort ==
  /\ phase = "run" /\ phase' = "abort"
  /\ buf' = [s \in Streams |-> <<>>]
  /\ UNCHANGED <<disk, pos, recorded, records, sessions>>

LogNext == \/ startSession \/ recordTrade \/ logAlert \/ return0 \/ exit42 \/ abort
           \/ \E s \in Streams : flush(s)
LogSpec == LogInit /\ [][LogNext]_logVars

\* summarize_pnl.py goes on only if the first line names its required columns
\* (synthetic_price, real_price, net_pnl): log_file's header does not.
Accepts(d) == d # <<>> /\ d[1].n = 0 /\ d[1].from \in AppendStreams
-----------------------------------------------------------------------------
Rows == [from : Streams, n : Nat]

LogTypeOK ==
  /\ disk \in Seq(Rows) /\ pos \in Nat /\ buf \in [Streams -> Seq(Rows)]
  /\ phase \in {"down", "run", "exit0", "exit42", "abort"}
  /\ recorded \in Seq(Nat) /\ records \in Nat /\ sessions \in Nat

\* What log_file has been given in a session with the trades rec, header first.
LogFileRow(rec, i) == Row("log_file", IF i = 1 THEN 0 ELSE rec[i - 1])

\* The append streams never write over log_file, nor does it over itself: the
\* file starts with the rows log_file has written out, and its buffer holds
\* the rest, in order.
LogFileRowsSafe ==
  /\ pos <= Len(disk)
  /\ pos <= Len(recorded) + 1
  /\ \A i \in 1 .. pos : disk[i] = LogFileRow(recorded, i)
  /\ phase = "run" =>
       /\ pos + Len(buf["log_file"]) = Len(recorded) + 1
       /\ \A i \in DOMAIN buf["log_file"] : buf["log_file"][i] = LogFileRow(recorded, pos + i)

\* After a clean exit every trade of the session is on disk, in order, whatever
\* the three streams wrote over each other while they ran.
CleanExitKeepsTrades ==
  phase = "exit0" =>
    /\ Len(disk) > Len(recorded)
    /\ \A i \in DOMAIN recorded : disk[i + 1] = Row("log_file", recorded[i])

\* After the close handler's exit every trade is still on disk, provided that
\* log_file had not written anything out.
CloseKeepsTrades ==
  phase = "exit42" /\ pos = 0 =>
    \A i \in DOMAIN recorded : \E j \in DOMAIN disk : disk[j] = Row("arbLogger", recorded[i])

\* A file the report accepts has no row in log_file's format, whose size column
\* would be added up as net_pnl.
ReportNeverMixes ==
  Accepts(disk) => \A i \in DOMAIN disk : disk[i].from \in AppendStreams

\* docs/README.md line 119: "single header row".
SingleHeader == \A i, j \in DOMAIN disk : disk[i].n = 0 /\ disk[j].n = 0 => i = j
=============================================================================
