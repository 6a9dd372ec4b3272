---------------------------- MODULE MCArbLogFile ----------------------------
\* Two sessions and three records: enough for streams to overtake each other,
\* for a row to be written over, and for a restart over a file with rows.
EXTENDS ArbLogFile
=============================================================================
