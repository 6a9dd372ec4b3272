--------------------------- MODULE MCSharedState ---------------------------
\*   overlay  four messages: enough for two mark prices or funding rates within
\*            one pass of the overlay
\*   log      two sessions and three records: enough for streams to overtake
\*            each other, for a row to be written over, and for a restart over
\*            a file with rows
\*   cache    two feeds and a pricer; a message has its rate 1 or not and its
\*            time 5 or not, so that mixing two updates shows; 5 does not fit an
\*            int of 8 values
EXTENDS SharedState
=============================================================================
