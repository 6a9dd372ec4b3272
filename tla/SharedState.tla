---------------------------- MODULE SharedState ----------------------------
(***************************************************************************)
(* The three pieces of state that more than one user works on at a time,   *)
(* side by side: what the stats overlay displays, arbitrage_log.csv and    *)
(* the funding cache.  They have no variable in common and no step touches *)
(* two of them, so a behaviour explores one, the one in focus, and leaves  *)
(* the others at their start.                                              *)
(***************************************************************************)
EXTENDS Overlay, ArbLogFile, FundingCache

VARIABLE focus
sharedVars == <<focus, overVars, logVars, fundVars>>

SharedInit == /\ focus \in {"overlay", "log", "cache"}
              /\ OverInit /\ LogInit /\ FundInit

SharedNext ==
  /\ UNCHANGED focus
  /\ \/ focus = "overlay" /\ OverNext /\ UNCHANGED <<logVars, fundVars>>
     \/ focus = "log" /\ LogNext /\ UNCHANGED <<overVars, fundVars>>
     \/ focus = "cache" /\ FundNext /\ UNCHANGED <<overVars, logVars>>

SharedSpec == SharedInit /\ [][SharedNext]_sharedVars /\ FundFairness
=============================================================================
