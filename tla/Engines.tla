------------------------------ MODULE Engines ------------------------------
(***************************************************************************)
(* The four sequential engines side by side.  They share no state and none *)
(* calls another, so a behaviour explores the operations of one of them,   *)
(* the engine in focus, and leaves the others at their start: the states   *)
(* add up instead of multiplying, and no reachable state of an engine is   *)
(* lost.                                                                   *)
(***************************************************************************)
EXTENDS ArbOpportunityEngine, MockPnLEngine, SyntheticPerpEngine, SyntheticPair

VARIABLE focus
enginesVars == <<focus, arbVars, pnlVars, perp, pairVars>>

EnginesInit == /\ focus \in {"cooldown", "ledger", "perp", "pair"}
               /\ ArbInit /\ PnLInit /\ PerpInit /\ PairInit

EnginesNext ==
  /\ UNCHANGED focus
  /\ \/ focus = "cooldown" /\ ArbNext /\ UNCHANGED <<pnlVars, perp, pairVars>>
     \/ focus = "ledger" /\ PnLNext /\ UNCHANGED <<arbVars, perp, pairVars>>
     \/ focus = "perp" /\ PerpNext /\ UNCHANGED <<arbVars, pnlVars, pairVars>>
     \/ focus = "pair" /\ PairNext /\ UNCHANGED <<arbVars, pnlVars, perp>>

EnginesSpec == EnginesInit /\ [][EnginesNext]_enginesVars
-----------------------------------------------------------------------------
\* Every member of the four engines keeps its type: no wrapped time, negative
\* size or unknown symbol is stored.
EnginesTypeOK == ArbTypeOK /\ PnLTypeOK /\ PerpTypeOK /\ PairTypeOK
=============================================================================
