-------------------------------- MODULE MCLots --------------------------------
(* Small instances of LotIdentity, Traceability and Figures: the LOTs, what    *)
(* became of them and what is counted of them.  A behaviour is one of one of   *)
(* the three, the others resting as they began.  LOTs, numbers, evidence and    *)
(* allocations are interchangeable.                                          *)
EXTENDS LotIdentity, Traceability, Figures, TLC

CONSTANT n1

VARIABLE desk      \* the component whose behaviour this is

Desks == {"lots", "trace", "figures"}
deskVars == <<vars, traceVars, figureVars, desk>>

(* Reports of the first day.                                                 *)
MCPeriods == {<<0, 0>>}

InitLots ==
  /\ desk \in Desks
  /\ Init /\ InitTrace /\ InitFigures
  /\ firmName = [f \in Firms |-> n1]
NextLots ==
  /\ UNCHANGED desk
  /\ \/ desk = "lots" /\ Next /\ UNCHANGED <<traceVars, figureVars>>
     \/ desk = "trace" /\ NextTrace /\ UNCHANGED <<vars, figureVars>>
     \/ desk = "figures" /\ NextFigures /\ UNCHANGED <<vars, traceVars>>
LotsSpec == InitLots /\ [][NextLots]_deskVars

LotSymmetry == Permutations(Lots) \cup Permutations(Keys) \cup Permutations(Evidence)

(* What each component keeps has its type.                                     *)
LotsTypeOK == TypeOK /\ TraceTypeOK /\ FigureTypeOK
=============================================================================
