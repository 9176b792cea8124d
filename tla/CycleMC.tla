------------------------------ MODULE CycleMC -------------------------------
(***************************************************************************)
(* A small instance of ReconcileCycle: startup, a setWindowFrame command   *)
(* (gate, then a cycle), and a resume.  MaxPasses is 2 where the code has  *)
(* 16: a second pass differs from the first, later ones do not.  The       *)
(* liveness run leaves resume out and has one revision conflict instead of *)
(* two focus hints, and a second window that may open later.               *)
(***************************************************************************)
EXTENDS ReconcileCycle

CONSTANTS start, setFrame, resume, w1, w2

MCExclusive == {start, setFrame}
MCOps == {start, setFrame, resume}
MCTwoOps == {start, setFrame}

\* Of the hints, those of removed windows only: focus hints are in SessionMC.
QuietSpec == Init /\ [][Operate]_vars /\ Fairness
=============================================================================
