------------------------------ MODULE SessionMC ------------------------------
(***************************************************************************)
(* One life of an engine, seen from two sides: either the session, with    *)
(* two windows at home in one workspace and a second workspace to go to    *)
(* and come back from; or the loop of CycleMC.  What is not `at work`      *)
(* stays at an initial state.                                              *)
(***************************************************************************)
EXTENDS Session, CycleMC

Windows2 == {"one", "two"}
Ranks == [x \in Windows2 |-> IF x = "one" THEN 1 ELSE 2]
Spaces2 == {"A", "B"}
Homes == [x \in Windows2 |-> "A"]

\* Bound of the run: three of what goes wrong and what is commanded.
Brief == trouble + commands <= 3

VARIABLE atWork

LifeInit ==
    /\ SessionInit /\ Init /\ atWork \in {"session", "loop"}
    /\ atWork = "loop" => health = "healthy" /\ \A x \in Managed : desk[x].at = "tile"

LifeNext ==
    /\ UNCHANGED atWork
    /\ \/ atWork = "session" /\ SessionNext /\ Brief' /\ UNCHANGED vars
       \/ atWork = "loop" /\ Next /\ UNCHANGED sessionVars

LifeSpec == LifeInit /\ [][LifeNext]_<<sessionVars, vars, atWork>>
=============================================================================
