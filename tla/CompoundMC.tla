----------------------------- MODULE CompoundMC -----------------------------
(***************************************************************************)
(* A small instance of CompoundTransaction: a focusWorkspace that reveals  *)
(* the workspace, chooses what to capture before it waits for the gate and *)
(* accepts stable clamps; a moveDirection, which tries a second policy; a  *)
(* pause.  Window w2 has just been opened: the next cycle makes it a       *)
(* member.                                                                 *)
(***************************************************************************)
EXTENDS CompoundTransaction

CONSTANTS reveal, move, pause, w1, w2

MCKindOf == [p \in Switches |-> "pause"]

\* Bound of MCSpec: the user interferes, or calls are given up on, only while
\* the moveDirection runs alone.
Apart == (tx[reveal].stage = "idle" /\ flip[pause] = "idle") \/ disturbances + failures = 0

MCSpec == Init /\ [][Next /\ Apart']_vars /\ Fairness
=============================================================================
