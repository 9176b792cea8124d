---------------------------- MODULE WorkspacesMC ----------------------------
(***************************************************************************)
(* Small instances of Workspaces: two windows and a dialog of the first,   *)
(* two workspaces, a display with room for two tiles and one for one.      *)
(***************************************************************************)
EXTENDS Workspaces

CONSTANTS winA, winB, winDialog, wsOne, wsTwo, d1, d2

MCClassOf == [x \in Windows |-> IF x = winDialog THEN "transient" ELSE "normal"]
MCParentOf == [x \in Windows |-> IF x = winDialog THEN winA ELSE None]
MCAffinity == [x \in Windows |-> IF x = winB THEN wsTwo ELSE None]
MCRoom == [d \in Displays |-> IF d = d1 THEN 2 ELSE 1]
MCPreferred == [n \in Names |-> None]
MCInventories == {{winA, winB}, {winA, winDialog}}

\* At most four, where a command counts for two: two events about a command,
\* two commands, a failed write with either.
MCBudget == {b3 \in (0..2) \X (0..2) \X (0..1) : b3[1] + 2 * b3[2] + b3[3] <= 4}

\* One command, and nothing that goes wrong.
MCOneCommand == {<<0, 0, 0>>, <<0, 1, 0>>}
=============================================================================
