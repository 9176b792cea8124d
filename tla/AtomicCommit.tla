---------------------------- MODULE AtomicCommit ----------------------------
(***************************************************************************)
(* What a compound command promises: "pure reducer -> scoped plan ->       *)
(* verified executor -> atomic commit with buffered events" (the comment   *)
(* before executeCompound in packages/layout/src/engine.ts).  All of the   *)
(* command's effect becomes visible in one step, or none of it ever does,  *)
(* and an effect once visible is not undone by another command.            *)
(***************************************************************************)
CONSTANT Commands

VARIABLES
    status,     \* of each command
    effects,    \* commands whose change of the world is visible
    announced   \* commands whose events clients have received

Init ==
    /\ status = [c \in Commands |-> "open"]
    /\ effects = {} /\ announced = {}

Commit(c) ==
    /\ status[c] = "open"
    /\ status' = [status EXCEPT ![c] = "committed"]
    /\ effects' = effects \cup {c}
    /\ announced' = announced \cup {c}

Abort(c) ==
    /\ status[c] = "open"
    /\ status' = [status EXCEPT ![c] = "aborted"]
    /\ UNCHANGED <<effects, announced>>

Next == \E c \in Commands : Commit(c) \/ Abort(c)

Spec == Init /\ [][Next]_<<status, effects, announced>>
=============================================================================
