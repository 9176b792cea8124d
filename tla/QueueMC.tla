------------------------------ MODULE QueueMC ------------------------------
(***************************************************************************)
(* Small instances of what everything goes through: either the queue of    *)
(* TransactionQueue, or the file of ObservationStore.  The one that is not *)
(* `at work` stays at an initial state.                                    *)
(*                                                                         *)
(* The queue has two equivalent commands of which one carries an           *)
(* escalation hook, a plan of three steps of which two can be undone, and  *)
(* a batch.  RepeatThreshold is 2 where the code has 3, PendingLimit 2     *)
(* where it has 256 and BatchCap 2 where it has 64, so that each bites     *)
(* with this few units.                                                    *)
(*                                                                         *)
(* The file is kept by two daemons that learn a minimum and a maximum      *)
(* that contradict each other when both are learned, and a third           *)
(* observation.                                                            *)
(***************************************************************************)
EXTENDS TransactionQueue, ObservationStore

CONSTANTS first, again, plan, batch, key, p1, p2, minimum, maximum, other

MCUnits == {first, again, plan, batch}
MCKeyOf == [u \in MCUnits |-> IF u \in {first, again} THEN key ELSE NoKey]
MCStepCount == [u \in MCUnits |-> IF u = plan THEN 3 ELSE 1]
MCReversible == [u \in MCUnits |-> IF u = plan THEN {1, 2} ELSE {}]

MCEmpty == [k \in Fields |-> 0]
MCContradictory == {d \in [Fields -> Values] : d[minimum] = 1 /\ d[maximum] = 1}
MCLessons == {[key |-> minimum, value |-> 1, verified |-> TRUE],
              [key |-> maximum, value |-> 1, verified |-> TRUE],
              [key |-> other, value |-> 1, verified |-> FALSE]}
MCStored == {Missing, Garbage}

VARIABLE atWork

SharedInit ==
    /\ Init /\ StoreInit /\ atWork \in {"queue", "file"}
    /\ atWork = "queue" => file = Missing

SharedNext ==
    /\ UNCHANGED atWork
    /\ \/ atWork = "queue" /\ Next /\ UNCHANGED storeVars
       \/ atWork = "file" /\ StoreNext /\ UNCHANGED vars

SharedSpec ==
    /\ SharedInit /\ [][SharedNext]_<<vars, storeVars, atWork>>
    /\ Fairness
    /\ \A p \in Processes :
          /\ WF_storeVars(atWork = "file" /\ Session(p))
          /\ WF_storeVars(atWork = "file" /\ Refresh(p))
          /\ WF_storeVars(atWork = "file" /\ Install(p))
=============================================================================
