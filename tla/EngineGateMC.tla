---------------------------- MODULE EngineGateMC ----------------------------
(***************************************************************************)
(* A small instance of EngineGate: a command that takes the gate and then  *)
(* awaits a cycle, one that only awaits a cycle, and two plans of one step *)
(* each.  Rollback of a plan is exercised by QueueMC; that it keeps others *)
(* out like the rest of the plan is proved for every number of steps.      *)
(***************************************************************************)
EXTENDS EngineGate

CONSTANTS setFrame, resume, plan1, plan2

MCUnits == {setFrame, resume, plan1, plan2}
MCKeyOf == [u \in MCUnits |-> NoKey]
MCStepCount == [u \in MCUnits |-> 1]
MCReversible == [u \in MCUnits |-> {}]
=============================================================================
