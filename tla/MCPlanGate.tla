----------------------------- MODULE MCPlanGate ------------------------------
(* Instances of PlanGate for TLC. *)
EXTENDS PlanGate

ThreePositions == 0 .. 2
=============================================================================
