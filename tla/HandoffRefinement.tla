------------------------- MODULE HandoffRefinement --------------------------
(***************************************************************************)
(* BridgeSession, started with control_mode:=homing_csp, implements        *)
(* CspHandoff.                                                             *)
(***************************************************************************)
EXTENDS BridgeSession

sessionPhase ==
  IF csp_active THEN "csp" ELSE IF deferred_csp_prepared THEN "prepared" ELSE "homing"

HeldAxes == {d \in RequiredHoming : power[d] = "enabled"}

Handoff == INSTANCE CspHandoff
  WITH Axes <- RequiredHoming, session <- sessionPhase, armed <- Armed, held <- HeldAxes

\* Every step of the handlers, the PDO threads and the drives is a step of the
\* handoff as a client understands it, or invisible to it.
ImplementsHandoff == Handoff!Spec

=============================================================================
