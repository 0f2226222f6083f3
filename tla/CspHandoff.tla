----------------------------- MODULE CspHandoff -----------------------------
(***************************************************************************)
(* What the Homing-to-CSP handoff of the bridge promises, without handlers,*)
(* threads, mailboxes or PDO cycles.                                       *)
(*                                                                         *)
(* A session is homed and re-homed at will until the preparation of its    *)
(* process image has completed.  Preparation is one-way, it needs the      *)
(* references to be valid, and from then on they stay valid; an axis that  *)
(* loses its hold afterwards never gets it back; and CSP is only ever      *)
(* entered with every axis held.                                           *)
(***************************************************************************)

CONSTANT Axes      \* the drives that Homing references

VARIABLES
  session,         \* "homing", "prepared" (PDOs configured, not cycling) or "csp"
  armed,           \* every axis has a valid reference
  held             \* the axes that are Operation Enabled

vars == <<session, armed, held>>

Init ==
  /\ session = "homing"
  /\ armed = FALSE
  /\ held = {}

\* SDO work of the homing phase: references and power come and go.
SdoWork ==
  /\ session = "homing"
  /\ armed' \in BOOLEAN
  /\ held' \in SUBSET Axes
  /\ UNCHANGED session

CompletePreparation ==
  /\ session = "homing" /\ armed
  /\ session' = "prepared"
  /\ UNCHANGED <<armed, held>>

Activate ==
  /\ session = "prepared" /\ held = Axes
  /\ session' = "csp"
  /\ UNCHANGED <<armed, held>>

Deactivate ==
  /\ session = "csp"
  /\ session' = "prepared"
  /\ held' \in SUBSET held
  /\ UNCHANGED armed

LoseHold ==
  /\ session # "homing"
  /\ held' \in SUBSET held
  /\ UNCHANGED <<session, armed>>

Next == SdoWork \/ CompletePreparation \/ Activate \/ Deactivate \/ LoseHold

Spec == Init /\ [][Next]_vars

=============================================================================
