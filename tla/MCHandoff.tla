----------------------------- MODULE MCHandoff ------------------------------
(***************************************************************************)
(* Instances of HandoffRefinement for TLC.  The run states fairness, so no *)
(* symmetry is declared.                                                   *)
(***************************************************************************)
EXTENDS HandoffRefinement
=============================================================================
