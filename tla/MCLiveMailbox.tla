---------------------------- MODULE MCLiveMailbox ----------------------------
(***************************************************************************)
(* Instances of LiveMailbox for TLC.  One run has a single drive and the   *)
(* other states fairness, so no symmetry is declared.                      *)
(***************************************************************************)
EXTENDS LiveMailbox
=============================================================================
