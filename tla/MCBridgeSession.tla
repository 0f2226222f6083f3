-------------------------- MODULE MCBridgeSession ---------------------------
(***************************************************************************)
(* Instances of BridgeSession for TLC.                                     *)
(***************************************************************************)
EXTENDS BridgeSession, TLC

\* PDO threads are interchangeable: only safety runs use this.
ThreadSymmetry == Permutations(Threads)

=============================================================================
