--------------------------- MODULE MCBridgeClient ----------------------------
(* Instances of BridgeClient for TLC. *)
EXTENDS BridgeClient

\* The drive may be measured one position above its joint limits.
ThreePositions == 0 .. 2
=============================================================================
