--------------------------- MODULE MCStallMonitor ----------------------------
(* Instances of StallMonitor for TLC. *)
EXTENDS StallMonitor

FourPositions == 0 .. 3

\* A drive can stall, move on by the progress threshold and stall again short of its
\* target.
FivePositions == 0 .. 4

=============================================================================
