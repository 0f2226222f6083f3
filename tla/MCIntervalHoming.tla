-------------------------- MODULE MCIntervalHoming --------------------------
(* Instances of IntervalHoming for TLC.                                    *)
EXTENDS IntervalHoming

\* The spur gear's increment is negative in the code's configuration.
NegativeDelta == -3
=============================================================================
