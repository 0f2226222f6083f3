---------------------------- MODULE StallMonitor -----------------------------
(***************************************************************************)
(* The stall detection of a running CSP session: in every PDO cycle each   *)
(* participating drive is compared with an anchor, the sample at which it  *)
(* last settled or made progress, and reported when its anchor has grown   *)
(* too old.                                                                *)
(*                                                                         *)
(* Time is counted in ticks; a cycle takes one tick, or up to MaxGap when  *)
(* the loop overruns.  A drive may be anywhere at the next cycle.          *)
(***************************************************************************)
EXTENDS Integers

CONSTANTS
  Drives,         \* the drives that take part in CSP
  Positions,      \* encoder counts: an interval that contains 0
  ErrorCounts,    \* csp_stall_error_counts
  ProgressCounts, \* csp_stall_progress_counts
  Timeout,        \* csp_stall_timeout_ms, in ticks
  MaxGap          \* the longest cycle, in ticks

ASSUME StallAssumption ==
  /\ Positions \subseteq Int /\ 0 \in Positions
  /\ ErrorCounts \in Nat \ {0} /\ ProgressCounts \in Nat \ {0}
  /\ Timeout \in Nat \ {0} /\ MaxGap \in Nat \ {0}

VARIABLES
  target,        \* target_counts
  actual,        \* the positions of the last exchange
  anchor_actual, \* _stall_anchor_actual
  anchor_error,  \* _stall_anchor_error
  age,           \* time since _stall_anchor_ns, at most MaxAge
  reported,      \* _stall_reported_drive_ids
  recent,        \* history: samples of the last MaxAge ticks
  still,         \* history: for how long nothing moved, at most Timeout
  emitted        \* history: drives reported since their encoder last made progress

monitorVars == <<anchor_actual, anchor_error, age, reported>>
historyVars == <<recent, still, emitted>>
vars == <<target, actual, monitorVars, historyVars>>

Distance(a, b) == IF a < b THEN b - a ELSE a - b
AtMost(bound, n) == IF n < bound THEN n ELSE bound

\* Ages beyond this one are alike.
MaxAge == Timeout + MaxGap - 1

Errors == {Distance(a, b) : a \in Positions, b \in Positions}
Sample == [ago : 0 .. MaxAge, actual : Positions, error : Errors]
SampleOf(d) ==
  [ago |-> 0, actual |-> actual'[d], error |-> Distance(target'[d], actual'[d])]

TypeOK ==
  /\ target \in [Drives -> Positions] /\ actual \in [Drives -> Positions]
  /\ anchor_actual \in [Drives -> Positions]
  /\ anchor_error \in [Drives -> Errors]
  /\ age \in [Drives -> 0 .. MaxAge]
  /\ reported \subseteq Drives
  /\ \A d \in Drives : recent[d] \subseteq Sample
  /\ still \in [Drives -> 0 .. Timeout]
  /\ emitted \subseteq Drives

\* Every drive at zero: _reset_stall_monitor_locked as the first session starts.
Init ==
  /\ target = [d \in Drives |-> 0]
  /\ actual = [d \in Drives |-> 0]
  /\ anchor_actual = actual
  /\ anchor_error = [d \in Drives |-> 0]
  /\ age = [d \in Drives |-> 0]
  /\ reported = {}
  /\ recent = [d \in Drives |-> {[ago |-> 0, actual |-> 0, error |-> 0]}]
  /\ still = [d \in Drives |-> 0]
  /\ emitted = {}

\* _reset_stall_monitor_locked: another session starts from any targets and positions.
Reset ==
  /\ target' \in [Drives -> Positions]
  /\ actual' \in [Drives -> Positions]
  /\ anchor_actual' = actual'
  /\ anchor_error' = [d \in Drives |-> Distance(target'[d], actual'[d])]
  /\ age' = [d \in Drives |-> 0]
  /\ reported' = {}
  /\ recent' = [d \in Drives |-> {SampleOf(d)}]
  /\ still' = [d \in Drives |-> 0]
  /\ emitted' = {}

\* set_csp_targets between two cycles.
SetTarget(d) ==
  /\ \E p \in Positions \ {target[d]} : target' = [target EXCEPT ![d] = p]
  /\ still' = [still EXCEPT ![d] = 0]
  /\ UNCHANGED <<actual, monitorVars, recent, emitted>>

-----------------------------------------------------------------------------
(* One evaluation.                                                         *)

\* The command error is below the threshold.
Settled(d) == Distance(target[d], actual'[d]) < ErrorCounts

\* Mutant: only a smaller error counts, so a drive that is pushed away is not seen
\* to move.
ErrorShrank(d) ==
  anchor_error[d] - Distance(target[d], actual'[d]) >= ProgressCounts

\* The encoder moved far enough from the anchor, or the error shrank far enough.
MadeProgress(d) ==
  \/ Distance(actual'[d], anchor_actual[d]) >= ProgressCounts
  \/ anchor_error[d] - Distance(target[d], actual'[d]) >= ProgressCounts

\* Mutant: the timeout must be exceeded.
Overdue(d, delta) == age[d] + delta > Timeout

\* The anchor is at least a timeout old.
TimedOut(d, delta) == age[d] + delta >= Timeout

\* The drives that _detect_csp_stalls_locked returns.
Stalled(delta) ==
  {d \in Drives \ reported : ~Settled(d) /\ ~MadeProgress(d) /\ TimedOut(d, delta)}

\* A drive that settles may be reported again.
Rearmed == {d \in reported : ~Settled(d)}

\* _detect_csp_stalls_locked, delta ticks after the last cycle.
Cycle(delta) ==
  /\ actual' \in [Drives -> Positions]
  /\ LET moved(d) == Settled(d) \/ MadeProgress(d) IN
     /\ anchor_actual' =
          [d \in Drives |-> IF moved(d) THEN actual'[d] ELSE anchor_actual[d]]
     /\ anchor_error' =
          [d \in Drives |->
             IF moved(d) THEN Distance(target[d], actual'[d]) ELSE anchor_error[d]]
     /\ age' = [d \in Drives |-> IF moved(d) THEN 0 ELSE AtMost(MaxAge, age[d] + delta)]
  /\ reported' = Rearmed \cup Stalled(delta)
  /\ UNCHANGED target
  /\ recent' = [d \in Drives |->
       {SampleOf(d)} \cup
       {[r EXCEPT !.ago = @ + delta] : r \in {s \in recent[d] : s.ago + delta <= MaxAge}}]
  /\ still' = [d \in Drives |->
       IF actual'[d] = actual[d] /\ ~Settled(d) /\ \E s \in recent[d] :
            s.ago = 0 /\ s.error = Distance(target[d], actual[d])
       THEN AtMost(Timeout, still[d] + delta) ELSE 0]
  /\ emitted' = Stalled(delta) \cup
       {d \in emitted : Distance(actual'[d], anchor_actual[d]) < ProgressCounts}

Next ==
  \/ Reset
  \/ \E d \in Drives : SetTarget(d)
  \/ \E delta \in 1 .. MaxGap : Cycle(delta)

Spec == Init /\ [][Next]_vars

-----------------------------------------------------------------------------
(* Properties.                                                             *)

\* A report is never false: the samples of a whole timeout lie within the progress
\* threshold of one position, and all but the first, at which the drive may have been
\* settled, had a large error.  A drive that moves, towards its target or away from it,
\* is not reported.
ReportsAreStalls ==
  [][\A d \in reported' \ reported :
       /\ \E r \in recent'[d] : r.ago >= Timeout
       /\ \A r \in recent'[d] : r.ago < Timeout => r.error >= ErrorCounts
       /\ \E c \in Positions : \A r \in recent'[d] :
            r.ago <= Timeout => Distance(r.actual, c) < ProgressCounts]_vars

\* No stall is missed: a drive that has stood still for a timeout, with a large error
\* to one target, is among the reported ones, whatever it did before.
StillIsReported == \A d \in Drives : still[d] >= Timeout => d \in reported

\* "An error of at least 25000 counts with less than 100 counts of progress for 500 ms
\* emits CSP_STALL_DETECTED": a drive that has stood still for a timeout has been
\* reported since it last made progress.
EveryStallIsEmitted ==
  \A d \in Drives : still[d] >= Timeout => d \in emitted

=============================================================================
