----------------------------- MODULE LiveMailbox -----------------------------
(***************************************************************************)
(* The mailbox work a running CSP session does beside its process data:    *)
(* live changes of Drive 3's directional torque limit, its contact         *)
(* snapshot, and the diagnostics of stalled drives.  A ROS service stages  *)
(* a request under pdo_lock and waits on an event; the PDO thread serves   *)
(* at most one SDO per cycle; a failing loop and exit_csp cancel.          *)
(*                                                                         *)
(* Three actors: the ROS executor (one thread, so one service at a time),  *)
(* the PDO thread, and the TCP thread that enters and exits CSP.  A cycle  *)
(* of the loop holds pdo_lock throughout and is one step.                  *)
(***************************************************************************)
EXTENDS Integers

CONSTANTS
  Drives,      \* the participating drives that may be reported as stalled
  Limits,      \* the torque limits the services ask for
  Normal,      \* csp_torque_limit_per_mille, what enter_csp sets
  NoValue,     \* a readback not made yet
  Attempts,    \* cycles given to one staged operation: 3
  Reads        \* len(LIVE_DIAGNOSTIC_READS)

ASSUME MailboxAssumption ==
  /\ Normal \in Limits /\ NoValue \notin Limits
  /\ Attempts \in Nat \ {0} /\ Reads \in Nat \ {0}

VARIABLES
  csp_active, pdo_error, pdo_stop_event,
  loop,             \* what the PDO thread is doing
  exit,             \* where exit_csp is
  caller,           \* where the ROS service is
  asked,            \* the limit its caller asked for
  limit,            \* Drive 3's 0x60E0 and 0x60E1
  current_spur_torque_limit,
  spur_torque_pending, spur_torque_target, spur_torque_values,
  spur_torque_error, spur_torque_message, spur_torque_event,
  torque_next,      \* head of _spur_torque_queue, a position in TorqueOps
  torque_attempts,  \* attempts left to that head
  entered,          \* history: enter_csp wrote limits since the last request
  spur_contact_pending, spur_contact_event,
  contact_left,     \* length of _spur_contact_queue
  contact_attempts,
  live_diagnostic_pending,
  live_left,        \* entries of _live_diagnostic_queue of each drive
  live_recorded     \* entries of _values and _unavailable; -1: no such key

sessionVars == <<csp_active, pdo_error, pdo_stop_event, loop, exit>>
callerVars == <<caller, asked>>
limitVars == <<limit, current_spur_torque_limit, entered>>
torqueVars == <<spur_torque_pending, spur_torque_target, spur_torque_values,
                spur_torque_error, spur_torque_message, spur_torque_event,
                torque_next, torque_attempts>>
contactVars == <<spur_contact_pending, spur_contact_event, contact_left,
                 contact_attempts>>
liveVars == <<live_diagnostic_pending, live_left, live_recorded>>
vars == <<sessionVars, callerVars, limitVars, torqueVars, contactVars, liveVars>>

Sides == {"positive", "negative"}
NoReadback == [s \in Sides |-> NoValue]

\* The operations of a torque request, in the order they are queued.
TorqueOps == <<[action |-> "write", side |-> "positive"],
               [action |-> "write", side |-> "negative"],
               [action |-> "read", side |-> "positive"],
               [action |-> "read", side |-> "negative"]>>
LastOp == 4

TypeOK ==
  /\ csp_active \in BOOLEAN /\ pdo_error \in BOOLEAN /\ pdo_stop_event \in BOOLEAN
  /\ loop \in {"off", "check", "body", "failed", "handled", "stopping"}
  /\ exit \in {"idle", "join", "finish"}
  /\ caller \in {"idle", "torque", "torque_woken", "contact", "contact_woken"}
  /\ asked \in Limits
  /\ limit \in [Sides -> Limits] /\ current_spur_torque_limit \in Limits
  /\ entered \in BOOLEAN
  /\ spur_torque_pending \in BOOLEAN /\ spur_torque_event \in BOOLEAN
  /\ spur_torque_target \in Limits
  /\ spur_torque_values \in [Sides -> Limits \cup {NoValue}]
  /\ spur_torque_error \in BOOLEAN
  /\ spur_torque_message \in {"none", "pending", "verified", "failed", "aborted"}
  /\ torque_next \in 1 .. LastOp + 1 /\ torque_attempts \in 1 .. Attempts
  /\ spur_contact_pending \in BOOLEAN /\ spur_contact_event \in BOOLEAN
  /\ contact_left \in 0 .. Reads /\ contact_attempts \in 1 .. Attempts
  /\ live_diagnostic_pending \in BOOLEAN
  /\ live_left \in [Drives -> 0 .. Reads]
  /\ live_recorded \in [Drives -> -1 .. Reads]

\* FaulhaberBus.__init__; the drive holds whatever limits it was last given.
Init ==
  /\ csp_active = FALSE /\ pdo_error = FALSE /\ pdo_stop_event = FALSE
  /\ loop = "off" /\ exit = "idle" /\ caller = "idle" /\ asked = Normal
  /\ limit \in [Sides -> Limits]
  /\ current_spur_torque_limit = Normal
  /\ entered = FALSE
  /\ spur_torque_pending = FALSE /\ spur_torque_event = FALSE
  /\ spur_torque_target = Normal /\ spur_torque_values = NoReadback
  /\ spur_torque_error = FALSE /\ spur_torque_message = "none"
  /\ torque_next = LastOp + 1 /\ torque_attempts = Attempts
  /\ spur_contact_pending = FALSE /\ spur_contact_event = FALSE
  /\ contact_left = 0 /\ contact_attempts = Attempts
  /\ live_diagnostic_pending = FALSE
  /\ live_left = [d \in Drives |-> 0]
  /\ live_recorded = [d \in Drives |-> -1]

-----------------------------------------------------------------------------
(* The TCP thread: enter_csp and exit_csp.                                 *)

\* enter_csp succeeds: Drive 3's limits are written and read back as the normal
\* limit, the stall monitor is reset, the thread starts.  A PDO thread that outlived
\* exit_csp is not modelled together with its successor (BridgeSession does that).
EnterCsp ==
  /\ exit = "idle" /\ ~csp_active /\ loop = "off"
  /\ limit' = [s \in Sides |-> Normal]
  /\ current_spur_torque_limit' = Normal
  /\ entered' = TRUE
  /\ live_diagnostic_pending' = FALSE
  /\ live_left' = [d \in Drives |-> 0]
  /\ live_recorded' = [d \in Drives |-> -1]
  /\ csp_active' = TRUE /\ pdo_error' = FALSE /\ pdo_stop_event' = FALSE
  /\ loop' = "check"
  /\ UNCHANGED <<exit, callerVars, torqueVars, contactVars>>

\* enter_csp raises after some of its torque writes, or later.  The cached limit is
\* assigned once Drive 3's readback has passed.
EnterCspRaises ==
  /\ exit = "idle" /\ ~csp_active /\ loop = "off"
  /\ \E f \in [Sides -> Limits] :
       /\ \A s \in Sides : f[s] \in {limit[s], Normal}
       /\ limit' = f
       /\ \/ UNCHANGED current_spur_torque_limit
          \/ /\ \A s \in Sides : f[s] = Normal
             /\ current_spur_torque_limit' = Normal
  /\ entered' = TRUE
  /\ UNCHANGED <<sessionVars, callerVars, torqueVars, contactVars, liveVars>>

\* exit_csp sets the stop event; targets or the thread remain to be taken down.
ExitBegins ==
  /\ exit = "idle"
  /\ csp_active \/ loop # "off"
  /\ pdo_stop_event' = TRUE
  /\ exit' = "join"
  /\ UNCHANGED <<csp_active, pdo_error, loop, callerVars, limitVars, torqueVars,
                 contactVars, liveVars>>

\* thread.join returns, at the latest after its timeout.
ExitJoined ==
  /\ exit = "join"
  /\ exit' = "finish"
  /\ UNCHANGED <<csp_active, pdo_error, pdo_stop_event, loop, callerVars, limitVars,
                 torqueVars, contactVars, liveVars>>

\* Mutant: the loop's error handler and exit_csp cancel nothing.
CancelsNothing == UNCHANGED <<torqueVars, contactVars>>

\* _cancel_spur_staged_requests_locked.
CancelsStagedRequests ==
  /\ IF spur_torque_pending
     THEN /\ spur_torque_error' = TRUE
          /\ spur_torque_message' = "aborted"
          /\ spur_torque_pending' = FALSE
          /\ torque_next' = LastOp + 1
          /\ spur_torque_event' = TRUE
          /\ UNCHANGED <<spur_torque_target, spur_torque_values, torque_attempts>>
     ELSE UNCHANGED torqueVars
  /\ IF spur_contact_pending
     THEN /\ spur_contact_pending' = FALSE
          /\ contact_left' = 0
          /\ spur_contact_event' = TRUE
          /\ UNCHANGED contact_attempts
     ELSE UNCHANGED contactVars

\* The rest of exit_csp, under pdo_lock.
ExitFinishes ==
  /\ exit = "finish"
  /\ CancelsStagedRequests
  /\ csp_active' = FALSE /\ pdo_error' = FALSE
  /\ exit' = "idle"
  /\ UNCHANGED <<pdo_stop_event, loop, callerVars, limitVars, liveVars>>

-----------------------------------------------------------------------------
(* The ROS executor: the services of the spur guard.                       *)

\* Mutant: the event of an earlier request is not cleared.
EventLeftSet == spur_torque_event' = spur_torque_event

\* _spur_torque_event.clear().
EventCleared == spur_torque_event' = FALSE

\* request_spur_torque_limit does not raise before it stages.
AcceptsTorque == csp_active /\ ~pdo_error /\ ~spur_torque_pending

\* request_spur_torque_limit stages its four operations.
RequestTorque(l) ==
  /\ caller = "idle"
  /\ AcceptsTorque
  /\ caller' = "torque" /\ asked' = l
  /\ spur_torque_target' = l
  /\ spur_torque_values' = NoReadback
  /\ spur_torque_error' = FALSE
  /\ spur_torque_message' = "pending"
  /\ torque_next' = 1 /\ torque_attempts' = Attempts
  /\ spur_torque_pending' = TRUE
  /\ EventCleared
  /\ entered' = FALSE
  /\ UNCHANGED <<sessionVars, limit, current_spur_torque_limit, contactVars, liveVars>>

\* request_spur_contact_snapshot stages its reads.
RequestContact ==
  /\ caller = "idle"
  /\ csp_active /\ ~pdo_error /\ ~spur_contact_pending
  /\ caller' = "contact"
  /\ spur_contact_pending' = TRUE
  /\ spur_contact_event' = FALSE
  /\ contact_left' = Reads /\ contact_attempts' = Attempts
  /\ UNCHANGED <<sessionVars, asked, limitVars, torqueVars, liveVars>>

\* Event.wait returns True; pdo_lock is yet to be taken.
Wakes ==
  /\ \/ caller = "torque" /\ spur_torque_event /\ caller' = "torque_woken"
     \/ caller = "contact" /\ spur_contact_event /\ caller' = "contact_woken"
  /\ UNCHANGED <<sessionVars, asked, limitVars, torqueVars, contactVars, liveVars>>

\* Event.wait gives up: the service fails, what it staged stays staged.
TimesOut ==
  /\ caller \in {"torque", "contact"}
  /\ caller' = "idle"
  /\ UNCHANGED <<sessionVars, asked, limitVars, torqueVars, contactVars, liveVars>>

\* The outcome is read under pdo_lock and the service returns.
Returns ==
  /\ caller \in {"torque_woken", "contact_woken"}
  /\ caller' = "idle"
  /\ UNCHANGED <<sessionVars, asked, limitVars, torqueVars, contactVars, liveVars>>

-----------------------------------------------------------------------------
(* The PDO thread.                                                         *)

LoopChecks ==
  /\ loop = "check"
  /\ loop' = IF pdo_stop_event THEN "stopping" ELSE "body"
  /\ UNCHANGED <<csp_active, pdo_error, pdo_stop_event, exit, callerVars, limitVars,
                 torqueVars, contactVars, liveVars>>

\* The transfer of the operation at the head of the queue ends without an exception.
\* A write is taken, or left without effect by the firmware.
TorqueTransfer(op) ==
  IF op.action = "write"
  THEN /\ \E v \in {spur_torque_target, limit[op.side]} :
            limit' = [limit EXCEPT ![op.side] = v]
       /\ UNCHANGED spur_torque_values
  ELSE /\ spur_torque_values' = [spur_torque_values EXCEPT ![op.side] = limit[op.side]]
       /\ UNCHANGED limit

\* Mutant: one side is compared.
PositiveMatches == spur_torque_values'["positive"] = spur_torque_target

\* Both sides have been read back as the target.
ReadbackMatches == \A s \in Sides : spur_torque_values'[s] = spur_torque_target

\* The last operation has been served: the outcome is published.
TorqueConcludes ==
  /\ spur_torque_error' = ~ReadbackMatches
  /\ spur_torque_message' = IF ReadbackMatches THEN "verified" ELSE "failed"
  /\ current_spur_torque_limit' =
       IF ReadbackMatches THEN spur_torque_target ELSE current_spur_torque_limit
  /\ spur_torque_pending' = FALSE
  /\ spur_torque_event' = TRUE

\* Mutant: an attempt is made when none is left.
RetriesOnceMore == torque_attempts > 0

\* attempts_left > 1.
MayRetry == torque_attempts > 1

\* Mutant: the operation that failed is not put back.
DropsOperation == torque_next' = torque_next + 1 /\ torque_attempts' = Attempts

\* The operation that failed is put back with one attempt less.
RequeuesOperation == torque_next' = torque_next /\ torque_attempts' = torque_attempts - 1

\* _advance_spur_torque_request_locked with something queued.
TorqueStep ==
  LET op == TorqueOps[torque_next] IN
  /\ spur_torque_pending /\ torque_next <= LastOp
  /\ \/ /\ TorqueTransfer(op)
        /\ torque_next' = torque_next + 1 /\ torque_attempts' = Attempts
        /\ IF torque_next = LastOp
           THEN TorqueConcludes
           ELSE UNCHANGED <<current_spur_torque_limit, spur_torque_error,
                            spur_torque_message, spur_torque_pending, spur_torque_event>>
     \/ \* An exception, which a write may have outrun.
        /\ \/ op.action = "write" /\ TorqueTransfer(op)
           \/ UNCHANGED <<limit, spur_torque_values>>
        /\ UNCHANGED current_spur_torque_limit
        /\ IF MayRetry
           THEN /\ RequeuesOperation
                /\ UNCHANGED <<spur_torque_error, spur_torque_message,
                               spur_torque_pending, spur_torque_event>>
           ELSE /\ spur_torque_error' = TRUE
                /\ spur_torque_message' = "failed"
                /\ spur_torque_pending' = FALSE
                /\ spur_torque_event' = TRUE
                /\ torque_next' = LastOp + 1
                /\ UNCHANGED torque_attempts
  /\ UNCHANGED <<spur_torque_target, entered>>

TorqueQueued == spur_torque_pending /\ torque_next <= LastOp

\* _advance_spur_contact_snapshot_locked: a read is made, put back, or given up.
ContactStep ==
  /\ spur_contact_pending
  /\ \/ /\ contact_left' = contact_left - 1 /\ contact_attempts' = Attempts
        /\ spur_contact_pending' = (contact_left' > 0)
        /\ spur_contact_event' = (contact_left' = 0)
     \/ /\ contact_attempts > 1
        /\ contact_attempts' = contact_attempts - 1
        /\ UNCHANGED <<contact_left, spur_contact_pending, spur_contact_event>>

\* Mutant: a drive that stalls while diagnostics are pending takes the queue over.
ReplacesQueue(new) == [d \in Drives |-> IF d \in new THEN Reads ELSE 0]

\* A drive that stalls while diagnostics are pending is added to the queue.
ExtendsQueue(new) == [d \in Drives |-> IF d \in new THEN Reads ELSE live_left[d]]

\* _start_live_stall_diagnostics_locked on the drives of S, as <<left, recorded>>.
LiveStarted(S) ==
  LET new == {d \in S : live_recorded[d] = -1} IN
  IF S = {} THEN <<live_left, live_recorded>>
  ELSE IF live_diagnostic_pending
  THEN <<ExtendsQueue(new),
         [d \in Drives |-> IF d \in new THEN 0 ELSE live_recorded[d]]>>
  ELSE <<[d \in Drives |-> IF d \in S THEN Reads ELSE 0],
         [d \in Drives |-> IF d \in S THEN 0 ELSE -1]>>

\* _advance_live_stall_diagnostics_locked: one read, recorded whether it succeeds or
\* not; the snapshot is published when the queue is empty.
LiveStep(left, recorded) ==
  \E d \in Drives :
    /\ left[d] > 0
    /\ live_left' = [left EXCEPT ![d] = @ - 1]
    /\ live_recorded' = [recorded EXCEPT ![d] = @ + 1]
    /\ live_diagnostic_pending' = (\E e \in Drives : live_left'[e] > 0)

\* One good cycle: the exchange, the stalls it reveals, and one staged operation,
\* torque before contact before stall diagnostics.
LoopCycles ==
  /\ loop = "body" /\ csp_active
  /\ loop' = "check"
  /\ \E S \in SUBSET Drives :
       LET started == LiveStarted(S)
           pending == live_diagnostic_pending \/ S # {}
       IN \/ /\ TorqueQueued
             /\ TorqueStep
             /\ live_left' = started[1] /\ live_recorded' = started[2]
             /\ live_diagnostic_pending' = pending
             /\ UNCHANGED contactVars
          \/ /\ ~TorqueQueued
             /\ UNCHANGED <<limitVars, torqueVars>>
             /\ \/ /\ ContactStep
                   /\ live_left' = started[1] /\ live_recorded' = started[2]
                   /\ live_diagnostic_pending' = pending
                \/ /\ ~spur_contact_pending
                   /\ UNCHANGED contactVars
                   /\ IF pending THEN LiveStep(started[1], started[2])
                      ELSE UNCHANGED liveVars
  /\ UNCHANGED <<csp_active, pdo_error, pdo_stop_event, exit, callerVars>>

\* The exchange or the validation raises; pdo_lock is released.  After an exit whose
\* join timed out there are no targets left and it always does.
LoopRaises ==
  /\ loop = "body"
  /\ loop' = "failed"
  /\ UNCHANGED <<csp_active, pdo_error, pdo_stop_event, exit, callerVars, limitVars,
                 torqueVars, contactVars, liveVars>>

\* The except block, under pdo_lock again.
LoopHandles ==
  /\ loop = "failed"
  /\ pdo_error' = TRUE
  /\ CancelsStagedRequests
  /\ loop' = "handled"
  /\ UNCHANGED <<csp_active, pdo_stop_event, exit, callerVars, limitVars, liveVars>>

\* The finally block, under pdo_lock once more.
LoopEnds ==
  /\ loop \in {"handled", "stopping"}
  /\ csp_active' = FALSE
  /\ loop' = "off"
  /\ UNCHANGED <<pdo_error, pdo_stop_event, exit, callerVars, limitVars, torqueVars,
                 contactVars, liveVars>>

-----------------------------------------------------------------------------

TcpSteps == EnterCsp \/ EnterCspRaises \/ ExitBegins \/ ExitJoined \/ ExitFinishes
CallerSteps ==
  (\E l \in Limits : RequestTorque(l)) \/ RequestContact \/ Wakes \/ TimesOut \/ Returns
LoopSteps == LoopChecks \/ LoopCycles \/ LoopRaises \/ LoopHandles \/ LoopEnds

Next == TcpSteps \/ CallerSteps \/ LoopSteps

Spec == Init /\ [][Next]_vars

\* The PDO thread runs, and so does an exit_csp that has begun.
FairSpec == Spec /\ WF_vars(LoopSteps) /\ WF_vars(ExitJoined \/ ExitFinishes)

-----------------------------------------------------------------------------
(* Properties.                                                             *)

\* A service that was woken finds the outcome of its own request: an error, or the
\* limit it asked for written and read back on both sides in a session that has not
\* been replaced meanwhile.  Neither a request that timed out earlier nor a session
\* taken down by the other threads leaves it a stale one.
WokenByOwnOutcome ==
  caller = "torque_woken"
    => /\ ~spur_torque_pending
       /\ spur_torque_target = asked
       /\ \/ spur_torque_error
          \/ spur_torque_message = "verified"
             /\ (entered \/ \A s \in Sides : limit[s] = asked)

\* While a session is active, no request is in flight and the last one did not fail, the
\* limit the bridge reports is the one both of the drive's registers hold, across
\* timed-out requests, retries, writes the firmware drops and new sessions.
CachedIsApplied ==
  csp_active /\ ~spur_torque_pending /\ (entered \/ ~spur_torque_error)
    => \A s \in Sides : limit[s] = current_spur_torque_limit

\* Nothing stays staged without a thread that will serve or cancel it: a request
\* accepted after the loop's last cycle is still cancelled by exit_csp or by the
\* loop's own error handler.
NoneStranded ==
  spur_torque_pending \/ spur_contact_pending
    => loop \in {"check", "body", "failed"} \/ exit # "idle"

\* While diagnostics are pending every read of every stalled drive is either recorded
\* or queued, so the published snapshot is complete for each of them.
StallReadsAccounted ==
  \A d \in Drives :
    /\ live_recorded[d] >= 0 => live_recorded[d] + live_left[d] = Reads
    /\ ~live_diagnostic_pending => live_left[d] = 0

\* A staged torque request is always resolved, whether its caller still waits or not.
TorqueResolves == spur_torque_pending ~> ~spur_torque_pending

\* Torque requests take precedence over a contact snapshot, but once they cease the
\* snapshot is resolved too.
ContactResolves ==
  <>[](~spur_torque_pending) => (spur_contact_pending ~> ~spur_contact_pending)

=============================================================================
