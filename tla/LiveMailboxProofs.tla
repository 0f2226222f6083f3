-------------------------- MODULE LiveMailboxProofs --------------------------
(***************************************************************************)
(* Theorems about LiveMailbox for any set of drives and of torque limits,  *)
(* and any number of attempts and diagnostic reads.                        *)
(***************************************************************************)
EXTENDS LiveMailbox, TLAPS

\* What one cycle of the loop changes, group by group.
LEMMA CycleParts ==
  ASSUME LoopCycles
  PROVE  /\ loop = "body" /\ loop' = "check"
         /\ csp_active
         /\ UNCHANGED <<csp_active, pdo_error, pdo_stop_event, exit, callerVars>>
         /\ (TorqueQueued /\ TorqueStep) \/ UNCHANGED <<limitVars, torqueVars>>
         /\ ContactStep \/ UNCHANGED contactVars
         /\ \E S \in SUBSET Drives :
              LET started == LiveStarted(S)
                  pending == live_diagnostic_pending \/ S # {}
              IN  \/ /\ live_left' = started[1] /\ live_recorded' = started[2]
                     /\ live_diagnostic_pending' = pending
                  \/ pending /\ LiveStep(started[1], started[2])
                  \/ ~pending /\ UNCHANGED liveVars
BY DEF LoopCycles

-----------------------------------------------------------------------------
(* Stall diagnostics.                                                      *)

\* A stalled drive's reads are all queued or recorded; any other drive has none.
Accounted(left, recorded) ==
  /\ left \in [Drives -> 0 .. Reads]
  /\ recorded \in [Drives -> -1 .. Reads]
  /\ \A d \in Drives : \/ recorded[d] = -1 /\ left[d] = 0
                       \/ recorded[d] >= 0 /\ recorded[d] + left[d] = Reads

LiveInv ==
  /\ live_diagnostic_pending \in BOOLEAN
  /\ Accounted(live_left, live_recorded)
  /\ ~live_diagnostic_pending => \A d \in Drives : live_left[d] = 0

\* Starting the diagnostics of newly stalled drives loses no read of the others.
LEMMA StartedAccounted ==
  ASSUME LiveInv, NEW S \in SUBSET Drives
  PROVE  Accounted(LiveStarted(S)[1], LiveStarted(S)[2])
<1> USE MailboxAssumption DEF LiveInv, Accounted
<1>1. CASE S = {}
  BY <1>1 DEF LiveStarted
<1>2. CASE S # {} /\ live_diagnostic_pending
  <2> DEFINE new == {d \in S : live_recorded[d] = -1}
             left == [d \in Drives |-> IF d \in new THEN Reads ELSE live_left[d]]
             recorded == [d \in Drives |-> IF d \in new THEN 0 ELSE live_recorded[d]]
  <2>1. LiveStarted(S) = <<left, recorded>>
    BY <1>2 DEF LiveStarted, ExtendsQueue
  <2>2. Accounted(left, recorded)
    OBVIOUS
  <2>3. QED
    BY <2>1, <2>2
<1>3. CASE S # {} /\ ~live_diagnostic_pending
  <2> DEFINE left == [d \in Drives |-> IF d \in S THEN Reads ELSE 0]
             recorded == [d \in Drives |-> IF d \in S THEN 0 ELSE -1]
  <2>1. LiveStarted(S) = <<left, recorded>>
    BY <1>3 DEF LiveStarted
  <2>2. Accounted(left, recorded)
    OBVIOUS
  <2>3. QED
    BY <2>1, <2>2
<1>4. QED
  BY <1>1, <1>2, <1>3

\* One read moves from the queue to the record.
LEMMA LiveStepAccounted ==
  ASSUME NEW left, NEW recorded, Accounted(left, recorded), LiveStep(left, recorded)
  PROVE  LiveInv'
<1>1. PICK d \in Drives :
        /\ left[d] > 0
        /\ live_left' = [left EXCEPT ![d] = @ - 1]
        /\ live_recorded' = [recorded EXCEPT ![d] = @ + 1]
        /\ live_diagnostic_pending' = (\E e \in Drives : live_left'[e] > 0)
  BY DEF LiveStep
<1>2. recorded[d] >= 0 /\ recorded[d] + left[d] = Reads
  BY <1>1 DEF Accounted
<1>3. Accounted(live_left', live_recorded')
  BY <1>1, <1>2, MailboxAssumption DEF Accounted
<1>4. live_diagnostic_pending' \in BOOLEAN
  BY <1>1, Zenon
<1>5. ~live_diagnostic_pending' => \A e \in Drives : live_left'[e] = 0
  BY <1>1, <1>3 DEF Accounted
<1>6. QED
  BY <1>3, <1>4, <1>5 DEF LiveInv

LEMMA LiveCycle == LiveInv /\ LoopCycles => LiveInv'
<1> SUFFICES ASSUME LiveInv, LoopCycles PROVE LiveInv'
  OBVIOUS
<1>1. PICK S \in SUBSET Drives :
        LET started == LiveStarted(S)
            pending == live_diagnostic_pending \/ S # {}
        IN  \/ /\ live_left' = started[1] /\ live_recorded' = started[2]
               /\ live_diagnostic_pending' = pending
            \/ pending /\ LiveStep(started[1], started[2])
            \/ ~pending /\ UNCHANGED liveVars
  BY CycleParts
<1>2. CASE UNCHANGED liveVars
  BY <1>2 DEF LiveInv, Accounted, liveVars
<1>3. CASE LiveStep(LiveStarted(S)[1], LiveStarted(S)[2])
  BY <1>3, StartedAccounted, LiveStepAccounted
<1>4. CASE /\ live_left' = LiveStarted(S)[1] /\ live_recorded' = LiveStarted(S)[2]
           /\ live_diagnostic_pending' = (live_diagnostic_pending \/ S # {})
  <2>1. Accounted(live_left', live_recorded')
    BY <1>4, StartedAccounted
  <2>2. live_diagnostic_pending' \in BOOLEAN
    BY <1>4, Zenon DEF LiveInv
  <2>3. ~live_diagnostic_pending' => live_left' = live_left
    BY <1>4 DEF LiveStarted
  <2>4. ~live_diagnostic_pending' => ~live_diagnostic_pending
    BY <1>4
  <2>5. QED
    BY <2>1, <2>2, <2>3, <2>4 DEF LiveInv
<1>5. QED
  BY <1>1, <1>2, <1>3, <1>4

-----------------------------------------------------------------------------
(* Type correctness.                                                       *)

\* A contact snapshot that is pending has a read queued.
ContactQueued == spur_contact_pending => contact_left > 0

TorqueType ==
  /\ spur_torque_pending \in BOOLEAN /\ spur_torque_event \in BOOLEAN
  /\ spur_torque_target \in Limits
  /\ spur_torque_values \in [Sides -> Limits \cup {NoValue}]
  /\ spur_torque_error \in BOOLEAN
  /\ spur_torque_message \in {"none", "pending", "verified", "failed", "aborted"}
  /\ torque_next \in 1 .. LastOp + 1 /\ torque_attempts \in 1 .. Attempts

ContactType ==
  /\ spur_contact_pending \in BOOLEAN /\ spur_contact_event \in BOOLEAN
  /\ contact_left \in 0 .. Reads /\ contact_attempts \in 1 .. Attempts
  /\ ContactQueued

LimitType ==
  /\ limit \in [Sides -> Limits] /\ current_spur_torque_limit \in Limits
  /\ entered \in BOOLEAN

ControlType ==
  /\ csp_active \in BOOLEAN /\ pdo_error \in BOOLEAN /\ pdo_stop_event \in BOOLEAN
  /\ loop \in {"off", "check", "body", "failed", "handled", "stopping"}
  /\ exit \in {"idle", "join", "finish"}
  /\ caller \in {"idle", "torque", "torque_woken", "contact", "contact_woken"}
  /\ asked \in Limits

TypeInv == ControlType /\ LimitType /\ TorqueType /\ ContactType /\ LiveInv

LEMMA TypeInit == Init => TypeInv
<1> SUFFICES ASSUME Init PROVE TypeInv
  OBVIOUS
<1>1. ControlType /\ LimitType
  BY MailboxAssumption DEF Init, ControlType, LimitType
<1>2. TorqueType
  <2>1. /\ spur_torque_pending \in BOOLEAN /\ spur_torque_event \in BOOLEAN
        /\ spur_torque_error \in BOOLEAN
    BY Zenon DEF Init
  <2>2. torque_next \in 1 .. LastOp + 1 /\ torque_attempts \in 1 .. Attempts
    BY MailboxAssumption DEF Init, LastOp
  <2>3. QED
    BY <2>1, <2>2, MailboxAssumption DEF Init, TorqueType, NoReadback
<1>3. ContactType
  <2>1. spur_contact_pending \in BOOLEAN /\ spur_contact_event \in BOOLEAN
    BY Zenon DEF Init
  <2>2. QED
    BY <2>1, MailboxAssumption DEF Init, ContactType, ContactQueued
<1>4. LiveInv
  <2>1. live_diagnostic_pending \in BOOLEAN
    BY Zenon DEF Init
  <2>2. QED
    BY <2>1, MailboxAssumption DEF Init, LiveInv, Accounted
<1>5. QED
  BY <1>1, <1>2, <1>3, <1>4 DEF TypeInv

LEMMA CancelTyped ==
  ASSUME TorqueType, ContactType, CancelsStagedRequests
  PROVE  TorqueType' /\ ContactType'
<1>1. TorqueType'
  <2>1. /\ spur_torque_pending' \in BOOLEAN /\ spur_torque_event' \in BOOLEAN
        /\ spur_torque_error' \in BOOLEAN
    BY Zenon DEF TorqueType, CancelsStagedRequests, torqueVars
  <2>2. torque_next' \in 1 .. LastOp + 1
    BY DEF TorqueType, CancelsStagedRequests, torqueVars, LastOp
  <2>3. QED
    BY <2>1, <2>2 DEF TorqueType, CancelsStagedRequests, torqueVars
<1>2. ContactType'
  <2>1. spur_contact_pending' \in BOOLEAN /\ spur_contact_event' \in BOOLEAN
    BY Zenon DEF ContactType, CancelsStagedRequests, contactVars
  <2>2. contact_left' \in 0 .. Reads
    BY MailboxAssumption DEF ContactType, CancelsStagedRequests, contactVars
  <2>3. ContactQueued'
    BY Zenon DEF ContactType, ContactQueued, CancelsStagedRequests, contactVars
  <2>4. QED
    BY <2>1, <2>2, <2>3 DEF ContactType, CancelsStagedRequests, contactVars
<1>3. QED
  BY <1>1, <1>2

\* The operation at the head of a queue that is not empty.
LEMMA HeadOp ==
  ASSUME torque_next \in 1 .. LastOp
  PROVE  /\ torque_next \in {1, 2} => TorqueOps[torque_next].action = "write"
         /\ torque_next \in {3, 4} => TorqueOps[torque_next].action = "read"
         /\ torque_next \in {1, 3} => TorqueOps[torque_next].side = "positive"
         /\ torque_next \in {2, 4} => TorqueOps[torque_next].side = "negative"
         /\ TorqueOps[torque_next].side \in Sides
<1>1. torque_next \in {1, 2, 3, 4}
  BY DEF LastOp
<1>2. QED
  BY <1>1 DEF TorqueOps, Sides

LEMMA TransferTyped ==
  ASSUME LimitType, TorqueType, NEW op \in {TorqueOps[k] : k \in 1 .. LastOp},
         op.side \in Sides, TorqueTransfer(op)
  PROVE  limit' \in [Sides -> Limits] /\ spur_torque_values' \in [Sides -> Limits \cup {NoValue}]
BY DEF LimitType, TorqueType, TorqueTransfer

LEMMA TorqueTyped ==
  ASSUME LimitType, TorqueType, TorqueStep
  PROVE  LimitType' /\ TorqueType'
<1> DEFINE op == TorqueOps[torque_next]
<1>1. torque_next \in 1 .. LastOp /\ op.side \in Sides
  BY HeadOp DEF TorqueType, TorqueStep
<1>2. limit' \in [Sides -> Limits] /\ spur_torque_values' \in [Sides -> Limits \cup {NoValue}]
  BY <1>1, TransferTyped DEF TorqueStep, LimitType, TorqueType
<1>3. current_spur_torque_limit' \in Limits /\ entered' \in BOOLEAN
  BY DEF TorqueStep, LimitType, TorqueType, TorqueConcludes
<1>4. /\ spur_torque_pending' \in BOOLEAN /\ spur_torque_event' \in BOOLEAN
      /\ spur_torque_error' \in BOOLEAN
  BY Zenon DEF TorqueStep, TorqueType, TorqueConcludes
<1>5. spur_torque_message' \in {"none", "pending", "verified", "failed", "aborted"}
  BY DEF TorqueStep, TorqueType, TorqueConcludes
<1>6. torque_next' \in 1 .. LastOp + 1 /\ torque_attempts' \in 1 .. Attempts
  <2>1. torque_attempts \in 1 .. Attempts /\ Attempts \in Nat /\ Attempts >= 1
    BY MailboxAssumption DEF TorqueType
  <2>2. \/ torque_next' = torque_next + 1 /\ torque_attempts' = Attempts
        \/ /\ torque_attempts > 1
           /\ torque_next' = torque_next /\ torque_attempts' = torque_attempts - 1
        \/ torque_next' = LastOp + 1 /\ torque_attempts' = torque_attempts
    BY Zenon DEF TorqueStep, MayRetry, RequeuesOperation
  <2>3. QED
    BY <1>1, <2>1, <2>2 DEF LastOp
<1>7. spur_torque_target' \in Limits
  BY DEF TorqueStep, TorqueType
<1>8. QED
  BY <1>2, <1>3, <1>4, <1>5, <1>6, <1>7 DEF LimitType, TorqueType

LEMMA ContactTyped ==
  ASSUME ContactType, ContactStep
  PROVE  ContactType'
<1>1. /\ contact_left > 0
      /\ contact_left \in 0 .. Reads /\ contact_attempts \in 1 .. Attempts
  BY Zenon DEF ContactType, ContactStep, ContactQueued
<1>2. CASE /\ contact_left' = contact_left - 1 /\ contact_attempts' = Attempts
           /\ spur_contact_pending' = (contact_left' > 0)
           /\ spur_contact_event' = (contact_left' = 0)
  <2>1. contact_left' \in 0 .. Reads /\ contact_attempts' \in 1 .. Attempts
    BY <1>1, <1>2, MailboxAssumption
  <2>2. spur_contact_pending' \in BOOLEAN /\ spur_contact_event' \in BOOLEAN
    BY <1>2
  <2>3. QED
    BY <1>2, <2>1, <2>2, Zenon DEF ContactType, ContactQueued
<1>3. CASE /\ contact_attempts > 1
           /\ contact_attempts' = contact_attempts - 1
           /\ UNCHANGED <<contact_left, spur_contact_pending, spur_contact_event>>
  <2>1. contact_attempts' \in 1 .. Attempts
    BY <1>1, <1>3, MailboxAssumption
  <2>2. QED
    BY <1>3, <2>1, Zenon DEF ContactType, ContactQueued
<1>4. QED
  BY <1>2, <1>3 DEF ContactStep

LEMMA TypeStep == TypeInv /\ [Next]_vars => TypeInv'
<1> SUFFICES ASSUME TypeInv, [Next]_vars PROVE TypeInv'
  OBVIOUS
<1> USE DEF TypeInv, ControlType, sessionVars, callerVars
<1>1. CASE EnterCsp
  <2>1. LimitType'
    BY <1>1, MailboxAssumption DEF EnterCsp, LimitType
  <2>2. LiveInv'
    <3>1. live_diagnostic_pending' \in BOOLEAN
      BY <1>1, Zenon DEF EnterCsp
    <3>2. QED
      BY <1>1, <3>1, MailboxAssumption DEF EnterCsp, LiveInv, Accounted
  <2>3. TorqueType' /\ ContactType'
    BY <1>1 DEF EnterCsp, TorqueType, ContactType, ContactQueued, torqueVars, contactVars
  <2>4. QED
    BY <1>1, <2>1, <2>2, <2>3 DEF EnterCsp
<1>2. CASE EnterCspRaises
  <2>1. LimitType'
    BY <1>2, MailboxAssumption DEF EnterCspRaises, LimitType
  <2>2. TorqueType' /\ ContactType' /\ LiveInv'
    BY <1>2 DEF EnterCspRaises, TorqueType, ContactType, ContactQueued, torqueVars,
       contactVars, liveVars, LiveInv, Accounted
  <2>3. QED
    BY <1>2, <2>1, <2>2 DEF EnterCspRaises
<1>3. CASE UNCHANGED <<limitVars, torqueVars, contactVars, liveVars>> /\ ControlType'
  BY <1>3 DEF LimitType, TorqueType, ContactType, ContactQueued, limitVars, torqueVars,
     contactVars, liveVars, LiveInv, Accounted
<1>4. CASE ExitBegins \/ ExitJoined \/ Wakes \/ TimesOut \/ Returns
             \/ LoopChecks \/ LoopRaises \/ LoopEnds \/ UNCHANGED vars
  <2>1. UNCHANGED <<limitVars, torqueVars, contactVars, liveVars>>
    BY <1>4 DEF ExitBegins, ExitJoined, Wakes, TimesOut, Returns, LoopChecks, LoopRaises,
       LoopEnds, vars
  <2>2. ControlType'
    BY <1>4 DEF ExitBegins, ExitJoined, Wakes, TimesOut, Returns, LoopChecks, LoopRaises,
       LoopEnds, vars
  <2>3. QED
    BY <1>3, <2>1, <2>2
<1>5. CASE ExitFinishes \/ LoopHandles
  <2>1. TorqueType' /\ ContactType'
    BY <1>5, CancelTyped DEF ExitFinishes, LoopHandles
  <2>2. LimitType' /\ LiveInv'
    BY <1>5 DEF ExitFinishes, LoopHandles, LimitType, limitVars, LiveInv, Accounted, liveVars
  <2>3. QED
    BY <1>5, <2>1, <2>2 DEF ExitFinishes, LoopHandles
<1>6. ASSUME NEW l \in Limits, RequestTorque(l) PROVE TypeInv'
  <2>1. TorqueType'
    <3>1. /\ spur_torque_pending' \in BOOLEAN /\ spur_torque_event' \in BOOLEAN
        /\ spur_torque_error' \in BOOLEAN
      BY <1>6, Zenon DEF RequestTorque, EventCleared
    <3>2. torque_next' \in 1 .. LastOp + 1 /\ torque_attempts' \in 1 .. Attempts
      BY <1>6, MailboxAssumption DEF RequestTorque, LastOp
    <3>3. QED
      BY <1>6, <3>1, <3>2 DEF RequestTorque, TorqueType, NoReadback
  <2>2. LimitType' /\ ContactType' /\ LiveInv'
    BY <1>6 DEF RequestTorque, LimitType, ContactType, ContactQueued, contactVars, LiveInv,
       Accounted, liveVars
  <2>3. QED
    BY <1>6, <2>1, <2>2 DEF RequestTorque
<1>7. CASE RequestContact
  <2>1. ContactType'
    <3>1. spur_contact_pending' \in BOOLEAN /\ spur_contact_event' \in BOOLEAN
      BY <1>7, Zenon DEF RequestContact
    <3>2. /\ contact_left' \in 0 .. Reads /\ contact_left' > 0
          /\ contact_attempts' \in 1 .. Attempts
      BY <1>7, MailboxAssumption DEF RequestContact
    <3>3. QED
      BY <3>1, <3>2, Zenon DEF ContactType, ContactQueued
  <2>2. LimitType' /\ TorqueType' /\ LiveInv'
    BY <1>7 DEF RequestContact, LimitType, limitVars, TorqueType, torqueVars, LiveInv,
       Accounted, liveVars
  <2>3. QED
    BY <1>7, <2>1, <2>2 DEF RequestContact
<1>8. CASE LoopCycles
  <2>1. ControlType'
    BY <1>8, CycleParts
  <2>2. LimitType' /\ TorqueType'
    <3>1. CASE TorqueStep
      BY <3>1, TorqueTyped
    <3>2. CASE UNCHANGED <<limitVars, torqueVars>>
      BY <3>2 DEF LimitType, TorqueType, limitVars, torqueVars
    <3>3. QED
      BY <1>8, CycleParts, <3>1, <3>2
  <2>3. ContactType'
    <3>1. CASE ContactStep
      BY <3>1, ContactTyped
    <3>2. CASE UNCHANGED contactVars
      BY <3>2 DEF ContactType, ContactQueued, contactVars
    <3>3. QED
      BY <1>8, CycleParts, <3>1, <3>2
  <2>4. LiveInv'
    BY <1>8, LiveCycle
  <2>5. QED
    BY <2>1, <2>2, <2>3, <2>4
<1>9. QED
  BY <1>1, <1>2, <1>4, <1>5, <1>6, <1>7, <1>8
     DEF Next, TcpSteps, CallerSteps, LoopSteps

LEMMA TypeInvariant == Spec => []TypeInv
BY TypeInit, TypeStep, PTL DEF Spec

\* Every variable of the mailbox keeps its type: no queue or attempt counter leaves its
\* range.
THEOREM TypeCorrect == Spec => []TypeOK
<1>1. TypeInv => TypeOK
  BY Zenon DEF TypeInv, ControlType, LimitType, TorqueType, ContactType, LiveInv, Accounted,
     TypeOK
<1>2. QED
  BY <1>1, TypeInvariant, PTL

\* No read of a stalled drive is lost, however many drives stall while the diagnostics
\* of others are pending.
THEOREM NoStallReadIsLost == Spec => []StallReadsAccounted
<1>1. LiveInv => StallReadsAccounted
  <2> SUFFICES ASSUME LiveInv, NEW d \in Drives
               PROVE  /\ live_recorded[d] >= 0 => live_recorded[d] + live_left[d] = Reads
                      /\ ~live_diagnostic_pending => live_left[d] = 0
    BY DEF StallReadsAccounted
  <2>1. live_recorded[d] >= 0 => live_recorded[d] + live_left[d] = Reads
    BY DEF LiveInv, Accounted
  <2>2. QED
    BY <2>1, Zenon DEF LiveInv
<1>2. QED
  BY <1>1, TypeInvariant, PTL DEF TypeInv

-----------------------------------------------------------------------------
(* Nothing stays staged.                                                   *)

Staged == spur_torque_pending \/ spur_contact_pending

\* A session that accepts requests has a PDO thread in its loop or an exit under way,
\* so that a staged request has somebody who will serve or cancel it.
StageInv ==
  /\ csp_active => loop # "off"
  /\ csp_active /\ loop = "handled" => pdo_error
  /\ csp_active /\ pdo_stop_event => exit # "idle"
  /\ loop = "stopping" => pdo_stop_event
  /\ Staged /\ exit = "idle" => csp_active /\ loop \in {"check", "body", "failed"}

LEMMA StageInit == Init => StageInv
BY DEF Init, StageInv, Staged

LEMMA StageStep == TypeInv /\ StageInv /\ [Next]_vars => StageInv'
<1> SUFFICES ASSUME TypeInv, StageInv, [Next]_vars PROVE StageInv'
  OBVIOUS
<1> USE DEF StageInv, Staged, sessionVars, callerVars
<1>0. /\ loop \in {"off", "check", "body", "failed", "handled", "stopping"}
      /\ exit \in {"idle", "join", "finish"}
  BY DEF TypeInv, ControlType
<1>1. CASE EnterCsp
  BY <1>1 DEF EnterCsp, torqueVars, contactVars
<1>2. CASE EnterCspRaises
  BY <1>2 DEF EnterCspRaises, torqueVars, contactVars
<1>3. CASE ExitBegins \/ ExitJoined
  BY <1>3 DEF ExitBegins, ExitJoined, torqueVars, contactVars
<1>4. CASE ExitFinishes
  <2>1. ~spur_torque_pending' /\ ~spur_contact_pending'
    BY <1>4, Zenon DEF ExitFinishes, CancelsStagedRequests, torqueVars, contactVars
  <2>2. QED
    BY <1>4, <2>1 DEF ExitFinishes
<1>5. ASSUME NEW l \in Limits, RequestTorque(l) PROVE StageInv'
  BY <1>0, <1>5 DEF RequestTorque, AcceptsTorque, contactVars
<1>6. CASE RequestContact
  BY <1>0, <1>6 DEF RequestContact, torqueVars
<1>7. CASE Wakes \/ TimesOut \/ Returns
  BY <1>7 DEF Wakes, TimesOut, Returns, torqueVars, contactVars
<1>8. CASE LoopChecks
  BY <1>0, <1>8 DEF LoopChecks, torqueVars, contactVars
<1>9. CASE LoopCycles
  BY <1>9, CycleParts
<1>10. CASE LoopRaises
  BY <1>10 DEF LoopRaises, torqueVars, contactVars
<1>11. CASE LoopHandles
  <2>1. ~spur_torque_pending' /\ ~spur_contact_pending'
    BY <1>11, Zenon DEF LoopHandles, CancelsStagedRequests, torqueVars, contactVars
  <2>2. QED
    BY <1>11, <2>1 DEF LoopHandles
<1>12. CASE LoopEnds
  BY <1>12 DEF LoopEnds, torqueVars, contactVars
<1>13. CASE UNCHANGED vars
  BY <1>13 DEF vars, torqueVars, contactVars
<1>14. QED
  BY <1>1, <1>2, <1>3, <1>4, <1>5, <1>6, <1>7, <1>8, <1>9, <1>10, <1>11, <1>12, <1>13
     DEF Next, TcpSteps, CallerSteps, LoopSteps

LEMMA StageInvariant == Spec => []StageInv
BY StageInit, StageStep, TypeInvariant, PTL DEF Spec

\* A request accepted in the loop's last cycle, or after it, is never left without a
\* thread that will serve or cancel it.
THEOREM NothingIsStranded == Spec => []NoneStranded
<1>1. TypeInv /\ StageInv => NoneStranded
  BY DEF StageInv, Staged, NoneStranded
<1>2. QED
  BY <1>1, StageInvariant, TypeInvariant, PTL

-----------------------------------------------------------------------------
(* The outcome of a torque request.                                        *)

\* The service that waits is the one whose limit is staged; the event says that the
\* outcome of the last request stands; no session is entered while one is pending; the
\* readback of the positive side is current when that of the negative side is made.
OutcomeInv ==
  /\ caller \in {"torque", "torque_woken"} => spur_torque_target = asked
  /\ caller = "torque_woken" => spur_torque_event
  /\ spur_torque_event =>
       /\ ~spur_torque_pending
       /\ \/ spur_torque_error
          \/ spur_torque_message = "verified"
             /\ (entered \/ \A s \in Sides : limit[s] = spur_torque_target)
  /\ spur_torque_pending => ~entered
  /\ spur_torque_pending /\ torque_next = LastOp
       => spur_torque_values["positive"] = limit["positive"]
  /\ CachedIsApplied

LEMMA OutcomeInit == Init => OutcomeInv
BY DEF Init, OutcomeInv, CachedIsApplied

\* A step of the staged operations publishes an outcome that holds, or none.
LEMMA TorqueOutcome ==
  ASSUME TypeInv, OutcomeInv, TorqueStep, UNCHANGED callerVars
  PROVE  OutcomeInv'
<1> DEFINE op == TorqueOps[torque_next]
<1>1. /\ spur_torque_pending /\ ~entered /\ ~spur_torque_event
      /\ ~entered' /\ spur_torque_target' = spur_torque_target
      /\ caller # "torque_woken" /\ caller' = caller /\ asked' = asked
  BY Zenon DEF TorqueStep, OutcomeInv, callerVars
<1>2. torque_next \in {1, 2, 3, 4}
  BY DEF TorqueStep, TypeInv, TorqueType, LastOp
<1>3. /\ limit \in [Sides -> Limits]
      /\ spur_torque_values \in [Sides -> Limits \cup {NoValue}]
  BY DEF TypeInv, LimitType, TorqueType
<1>4. caller' \in {"torque", "torque_woken"} => spur_torque_target' = asked'
  BY <1>1 DEF OutcomeInv
<1>5. CASE /\ spur_torque_pending'
           /\ UNCHANGED spur_torque_event
           /\ torque_next' = LastOp => spur_torque_values'["positive"] = limit'["positive"]
  BY <1>1, <1>4, <1>5, Zenon DEF OutcomeInv, CachedIsApplied
<1>6. CASE spur_torque_error' /\ ~spur_torque_pending'
  BY <1>1, <1>4, <1>6, Zenon DEF OutcomeInv, CachedIsApplied
<1>7. CASE TorqueTransfer(op) /\ torque_next' = torque_next + 1 /\ torque_next = LastOp /\ TorqueConcludes
  <2>1. /\ spur_torque_values' = [spur_torque_values EXCEPT !["negative"] = limit["negative"]]
        /\ limit' = limit
    BY <1>7 DEF TorqueTransfer, TorqueOps, LastOp
  <2>2. \A s \in Sides : spur_torque_values'[s] = limit[s]
    BY <1>1, <1>3, <1>7, <2>1 DEF OutcomeInv, Sides
  <2>3. CASE ReadbackMatches
    <3>1. \A s \in Sides : limit'[s] = spur_torque_target
      BY <2>1, <2>2, <2>3 DEF ReadbackMatches
    <3>2. /\ ~spur_torque_pending' /\ spur_torque_message' = "verified"
          /\ current_spur_torque_limit' = spur_torque_target
      BY <1>7, <2>3, Zenon DEF TorqueConcludes
    <3>3. QED
      BY <1>1, <1>4, <3>1, <3>2, Zenon DEF OutcomeInv, CachedIsApplied
  <2>4. CASE ~ReadbackMatches
    BY <1>6, <1>7, <2>4, Zenon DEF TorqueConcludes
  <2>5. QED
    BY <2>3, <2>4
<1>8. CASE /\ TorqueTransfer(op) /\ torque_next' = torque_next + 1 /\ torque_next # LastOp
           /\ UNCHANGED <<spur_torque_pending, spur_torque_event>>
  <2>1. ASSUME torque_next' = LastOp
        PROVE  spur_torque_values'["positive"] = limit'["positive"]
    <3>1. torque_next = 3
      BY <1>2, <1>8, <2>1 DEF LastOp
    <3>2. /\ spur_torque_values' = [spur_torque_values EXCEPT !["positive"] = limit["positive"]]
          /\ limit' = limit
      BY <1>8, <3>1 DEF TorqueTransfer, TorqueOps
    <3>3. QED
      BY <1>3, <3>2 DEF Sides
  <2>2. QED
    BY <1>1, <1>5, <1>8, <2>1, Zenon
<1>9. CASE /\ \/ op.action = "write" /\ TorqueTransfer(op)
              \/ UNCHANGED <<limit, spur_torque_values>>
           /\ RequeuesOperation
           /\ UNCHANGED <<spur_torque_pending, spur_torque_event>>
  <2>1. ASSUME torque_next' = LastOp
        PROVE  spur_torque_values'["positive"] = limit'["positive"]
    <3>1. torque_next = LastOp
      BY <1>9, <2>1 DEF RequeuesOperation
    <3>2. UNCHANGED <<limit, spur_torque_values>>
      BY <1>9, <3>1 DEF TorqueOps, LastOp
    <3>3. QED
      BY <1>1, <3>1, <3>2 DEF OutcomeInv
  <2>2. QED
    BY <1>1, <1>5, <1>9, <2>1, Zenon
<1>10. QED
  BY <1>6, <1>7, <1>8, <1>9, Zenon DEF TorqueStep

\* Cancelling gives a pending request an error for its outcome.
LEMMA CancelOutcome ==
  ASSUME OutcomeInv, CancelsStagedRequests, UNCHANGED <<callerVars, limitVars>>,
         csp_active' => csp_active
  PROVE  OutcomeInv'
<1>1. /\ UNCHANGED <<caller, asked, limit, current_spur_torque_limit, entered>>
      /\ UNCHANGED <<spur_torque_target, spur_torque_values>>
  BY Zenon DEF CancelsStagedRequests, callerVars, limitVars, torqueVars
<1>2. CASE spur_torque_pending
  <2>1. /\ spur_torque_error' /\ ~spur_torque_pending' /\ spur_torque_event' /\ ~entered'
    BY <1>1, <1>2, Zenon DEF CancelsStagedRequests, OutcomeInv
  <2>2. QED
    BY <1>1, <2>1, Zenon DEF OutcomeInv, CachedIsApplied
<1>3. CASE ~spur_torque_pending
  <2>1. UNCHANGED torqueVars
    BY <1>3, Zenon DEF CancelsStagedRequests
  <2>2. QED
    BY <1>1, <2>1, Zenon DEF OutcomeInv, CachedIsApplied, torqueVars
<1>4. QED
  BY <1>2, <1>3

\* Entering a session writes the drive's limits while nothing is pending.
LEMMA EnterOutcome ==
  ASSUME StageInv, OutcomeInv, EnterCsp \/ EnterCspRaises
  PROVE  OutcomeInv'
<1>1. exit = "idle" /\ ~csp_active /\ entered' /\ UNCHANGED <<callerVars, torqueVars>>
  BY DEF EnterCsp, EnterCspRaises
<1>2. ~spur_torque_pending /\ ~spur_torque_pending'
  BY <1>1, Zenon DEF torqueVars, StageInv, Staged
<1>3. CachedIsApplied'
  <2>1. CASE EnterCsp
    BY <2>1 DEF EnterCsp, CachedIsApplied
  <2>2. CASE EnterCspRaises
    BY <2>2, Zenon DEF EnterCspRaises, CachedIsApplied, sessionVars
  <2>3. QED
    BY <2>1, <2>2
<1>4. QED
  BY <1>1, <1>2, <1>3, Zenon DEF OutcomeInv, callerVars, torqueVars

LEMMA OutcomeStep == TypeInv /\ StageInv /\ OutcomeInv /\ [Next]_vars => OutcomeInv'
<1> SUFFICES ASSUME TypeInv, StageInv, OutcomeInv, [Next]_vars PROVE OutcomeInv'
  OBVIOUS
<1>1. ASSUME UNCHANGED <<callerVars, limitVars, torqueVars>>, csp_active' => csp_active
      PROVE  OutcomeInv'
  BY <1>1, Zenon DEF OutcomeInv, CachedIsApplied, callerVars, limitVars, torqueVars
<1>2. CASE ExitBegins \/ ExitJoined \/ LoopChecks \/ LoopRaises \/ LoopEnds
             \/ UNCHANGED vars
  <2>1. UNCHANGED <<callerVars, limitVars, torqueVars>> /\ (csp_active' => csp_active)
    BY <1>2 DEF ExitBegins, ExitJoined, LoopChecks, LoopRaises, LoopEnds, vars, sessionVars
  <2>2. QED
    BY <1>1, <2>1
<1>3. CASE ExitFinishes \/ LoopHandles
  <2>1. /\ CancelsStagedRequests /\ UNCHANGED <<callerVars, limitVars>>
        /\ csp_active' => csp_active
    BY <1>3 DEF ExitFinishes, LoopHandles
  <2>2. QED
    BY <2>1, CancelOutcome
<1>4. ASSUME NEW l \in Limits, RequestTorque(l) PROVE OutcomeInv'
  <2>1. /\ caller' = "torque" /\ spur_torque_target' = asked' /\ ~spur_torque_event'
        /\ spur_torque_pending' /\ ~entered' /\ torque_next' = 1
    BY <1>4, Zenon DEF RequestTorque, EventCleared
  <2>2. torque_next' # LastOp
    BY <2>1 DEF LastOp
  <2>3. QED
    BY <2>1, <2>2, Zenon DEF OutcomeInv, CachedIsApplied
<1>5. CASE RequestContact \/ TimesOut \/ Returns
  <2>1. /\ UNCHANGED <<limitVars, torqueVars, sessionVars>>
        /\ caller' \in {"idle", "contact"}
    BY <1>5, Zenon DEF RequestContact, TimesOut, Returns
  <2>2. caller' # "torque" /\ caller' # "torque_woken"
    BY <2>1
  <2>3. QED
    BY <2>1, <2>2, Zenon DEF OutcomeInv, CachedIsApplied, limitVars, torqueVars, sessionVars
<1>6. CASE Wakes
  <2>1. /\ UNCHANGED <<limitVars, torqueVars, sessionVars, asked>>
        /\ \/ caller = "torque" /\ spur_torque_event /\ caller' = "torque_woken"
           \/ caller' = "contact_woken"
    BY <1>6, Zenon DEF Wakes
  <2>2. /\ caller' \in {"torque", "torque_woken"} => caller = "torque"
        /\ caller' = "torque_woken" => spur_torque_event
    BY <2>1
  <2>3. QED
    BY <2>1, <2>2, Zenon DEF OutcomeInv, CachedIsApplied, limitVars, torqueVars, sessionVars
<1>7. CASE LoopCycles
  <2>1. UNCHANGED callerVars /\ UNCHANGED csp_active
    BY <1>7, CycleParts
  <2>2. CASE TorqueStep
    BY <2>1, <2>2, TorqueOutcome
  <2>3. CASE UNCHANGED <<limitVars, torqueVars>>
    BY <1>1, <2>1, <2>3
  <2>4. QED
    BY <1>7, CycleParts, <2>2, <2>3
<1>8. QED
  BY <1>2, <1>3, <1>4, <1>5, <1>6, <1>7, EnterOutcome
     DEF Next, TcpSteps, CallerSteps, LoopSteps

LEMMA OutcomeInvariant == Spec => []OutcomeInv
BY OutcomeInit, OutcomeStep, StageInvariant, TypeInvariant, PTL DEF Spec

\* A torque service that is woken finds the outcome of its own request, whatever earlier
\* requests timed out and whatever session was taken down or entered meanwhile.
THEOREM WokenFindsOwnOutcome == Spec => []WokenByOwnOutcome
<1>1. OutcomeInv => WokenByOwnOutcome
  BY Zenon DEF OutcomeInv, WokenByOwnOutcome
<1>2. QED
  BY <1>1, OutcomeInvariant, PTL

\* The limit that the bridge reports is the one that both of the drive's registers hold.
THEOREM ReportedLimitIsApplied == Spec => []CachedIsApplied
<1>1. OutcomeInv => CachedIsApplied
  BY DEF OutcomeInv
<1>2. QED
  BY <1>1, OutcomeInvariant, PTL

=============================================================================
