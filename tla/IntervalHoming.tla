--------------------------- MODULE IntervalHoming ---------------------------
(***************************************************************************)
(* How FaulhaberDrive makes a position zero: a reference-input search, the *)
(* traversal of the sensor's interval and the return to its midpoint       *)
(* (home_to_reference_interval_midpoint), the relative move of the spur    *)
(* gear, and Method 37 after both.  The bridge's steps, one per poll, run  *)
(* beside one drive, which moves, stops, faults and answers on its own.    *)
(*                                                                         *)
(* Positions are mechanical: the sensor's entry edge is at 0 and its exit  *)
(* edge at direction * Width.  A count is axis - origin.  A deadline may   *)
(* have passed at any poll; an SDO transfer may be lost before or after it *)
(* has taken effect.                                                       *)
(***************************************************************************)
EXTENDS Integers

CONSTANTS
  Width,        \* of the reference-input interval
  MaxTravel,    \* homing_interval_max_travel_counts of the drive
  Delta,        \* spur_gear_reference_delta_counts, or an adjustment's counts
  Tolerance,    \* midpoint, zero and relative-move tolerance
  Step,         \* travel between two transfers, at most
  Overshoot,    \* of the native homing beyond the edge it latched
  Sag,          \* of an axis without torque between Shutdown and Enable Operation
  Settle,       \* of the encoder after Method 37, at most
  Reach,        \* bound: axes are modelled within -Reach .. Reach
  MaxLosses     \* bound: lost transfers in one procedure

ASSUME HomingAssumption ==
  /\ {Width, MaxTravel, Step, Reach} \subseteq Nat \ {0}
  /\ {Tolerance, Overshoot, Sag, Settle, MaxLosses} \subseteq Nat
  /\ Delta \in Int \ {0}
  /\ MaxTravel + Sag + Settle <= Reach
  /\ Overshoot <= MaxTravel   \* it stops within the distance that is searched next
  /\ Step <= Width            \* 10 ms at homing_zero_speeds against the whole interval

VARIABLES
  (* The drive. *)
  direction, axis, origin, target, power, reached, attained, error,
  motion,         \* rest, seek, pending (started, not acknowledged), moving, halting, zeroing
  moved,          \* it has travelled since the last transfer
  (* The bridge. *)
  op, pc, result,
  seen, status, actual, second, source, following, motion_active,
  (* Histories. *)
  intended,       \* twice the mechanical position that should become zero
  guarded,        \* the exception was raised where the code stops the drive
  losses, stop_losses

motionVars == <<axis, origin, target, motion>>
bitVars == <<power, reached, attained, error>>
driveVars == <<motionVars, bitVars>>
localVars == <<seen, status, actual, second, source, following>>
historyVars == <<intended, losses, stop_losses>>
vars == <<direction, driveVars, moved, op, pc, result, localVars, motion_active,
          guarded, historyVars>>

Pcs == {"idle", "native_start", "native_wait", "traverse", "scan", "scan_input",
        "halt", "halt_wait", "midpoint", "mid_start", "mid_wait", "zero", "zero_wait",
        "enable", "rel_start", "rel_wait",
        "stop_halt", "stop_wait", "stop_voltage", "release"}
StopPcs == {"stop_halt", "stop_wait", "stop_voltage", "release"}
Motions == {"rest", "seek", "pending", "moving", "halting", "zeroing"}
Statuses == [fault : BOOLEAN, error : BOOLEAN, reached : BOOLEAN]
NoStatus == [fault |-> FALSE, error |-> FALSE, reached |-> FALSE]

Distance(a, b) == IF a < b THEN b - a ELSE a - b
Counts == axis - origin
Within(c, S) == {x \in (c - S) .. (c + S) : -Reach <= x /\ x <= Reach}

Init ==
  /\ direction \in {1, -1}
  /\ axis = 0 /\ origin = 0 /\ target = 0
  /\ power \in {"off", "enabled", "fault"}
  /\ reached \in BOOLEAN /\ attained = FALSE /\ error = FALSE
  /\ motion = "rest" /\ moved = FALSE
  /\ op = "home" /\ pc = "idle" /\ result = "none"
  /\ seen = FALSE /\ status = NoStatus /\ actual = 0 /\ second = 0 /\ source = 0
  /\ following = FALSE /\ motion_active = FALSE
  /\ intended = 0 /\ guarded = FALSE /\ losses = 0 /\ stop_losses = 0

-----------------------------------------------------------------------------
(* The drive.                                                              *)

\* What the reference input may read: at an electrical edge, either value.
InputReads ==
  LET depth == axis * direction
  IN  IF depth \in {0, Width} THEN BOOLEAN ELSE {0 < depth /\ depth < Width}

DriveStep(m) ==
  /\ motion = m /\ power = "enabled"
  /\ UNCHANGED <<direction, power, op, pc, result, localVars, motion_active, guarded,
                 historyVars>>

\* Native homing finds the entry edge, latches it as zero and stops near it.
DriveFindsEdge ==
  /\ DriveStep("seek")
  /\ motion' = "rest"
  /\ \/ /\ origin' = 0
        /\ axis' \in {direction * k : k \in -1 .. Overshoot}
        /\ attained' = TRUE /\ reached' = TRUE
        /\ UNCHANGED error
     \/ error' = TRUE /\ UNCHANGED <<axis, origin, attained, reached>>
  /\ UNCHANGED <<target, moved>>

\* A started motion is acknowledged; until then Target Reached is the old one.
DriveAcknowledges ==
  /\ DriveStep("pending")
  /\ motion' = "moving"
  /\ reached' = FALSE
  /\ UNCHANGED <<axis, origin, target, attained, error, moved>>

\* At most Step towards the target between two transfers.
DriveMoves ==
  /\ DriveStep("moving")
  /\ ~moved /\ moved' = TRUE
  /\ \E k \in 0 .. Step :
       LET left == target - Counts
           go == IF Distance(left, 0) <= k THEN left ELSE IF left > 0 THEN k ELSE -k
       IN  /\ axis' = axis + go
           /\ motion' = IF go = left THEN "rest" ELSE "moving"
           /\ reached' = (go = left)
  /\ error' \in BOOLEAN
  /\ UNCHANGED <<origin, target, attained>>

\* Under Halt the axis comes to rest, which sets Target Reached as well, and the
\* interrupted target is dropped.
DriveHalts ==
  /\ DriveStep("halting")
  /\ motion' = "rest" /\ reached' = TRUE
  /\ axis' \in Within(axis, Step)
  /\ UNCHANGED <<origin, target, attained, error, moved>>

\* Method 37 makes this position zero; the encoder may settle a little after it.
DriveZeroes ==
  /\ DriveStep("zeroing")
  /\ motion' = "rest"
  /\ \/ /\ origin' = axis
        /\ axis' \in Within(axis, Settle)
        /\ attained' = TRUE /\ reached' = TRUE
        /\ UNCHANGED error
     \/ error' = TRUE /\ UNCHANGED <<axis, origin, attained, reached>>
  /\ UNCHANGED <<target, moved>>

DriveFaults ==
  /\ power = "enabled"
  /\ power' = "fault" /\ motion' = "rest"
  /\ UNCHANGED <<direction, axis, origin, target, reached, attained, error, moved, op, pc,
                 result, localVars, motion_active, guarded, historyVars>>

-----------------------------------------------------------------------------
(* What the bridge's steps are made of.                                    *)

At(p) ==
  /\ pc = p
  /\ moved' = FALSE
  /\ UNCHANGED <<direction, op>>

Delivered == UNCHANGED <<losses, stop_losses>>

Lost ==
  /\ losses < MaxLosses
  /\ losses' = losses + 1
  /\ stop_losses' = IF pc \in StopPcs THEN stop_losses + 1 ELSE stop_losses

Returns(r) == pc' = "idle" /\ result' = r

\* An exception reaches the except clause of home_to_reference_interval_midpoint,
\* which halts the drive if motion_active, or that of the spur gear's reference,
\* which disables it, or leaves the procedure with the drive as it is.
Raises ==
  /\ IF motion_active \/ (op = "spur" /\ pc # "enable")
     THEN /\ pc' = IF motion_active THEN "stop_halt" ELSE "release"
          /\ guarded' = TRUE
          /\ UNCHANGED result
     ELSE Returns("failed") /\ UNCHANGED guarded
  /\ UNCHANGED motion_active

Continues(p) == pc' = p /\ UNCHANGED <<result, guarded>>

\* write_controlword(CMD_DISABLE_VOLTAGE) as the drive takes it.
VoltageDisabled ==
  /\ power' = IF power = "fault" THEN "fault" ELSE "off"
  /\ motion' = "rest"
  /\ UNCHANGED <<axis, origin, target, reached, attained, error>>

\* Disable Voltage and raise; a lost transfer raises as well.
DisablesAndRaises ==
  /\ \/ VoltageDisabled /\ Delivered
     \/ Lost /\ (VoltageDisabled \/ UNCHANGED driveVars)
  /\ Raises

\* reset_fault_if_needed, Shutdown, Switch On, Enable Operation and the start of
\* motion m; Shutdown ends any other.  When the sequence raises, a drive that
\* refused is not enabled, and one whose transfer was lost may have got anywhere.
PoweredUp(m) ==
  /\ power' = "enabled" /\ motion' = m
  /\ reached' = FALSE /\ attained' = FALSE /\ error' = FALSE

PowerUpFails(m) ==
  /\ \/ Delivered /\ power' \in {"off", "fault"} /\ motion' = "rest"
     \/ /\ Lost
        /\ \/ UNCHANGED <<power, motion>>
           \/ power' \in {"off", "fault"} /\ motion' = "rest"
           \/ power' = "enabled" /\ motion' \in {"rest", m}
  /\ UNCHANGED <<axis, origin, target, reached, attained, error>>
  /\ Raises

\* move_absolute_counts: mode, target, Enable Operation, Start Motion.  Only an
\* enabled drive starts, and its Target Reached bit is still the old one.
MoveStarts(t) ==
  /\ IF power = "enabled" THEN motion' = "pending" /\ target' = t
     ELSE UNCHANGED <<motion, target>>
  /\ UNCHANGED <<axis, origin, bitVars>>

MoveStartFails(t) == Lost /\ (MoveStarts(t) \/ UNCHANGED driveVars) /\ Raises

-----------------------------------------------------------------------------
(* Requests: _home_drive, _reference_spur_gear_after_arm_homing and         *)
(* _adjust_homed_drive_counts.                                             *)

Begin(o, p) ==
  /\ pc = "idle"
  /\ op' = o /\ pc' = p /\ result' = "none"
  /\ seen' = FALSE /\ status' = NoStatus /\ actual' = 0 /\ second' = 0 /\ source' = 0
  /\ following' = FALSE /\ motion_active' = FALSE
  /\ intended' = direction * Width
  /\ guarded' = FALSE /\ losses' = 0 /\ stop_losses' = 0
  /\ UNCHANGED <<direction, driveVars, moved>>

HomeDrive == Begin("home", "native_start")

\* Bound: relative moves are requested at rest, where they end within Reach.
MoveFits == motion = "rest" /\ Distance(axis + Delta, 0) <= Reach - Sag - Settle

ReferenceSpurGear == MoveFits /\ Begin("spur", "enable")
AdjustHomedDrive == MoveFits /\ Begin("adjust", "enable")

-----------------------------------------------------------------------------
(* home_to_reference_switch.                                               *)

NativeStarts ==
  /\ At("native_start")
  /\ \/ /\ PoweredUp("seek") /\ Delivered
        /\ Continues("native_wait")
        /\ UNCHANGED <<axis, origin, target, motion_active>>
     \/ PowerUpFails("seek")
  /\ UNCHANGED <<localVars, intended>>

\* One poll.  Only the timeout and the drive's own errors remove its voltage.
NativePolls ==
  /\ At("native_wait")
  /\ \/ /\ power # "fault" /\ ~error /\ attained /\ reached
        /\ Continues("traverse")
        /\ Delivered
        /\ UNCHANGED <<driveVars, motion_active>>
     \/ /\ power # "fault" /\ ~error /\ ~(attained /\ reached)
        /\ Continues("native_wait")
        /\ Delivered
        /\ UNCHANGED <<driveVars, motion_active>>
     \/ DisablesAndRaises
     \/ Lost /\ UNCHANGED driveVars /\ Raises
  /\ UNCHANGED <<localVars, intended>>

-----------------------------------------------------------------------------
(* The traversal of the interval.                                          *)

\* Profile parameters, then the motion; motion_active only after it was started.
TraverseStarts ==
  /\ At("traverse")
  /\ seen' \in InputReads
  /\ \/ /\ MoveStarts(direction * MaxTravel) /\ Delivered
        /\ motion_active' = TRUE
        /\ Continues("scan")
     \/ MoveStartFails(direction * MaxTravel)
  /\ UNCHANGED <<status, actual, second, source, following, intended>>

\* The status and the position are read first ...
TraversePolls ==
  /\ At("scan")
  /\ \/ /\ status' = [fault |-> power = "fault", error |-> error, reached |-> reached]
        /\ actual' = Counts
        /\ Continues("scan_input")
        /\ Delivered
        /\ UNCHANGED motion_active
     \/ Delivered /\ UNCHANGED <<status, actual>> /\ Raises
     \/ Lost /\ UNCHANGED <<status, actual>> /\ Raises
  /\ UNCHANGED <<driveVars, seen, second, source, following, intended>>

ExitFound(active) == ~active /\ seen /\ actual # 0

\* ... and the input after them, when the axis may be further on.
TraverseReadsInput ==
  /\ At("scan_input")
  /\ \/ /\ Delivered
        /\ \E active \in InputReads :
             \/ /\ status.fault \/ status.error
                /\ Raises /\ UNCHANGED <<seen, second>>
             \/ /\ ~status.fault /\ ~status.error /\ ExitFound(active)
                /\ second' = actual
                /\ Continues("halt") /\ UNCHANGED <<seen, motion_active>>
             \/ /\ ~status.fault /\ ~status.error /\ ~ExitFound(active)
                /\ seen' = (seen \/ active)
                /\ IF status.reached THEN Raises
                   ELSE Continues("scan") /\ UNCHANGED motion_active
                /\ UNCHANGED second
     \/ Lost /\ Raises /\ UNCHANGED <<seen, second>>
  /\ UNCHANGED <<driveVars, status, actual, source, following, intended>>

-----------------------------------------------------------------------------
(* halt_profile_position_motion, in the procedure and in its except clause. *)

HaltRaises == IF pc \in StopPcs THEN Continues("stop_voltage") /\ UNCHANGED motion_active
              ELSE Raises

HaltStarts(p, wait) ==
  /\ At(p)
  /\ LET taken == IF power = "enabled" /\ motion \in {"pending", "moving"}
                  THEN "halting" ELSE motion
     IN  \/ motion' = taken /\ Delivered /\ Continues(wait) /\ UNCHANGED motion_active
         \/ motion' \in {taken, motion} /\ Lost /\ HaltRaises
  /\ UNCHANGED <<axis, origin, target, bitVars, localVars, intended>>

\* One poll: a fault and the timeout disable the voltage and raise; an axis at rest
\* ends the wait, and Enable Operation keeps it there.
HaltPolls(p) ==
  /\ At(p)
  /\ \/ /\ power # "fault" /\ motion = "rest"
        /\ IF pc = "stop_wait" THEN Returns("failed") /\ UNCHANGED <<guarded, motion_active>>
           ELSE Continues("midpoint") /\ motion_active' = FALSE
        /\ Delivered /\ UNCHANGED driveVars
     \/ /\ power # "fault" /\ motion # "rest"
        /\ Continues(pc) /\ Delivered /\ UNCHANGED <<driveVars, motion_active>>
     \/ VoltageDisabled /\ Delivered /\ HaltRaises
     \/ Lost /\ (VoltageDisabled \/ UNCHANGED driveVars) /\ HaltRaises
  /\ UNCHANGED <<localVars, intended>>

Halt ==
  \/ HaltStarts("halt", "halt_wait") \/ HaltPolls("halt_wait")
  \/ HaltStarts("stop_halt", "stop_wait") \/ HaltPolls("stop_wait")

\* Mutant: the halt of the except clause fails and nothing else is tried.
GivesUp == UNCHANGED driveVars /\ Delivered

\* The except clause's own except: Disable Voltage, its failure ignored.
LastResort ==
  \/ VoltageDisabled /\ Delivered
  \/ Lost /\ (VoltageDisabled \/ UNCHANGED driveVars)

StopsByVoltage ==
  /\ At("stop_voltage")
  /\ LastResort
  /\ Returns("failed")
  /\ UNCHANGED <<guarded, motion_active, localVars, intended>>

-----------------------------------------------------------------------------
(* The return to the midpoint.                                             *)

\* Mutant: the second edge is taken for a distance from the present position.
MidpointFromHere == actual + second

\* first_edge_counts is 0; // rounds towards minus infinity, as \div does.
Midpoint == second \div 2

\* An interval that was left on the wrong side raises, the drive being at rest.
ComputeMidpoint ==
  /\ At("midpoint")
  /\ IF second * direction > 0 THEN Continues("mid_start") /\ motion_active' = TRUE
     ELSE Raises
  /\ Delivered
  /\ UNCHANGED <<driveVars, localVars, intended>>

MidpointStarts ==
  /\ At("mid_start")
  /\ \/ MoveStarts(Midpoint) /\ Delivered /\ Continues("mid_wait") /\ UNCHANGED motion_active
     \/ MoveStartFails(Midpoint)
  /\ UNCHANGED <<localVars, intended>>

\* Mutant: Target Reached is taken for the proof of arrival.
TrustsTargetReached(c) == TRUE

\* The endpoint check after move_absolute_counts_and_wait.
AtMidpoint(c) == Distance(c, Midpoint) <= Tolerance

\* One poll of move_absolute_counts_and_wait, and what follows its return.
MidpointPolls ==
  /\ At("mid_wait")
  /\ \/ /\ power # "fault" /\ reached
        /\ actual' = Counts
        /\ motion_active' = FALSE
        /\ IF AtMidpoint(actual') THEN Continues("zero")
           ELSE Returns("failed") /\ UNCHANGED guarded
        /\ Delivered
     \/ /\ power # "fault" /\ ~reached
        /\ Continues("mid_wait") /\ Delivered /\ UNCHANGED <<actual, motion_active>>
     \/ Delivered /\ Raises /\ UNCHANGED actual
     \/ Lost /\ Raises /\ UNCHANGED actual
  /\ UNCHANGED <<driveVars, seen, status, second, source, following, intended>>

-----------------------------------------------------------------------------
(* home_current_position.                                                  *)

\* Between Shutdown and Enable Operation the axis has no torque.
ZeroStarts ==
  /\ At("zero")
  /\ \/ /\ PoweredUp("zeroing") /\ Delivered
        /\ axis' \in Within(axis, Sag)
        /\ Continues("zero_wait")
        /\ UNCHANGED <<origin, target, motion_active>>
     \/ PowerUpFails("zeroing")
  /\ UNCHANGED <<localVars, intended>>

\* Mutant: Homing Attained is enough.
TrustsHomingAttained(c) == TRUE

\* The readback check of home_current_position.
ReadsZero(c) == Distance(c, 0) <= Tolerance

ZeroPolls ==
  /\ At("zero_wait")
  /\ \/ /\ power # "fault" /\ ~error /\ attained /\ reached
        /\ actual' = Counts
        /\ IF ReadsZero(actual')
           THEN Returns("ok") /\ UNCHANGED <<guarded, motion_active>>
           ELSE Raises
        /\ Delivered /\ UNCHANGED driveVars
     \/ /\ power # "fault" /\ ~error /\ ~(attained /\ reached)
        /\ Continues("zero_wait") /\ Delivered
        /\ UNCHANGED <<driveVars, motion_active, actual>>
     \/ DisablesAndRaises /\ UNCHANGED actual
     \/ Lost /\ UNCHANGED <<driveVars, actual>> /\ Raises
  /\ UNCHANGED <<seen, status, second, source, following, intended>>

-----------------------------------------------------------------------------
(* move_relative_counts_and_wait and its callers.                          *)

\* enable_operation and configure_profile_motion, outside any try.
Enables ==
  /\ At("enable")
  /\ \/ /\ power' = "enabled" /\ motion' = "rest"
        /\ UNCHANGED <<axis, origin, target, reached, attained, error, motion_active>>
        /\ Continues("rel_start") /\ Delivered
     \/ PowerUpFails("rest")
  /\ UNCHANGED <<localVars, intended>>

RelativeStarts ==
  /\ At("rel_start")
  /\ source' = Counts
  /\ intended' = 2 * (axis + Delta)
  /\ \/ /\ MoveStarts(Counts + Delta) /\ Delivered
        /\ Continues("rel_wait") /\ UNCHANGED motion_active
     \/ MoveStartFails(Counts + Delta)
  /\ UNCHANGED <<seen, status, actual, second, following>>

\* The condition under which a relative move has arrived.
Arrived(c) == reached /\ Distance(c, source + Delta) <= Tolerance

\* One poll: a following error is tolerated until it has lasted for
\* following_error_confirm_s, which a later poll decides.
RelativePolls ==
  /\ At("rel_wait")
  /\ actual' = Counts
  /\ \/ /\ power # "fault" /\ ~error
        /\ following' = FALSE
        /\ IF Arrived(actual')
           THEN IF op = "spur" THEN Continues("zero")
                ELSE Returns("ok") /\ UNCHANGED guarded
           ELSE Continues("rel_wait")
        /\ Delivered /\ UNCHANGED motion_active
     \/ /\ power # "fault" /\ error
        /\ following' = TRUE
        /\ Continues("rel_wait") /\ Delivered /\ UNCHANGED motion_active
     \/ error /\ following /\ UNCHANGED following /\ Raises /\ Delivered
     \/ UNCHANGED following /\ Raises /\ (Delivered \/ Lost)
  /\ UNCHANGED <<driveVars, seen, status, second, source, intended>>

\* Mutant: a failed reference leaves the drive as it is.
KeepsPower == UNCHANGED driveVars /\ Delivered

\* disable_operation in the except clause of the spur gear's reference.
DisablesOperation ==
  \/ VoltageDisabled /\ Delivered
  \/ Lost /\ (VoltageDisabled \/ UNCHANGED driveVars)

ReleasesSpurGear ==
  /\ At("release")
  /\ DisablesOperation
  /\ Returns("failed")
  /\ UNCHANGED <<guarded, motion_active, localVars, intended>>

-----------------------------------------------------------------------------
Drive == DriveFindsEdge \/ DriveAcknowledges \/ DriveMoves \/ DriveHalts
           \/ DriveZeroes \/ DriveFaults

Bridge == HomeDrive \/ ReferenceSpurGear \/ AdjustHomedDrive
            \/ NativeStarts \/ NativePolls
            \/ TraverseStarts \/ TraversePolls \/ TraverseReadsInput
            \/ Halt \/ StopsByVoltage
            \/ ComputeMidpoint \/ MidpointStarts \/ MidpointPolls
            \/ ZeroStarts \/ ZeroPolls
            \/ Enables \/ RelativeStarts \/ RelativePolls \/ ReleasesSpurGear

Next == Drive \/ Bridge

Spec == Init /\ [][Next]_vars

-----------------------------------------------------------------------------
(* Properties.                                                             *)

\* Every variable has its type, and no motion of a Homing is commanded beyond the search
\* distance from the entry edge (homing_interval_max_travel_counts).
TypeOK ==
  /\ direction \in {1, -1}
  /\ axis \in -Reach .. Reach /\ origin \in -Reach .. Reach
  /\ {target, actual, second, source, intended} \subseteq Int
  /\ power \in {"off", "enabled", "fault"}
  /\ {reached, attained, error, moved, seen, following, motion_active, guarded}
       \subseteq BOOLEAN
  /\ motion \in Motions
  /\ op \in {"home", "spur", "adjust"} /\ pc \in Pcs
  /\ result \in {"none", "ok", "failed"}
  /\ status \in Statuses
  /\ losses \in 0 .. MaxLosses /\ stop_losses \in 0 .. losses
  /\ pc \in {"scan", "scan_input", "mid_wait"} /\ motion # "rest"
       => Distance(target, 0) <= MaxTravel

\* How far, in half counts, the new zero may be from the middle between the sensor's
\* edges: the tolerance, half a poll's travel, the rounding, and the sag under Method 37.
Slack ==
  2 * Tolerance + 2 * Sag + (IF op = "home" THEN Step + 1 ELSE 0)

\* A procedure that succeeds has made the intended position zero: the middle of the
\* sensor's true interval, whatever the polls saw of its edges, or the spur gear's
\* source plus its increment.  The old Target Reached bit, an ambiguous first sample and
\* a motion that never started do not get past the checks
\* (home_to_reference_interval_midpoint, _reference_spur_gear_after_arm_homing).
ZeroWhereIntended ==
  result = "ok" /\ op # "adjust" => Distance(2 * origin, intended) <= Slack

\* A procedure that succeeds leaves no motion behind, and an axis that reads zero: what
\* the handoff to CSP takes a homed drive for (mark_drive_homed).
LeavesAxisAtZero ==
  result = "ok" /\ op # "adjust" => motion = "rest" /\ Distance(Counts, 0) <= Tolerance

\* Whatever goes wrong while motion_active is set, the drive is not moving when the
\* exception leaves the procedure, even if one transfer of the halt is lost (the except
\* clause of home_to_reference_interval_midpoint).
GuardedFailureStops ==
  pc = "idle" /\ op = "home" /\ guarded /\ stop_losses <= 1 => motion = "rest"

\* A failed reference of the spur gear leaves it without voltage unless the
\* disable itself was lost (the except clause of _reference_spur_gear_after_arm_homing).
FailedReferenceReleases ==
  pc = "idle" /\ op = "spur" /\ guarded /\ stop_losses = 0 => power # "enabled"

=============================================================================
