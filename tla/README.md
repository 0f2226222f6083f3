# TLA+ specification of the RASCL bridge

RASCL is a four-drive EtherCAT manipulator: Drives 0 to 2 are the arm, the last
drive is the spur gear of the gripper. `rascl_faulhaber_bridge.py` owns the
EtherCAT master. It homes the drives over SDO, hands them over to cyclic
synchronous position (CSP) without letting go of them, and runs the cyclic
session for a ros2_control hardware interface. An operator script authorises
Cartesian motion, which a ROS node plans and executes. This directory specifies these
parts in TLA+ and checks them with TLC. Every safety property that TLC checks on a small
instance is also proved with TLAPS for every value of the constants.

In the rest of this file `BR` is
`src/src/rascl_hardware_interface/scripts/rascl_faulhaber_bridge.py`, `HW` is
`src/src/rascl_hardware_interface/src/rascl_hardware_interface.cpp`, `NODE` is
`src/src/rascl_wp3_ss26_group8/rascl_wp3_ss26_group8/wp3_tsk1.py`, and the guide is
`src/WP3_Physical_Hardware_Debug_Guide.md`.

## 1. The system

### Components

| Component | State | Operations |
|---|---|---|
| Bridge session (`BR`, `FaulhaberBus`, `RASCLFaulhaberBridge`) | `homed_drive_ids`, `homing_complete`, `spur_gear_reference_complete`, `deferred_csp_prepared`, `csp_active`, `pdo_error`, `target_counts`, `latest_states`, `pdo_thread`, `pdo_stop_event`, the master's state | ROS services (enable, disable, home one, home all, adjust home, set current arm home, go home) and TCP commands (ENABLE_ALL, DISABLE_ALL, HOME, GOTO_HOME, MOVE_ABS, MOVE_ALL, ENTER_CSP_ALL, EXIT_CSP_ALL, CSP_SETPOINT_ALL, GET_*) |
| PDO thread (`_pdo_loop`) | position in its cycle | exchange, validate, detect stalls, serve one staged SDO, fail, stop |
| Live mailbox (`request_spur_torque_limit`, `request_spur_contact_snapshot`, stall diagnostics) | `_spur_torque_*`, `_spur_contact_*`, `_live_diagnostic_*`, `current_spur_torque_limit_per_mille` | stage and wait, advance once per cycle, cancel |
| Stall monitor (`_detect_csp_stalls_locked`) | anchors and episode flags of each drive | one evaluation per cycle |
| One drive (`FaulhaberDrive`) | CiA 402 state, position, outstanding target, coordinate | enable, disable, moves, interval Homing, Method 37 re-zero, CSP configuration |
| Hardware interface (C++) | socket, lifecycle state, last commands, synchronisation flag | on_configure, on_activate, read, write, on_deactivate, send_command |
| Operator script (`src/rascl_debug.sh`) | target, plan and CSP-session files in `STATE_DIR` | set target (group 14), plan (9), execute (10), gripper (15), CSP launch (7) |
| WP3 task node (`NODE`, `trajectory.py`) | latest joint state, planned targets | plan, execute, verify |
| Kinematics, calibration | none | pure real arithmetic |
| Launch files, URDF, Docker | none | static configuration |

### How they interact

* `self.lock` of the node serialises the TCP thread and the ROS executor for
  every command that touches the drives. A handler holds it from its first
  statement to its last, so two handlers never interleave. Only the three services
  of the spur guard go around it: they stage a request under `pdo_lock` and wait on
  an event.
* `pdo_lock` serialises the bus. `enter_csp` holds it throughout; the PDO thread
  holds it for one cycle at a time, and releases it between an exception, the
  block that handles it and the `finally` block. Handlers run in both gaps.
* The TCP server serves one client at a time. The ROS executor is single-threaded.
* `exit_csp` holds `self.lock`, not `pdo_lock`, while it joins the PDO thread.
* The drives act by themselves: a motion ends, a drive faults, an unpowered axis sags.
* The hardware interface is the client of the TCP server. Every lifecycle callback and
  every control cycle is one or more requests, each waiting for its reply without a
  timeout; a lost connection is replaced silently by the next request.
* The two terminals of the operator script share nothing but files, and the script and the
  node share nothing but the command line and the exit status.
* The node learns of the arm through a subscription queue that it empties one
  joint state per `spin_once`.

### What is hard

Handlers are long sequences of SDO transfers any of which may raise; the bookkeeping
of references is spread over four flags; the handoff is one-way and may be tried
again after a failure in the middle; the PDO thread and `exit_csp` take the session down
from both sides, with a join that may time out; mailbox requests outlive the callers
that gave up on them. Homing trusts status bits that may be stale and a sensor that is sampled,
while any transfer may be lost. Connections end with requests under way, and sessions
outlive the clients that entered them. Authorisation files outlive the terminals
that wrote them. `PROJECT.json` lists each such hazard at its line with the
properties that would catch it.

### What makes each component correct

* Session: a CSP session, or a completed preparation for one, always has valid references.
  Nothing re-energises an arm axis once preparation has completed. Activation does not
  move a drive that was at rest. A failed loop takes the session down, no target is
  accepted after its error, and every handler returns.
* Mailbox: a caller gets the outcome of its own request; the reported torque limit is the
  applied one; nothing stays staged without a thread; requests are resolved.
* Stall monitor: a drive that stands still is reported in time, one that moves never is.
* Interval Homing: success means that zero is the middle of the true sensor interval, within the
  tolerances; every failure the code guards leaves the drive stopped.
* Hardware interface: no setpoint reaches a session other than the one its first
  command was synchronised with; replies stay aligned; a lost session is noticed.
* Plan gate: an execution is authorised only by the last plan, made for this target in this session.
* WP3 node: it returns, its commands approach the goal, and `reached=true` is true.

## 2. The modules

| Module | What it is |
|---|---|
| `BridgeSession` | handlers, handoff, PDO thread, exit, drives |
| `CspHandoff` | what the handoff promises: `homing`, then `prepared`, then `csp` and back |
| `HandoffRefinement` | `BridgeSession` with the mapping onto `CspHandoff` |
| `BridgeSessionProofs` | theorems about both: types, handoff, refinement |
| `SessionThreadProofs` | further theorems about `BridgeSession`: coordinates, prepared sessions, PDO threads |
| `LiveMailbox` | staged mailbox work of a running session |
| `LiveMailboxProofs` | theorems about it |
| `StallMonitor` | the stall detection of a cycle, with histories of samples |
| `StallMonitorProofs` | theorems about it |
| `IntervalHoming` | how one drive gets its zero: interval Homing, relative moves, Method 37 |
| `IntervalHomingProofs` | theorems about it |
| `BridgeClient` | the hardware interface, the TCP server and their connections, over an abstract CSP session |
| `BridgeClientProofs` | theorems about it |
| `TargetMotion` | the WP3 node, the trajectory, the arm and its joint states |
| `TrajectoryProofs` | what the trajectory is for every start, goal and duration |
| `PlanGate` | `TargetMotion` inside the two terminals of the operator script |
| `PlanGateProofs` | theorems about the node and the gate |
| `MCBridgeSession`, `MCHandoff`, `MCLiveMailbox`, `MCStallMonitor`, `MCIntervalHoming`, `MCBridgeClient`, `MCPlanGate` | symmetry sets and constant values for TLC |

### BridgeSession

A handler that holds `self.lock` is named by `pc`; `todo` holds the drives it has
still to visit, in index order. A request action (`EnableAll`, `HomeAll`, `EnterGate`,
`ExitCsp`, ...) is the acquisition of the lock with the handler's guards; one step per
drive follows (`EnableDrive`, `HomeDrive`, ...), with a disjunct for success
and one for an exception, after which the rest of the list is not visited. One visit of
a drive is atomic: what other threads can see of a half-done visit is covered by the
disjunct that fails, and nothing else may write to the drive meanwhile.

`enter_csp` is six pcs: `enter_configure` (limits, following-error monitor, torque),
`enter_prepare` (the checks of `_prepare_deferred_csp_locked`), `enter_hold` (enabling the
drives Homing did not, then mapping the image), `enter_select` (CSP mode drive
by drive, then the hold check and the caches), `enter_activate` (SAFE-OP, OP, CiA 402
wait, thread start). `EnterRaises` and `EnterActivateRaises` are its exceptions, with
everything a partial sequence may have left behind: the master in SAFE-OP without
`deferred_csp_prepared`, `target_counts` without `latest_states`, a SAFE-OP request that failed.
The first of these is a window of the code: `config_map` has mapped the image (`BR`:1830), a later step raises,
and `deferred_csp_prepared`, which every guard asks for, is still false. Properties that say "prepared" mean the
flag; section 6 says what the window allows.

`HOME` takes any integer. `Ids` are the indices that a Python list accepts, `Axis` the drive each one names: `HOME -2`
re-homes `drives[-2]` while the bookkeeping discards and adds -2, an id that no required drive has and that
`homed` therefore does not keep. An index of no drive (`HomeMissingDrive`) raises after the spur
reference is gone.

A PDO thread goes `running`, then `failed`, `handled`, `done` or `stopping`, `done`. Each state
is a place where it does not hold `pdo_lock`.

A drive is `power`, `pos`, `goal` and `zero`. `power` merges Ready to Switch On and Switched
On. `goal` is an outstanding Profile Position target, so that a motion that was
started and not waited for (MOVE_ABS, or a GOTO_HOME that timed out) is a state of
its own. `zero` records whether the coordinate was last set by a procedure that
succeeded (`set`), by none (`unknown`), or whether a procedure failed after it may have
moved (`doubtful`). `measured`, `settled` and `outlived` (the threads whose join timed out) are history
variables, read by properties only.

### LiveMailbox

Three actors: the ROS caller (`RequestTorque`, `RequestContact`, `Wakes`, `TimesOut`,
`Returns`), the PDO thread (`LoopChecks`, `LoopCycles`, `LoopRaises`, `LoopHandles`,
`LoopEnds`) and the TCP thread (`EnterCsp`, `EnterCspRaises`, `ExitBegins`, `ExitJoined`,
`ExitFinishes`). The torque queue is a position in the fixed list `TorqueOps`, because
the code only ever removes its head or puts it back; the contact queue is its length; the
diagnostic queue is the number of reads left to each drive, in any order. `limit` is the drive's own pair
of registers: a write may be taken, be ignored by the firmware, or take effect and
still raise.

### StallMonitor

`Cycle(delta)` is one evaluation, `delta` ticks after the one before: a drive settles,
makes progress, or lets its anchor age. `age` is the time since `_stall_anchor_ns`, cut off
where longer ages are alike. `SetTarget` is `set_csp_targets` between two cycles and
`Reset` the start of another session. `recent`, `still` and `emitted` are histories: what the
drive really did, independent of the anchors, for the properties to compare with.

### IntervalHoming

Two actors: one drive, and the bridge's procedure, one step per poll or transfer group.
`pc` follows the source: `native_*` is `home_to_reference_switch`, `traverse`, `scan`,
`scan_input`, `halt*`, `midpoint` and `mid_*` are `home_to_reference_interval_midpoint`,
`zero*` is `home_current_position`, `rel_*` is `move_relative_counts_and_wait`, and `stop_*`
and `release` are the two except clauses. A poll reads the status and the position, and the
input after them (`TraversePolls`, `TraverseReadsInput`), so the axis may be up to a
transfer further when the input is read. `Lost` is a transfer that raises, before or after it
took effect. A deadline may have passed at any poll.

`axis` is mechanical and `origin` is where the drive's zero is; a count is their
difference, so that a wrong zero is a state like any other. Target Reached (`reached`)
survives from one motion into the next until the drive acknowledges the new one.
`intended` is a history: twice the mechanical position that ought to become zero.

The module is the inside of the step `HomeDrive` of `BridgeSession`, whose
success `LeavesAxisAtZero` justifies.

### BridgeClient

`call` names the outstanding request and with it the rest of the callback: `ping` belongs to
`on_configure`; `enter`, `first_read` and `lock` to `on_activate`; `read` and `write` to a control
cycle; `exit` to `on_deactivate`. A connection has the requests and replies in flight and
what the server sees of its peer: open, ended, or reset because it was closed with a
reply unread. The server accepts in order, serves one connection, and writes its reply in a
step of its own. The session is `BridgeSession` seen from its commands; `rejected` is
an activation that failed after the caches were filled. `basis` and the fields of a request
that repeat it are histories: the session and the position a command rests on. `Clamp` is `clamp_command`,
which `on_init` and `write` apply and `on_activate` does not: positions reach beyond `Lower` and
`Upper`, so an axis may be measured outside its joint limits and its first command differ from the measurement.

### TargetMotion and PlanGate

The node is one process per run, from `NodeStarts` to `Exits`; the actions are the loops of `plan()`
and `execute()`, one iteration each. `queue` is the subscription's queue, `latest` what the callback
stored. Trajectories are computed: the minimum-jerk polynomial over integer positions,
rounded down, with durations in half sample periods so that the tie of `round` occurs.

`PlanGate` adds terminal T2 (`session`, `shell`) and T3 (`menu`) with the three state files. A
group is cut wherever the other terminal, or a kill, could make a difference. Two histories
follow the guide's definition (guide:262) and not the files. `planned` is the target of the plan the present session last
accepted, until the session ends, another plan or a gripper action begins, the plan is removed or a motion
completes. `retargeted` says that a target other than that one was saved since, from the moment of
the save (`src/rascl_debug.sh`:901) on, whether or not the plan was removed after it. The guide's
authorisation is `Authorised`: planned and not retargeted.

### Modelling assumptions

* A drive leaves Operation Enabled on its own to Fault or Switch On Disabled only. A
  drive that fell back to Switched On would be re-enabled by the next cyclic Enable Operation.
* `Counts` are positions the properties tell apart, not encoder counts; range checks are
  left out.
* An unknown TCP command, a wrong number of arguments or a refused guard changes no state, and is no action.
  A command that raises after it has changed something is (`HomeMissingDrive`, and every failing disjunct).
* `LiveMailbox` has one PDO thread at a time. A thread that outlives its join beside a
  successor is in `BridgeSession` (`JoinMayTimeOut`).
* A success reported to a torque caller may concern a session that was replaced between the
  event and the return; `WokenByOwnOutcome` says so through `entered`.
* `IntervalHoming`: the sensor is ambiguous only at an edge, where it may read either value any number of
  times. A halted drive does not resume its target when Halt is cleared. Reading and restoring
  the profile parameters, and the int32 check of the search target, are left out. All three
  tolerances are one constant.
* `HomingAssumption`: an axis travels no further between two transfers than the interval is wide
  (`Step <= Width`), and the native search stops within the travel that is searched next
  (`Overshoot <= MaxTravel`). The code configures both, with a poll of 10 ms, homing speeds of at most 200 rpm and
  travels of 100000 and 300000 counts, and verifies neither. The first is necessary: with an interval of 2
  and 4 counts between polls TLC finds a success whose second edge is off by more than a poll, so
  that `ZeroWhereIntended` fails. `Reach` only has to contain what the axis can do.
* `BridgeClient`: the controller manager cycles hardware that is active and stops after an error, without
  calling `on_deactivate`. There is one drive, in CSP mode. `ClientAssumption` has the joint limits among the
  positions, in order. There is a single client; a second one would wait in the backlog.
* `TargetMotion`: one joint, whose TCP is its position. The target is the one after the
  board compensation. Joint states name every joint. What inverse kinematics finds is any
  position within its tolerance, or nothing. `MotionAssumption` has `Positions` an interval, so that
  what lies between two positions is one. `Hold >= Depth` is the configuration's 25 against 10.
* `PlanGate`: one operator terminal T3, as the guide assigns all motion groups to it. Process ids are
  not reused. Two launches in T2 do not overlap. A file is written whole.
* External actions (`DriveArrives`, `DriveDrops`, `DriveSags`, `BusFallsBack`) are
  drives and slaves, which are outside the repository.

## 3. The runs

| Run | Question | Instance |
|---|---|---|
| `session_homing` | Do references, holds and one-way gates survive every order of commands, failures, loop errors and exits? | one arm drive and the spur gear, 2 positions, 1 activation |
| `session_stale` | The same gate with an ignored spur gear, threads that outlive their join, and a second session: do the flag and the threads agree? | 2 drives, 1 position, 2 activations, joins may time out |
| `session_live` | Does every handler return, does a failed loop deactivate, and is the whole an implementation of `CspHandoff`? | 2 drives, 1 position, 2 activations, joins succeed |
| `mailbox` | Outcomes, the cached limit, stranded requests | three limits, 3 attempts, 2 contact or diagnostic reads |
| `mailbox_live` | Are staged requests resolved, and is a read of a second stalled drive lost? | 2 drives, 1 limit, 2 attempts, 2 reads |
| `stalls` | Is every drive that stands still reported, and none that moves? | 4 positions, timeout of 2 ticks, cycles of 1 or 2 ticks |
| `homing` | Is zero where it should be, and does the drive stop when the procedure fails? | both directions, interval of 3, polls up to 2 counts apart, 2 lost transfers |
| `client` | Do replies, setpoints and sessions stay together over failures? | 3 positions, one beyond the joint limits, 3 connections, 2 CSP sessions, 1 fault |
| `target` | Is every executed motion planned, and is its verdict true? | 3 positions, 2 targets, queue and hold of 2, 1 displacement, 2 kills |
| `alias_finding`, `jump_finding`, `stall_finding` | violations, see section 6 | 2 drives; 5 positions |

What each property says is in the comment above it. The ones with most to them:

* `HandoffArmed`: from the gate of ENTER_CSP_ALL on, and for as long as
  `deferred_csp_prepared` is set, `homed_drive_ids` covers the required drives and the spur reference holds.
* `SettledDrivesHeld`: a drive that was enabled and at rest when its position was read is
  still at its target when the first PDO goes out, several handler steps later.
* `HomedKeepZero`: no step takes the zero of an axis that stays counted as homed, except a HOME that
  names it by an index counted from the end and a `set_current_arm_home` that raises. `HomedHaveZero`, which has no
  exception for the first, is violated by the code; section 6 describes both.
* `NoReenergise`, `NoProfileMotionOncePrepared`: what `_ensure_non_csp_operation` is for once the flag is set.
* `NoTargetsAfterError`: no setpoint changes a session that has recorded an error, even in
  the gap where `csp_active` is still set.
* `ActiveHasThread`, `CyclingIsActive`: `csp_active` and the thread agree in both directions, with joins that may
  time out. The second has one exception, which the code has too: once a thread that
  `exit_csp` gave up on has run its late `finally`, the flag of the next session may be down while its thread cycles.
* `StillIsReported`, `ReportsAreStalls`: completeness and soundness of the anchors against the
  samples themselves, with targets that move and cycles that overrun.
* `ZeroWhereIntended`: a Homing that reports success has put zero at the middle of the sensor's true
  interval, whatever it saw of its edges. The bound `Slack` is the sum of what the code cannot see:
  one poll's travel, the tolerance, the rounding, and the sag while Method 37 switches on. It is tight.
* `GuardedFailureStops`: with `motion_active` set, any exception ends with the drive at rest, even if one
  transfer of the halt is lost. Outside that flag the code gives no such promise (section 6).
* `NoStaleSetpoint`, `ActivationHolds`: a setpoint is applied only in the session that its activation
  measured, and until a controller commands it is the measurement or, from the first cycle on, the joint limit
  nearest to it; also if a killed client left its session running, or a later activation follows a deactivation.
* `LossNoticed`: an active interface whose session ended goes inactive or to an error, although `exit_csp`
  erases the reason.
* `ReachedMeansArrived`: freshness in `NODE` is the time of receipt, so a joint state from the middle of the
  trajectory could pass for a fresh one; the final hold is longer than the queue is deep, and that is why it cannot.
* `ExecutedAsPlanned`, `OneKillKeepsAuthorisation`: over every order of both terminals' steps and kills, group 10
  executes only what the session planned last; and what it executes is authorised in the guide's sense unless
  two terminals were killed. Two kills are enough to break it (section 6).
* `ImplementsHandoff`: every step of every actor is a step of the abstract handoff or a stutter.

`CHECK_DEADLOCK` is off in `client` only: its connections, sessions and faults are bounded, so a behaviour
may come to its end; that calls return there is a liveness property of its own.

### Bounds

* Drives: the guards quantify over three sets, the drives of Homing, of CSP and the spur gear. Two
  drives give one of each. With a single arm drive the aggregate is never half complete; that case, and
  the standalone `csp` mode, are covered by the theorems, which hold for any number of drives and for every mode.
* `Counts`: two values are enough for "where it was" and "elsewhere"; runs whose properties do not
  read positions have one.
* `Threads`: the identities are not reused, so they bound the number of CSP
  sessions of a behaviour. One covers a session, its failure, its exit and any number of
  failed re-entries; two cover what a session does to the next.
* Mailbox: three limits are the normal one and those of the two guards, three
  attempts are the code's. 23 diagnostic reads become 2 or 3: the code treats all but the last
  alike. The liveness run is smaller; its argument does not depend on the number of attempts, and
  its two drives are what it takes for one stall to interrupt the reads of another.
* Stall monitor: one drive, as drives are evaluated independently. Thresholds of two counts and a timeout
  of two ticks are the smallest for which moving by less than the threshold, and a cycle
  that straddles the timeout, exist. The theorems remove the bounds.
* Interval Homing: an interval wider than a poll's travel, a search distance beyond it, an overshoot of the
  native search past the interval's far edge, and an increment in the negative direction, as in the
  code's configuration. Two lost transfers are one more than `GuardedFailureStops` tolerates in the halt.
* Client: three connections allow an activation after a failure and another after that; two sessions allow a
  stale one. One fault is a kill, an interruption or a restart of the bridge at any step;
  ends of sessions are not counted as faults. Three positions are two joint limits and one beyond the
  upper; beyond the lower is its mirror image.
* Target: a queue of two and a hold of two iterations keep the relation the defaults have (10 and 25). Three positions
  are one between start and goal; a span of 5 half periods is a tie. Two shells are a stale session file. Two kills
  are what two interrupted groups take.

### Fairness

* `BridgeSession`: weak fairness of the step of the handler that holds `self.lock`, because each
  wait in a handler has a timeout; and of a PDO thread that has been told to
  stop or has failed. A running thread is under no obligation to fail, drives to arrive, or clients to call.
* `LiveMailbox`: weak fairness of the PDO thread, which runs at the cycle time, and of an
  `exit_csp` that has begun. Callers and entry are not fair.
* `BridgeClient`: weak fairness of the server thread, of the interface once a reply or the end of its
  connection is there, and of the control cycle of active hardware, which the controller manager runs at
  its rate. PDO cycles, failures and new activations are not fair.
* `PlanGate`: weak fairness of the node's own thread, whose every wait has a deadline. No joint state is promised.
* A contact snapshot is served after torque requests, so `ContactResolves` assumes that these cease.

## 4. What is proved

Every invariant and every action property of the passing runs is a theorem. Each proof has one
inductive invariant per question, which TLC checked on the run's instance before it was proved, one
step per action, and a temporal step at its end. The assumptions are the named ASSUMEs of
the modules and nothing else; TLC evaluates them on every run.

### The session

`BridgeSessionProofs` proves, for any number of drives (at least two), any positions, any number
of threads and each of the three modes:

| Theorem | States |
|---|---|
| `TypeCorrect` | `TypeOK` |
| `HandoffInvariant` | the inductive invariant `HandoffInv` |
| `HandoffIsArmed` | `HandoffArmed` |
| `NeverReenergised` | `NoReenergise` |
| `SettledDrivesAreHeld` | `SettledDrivesHeld` |
| `BridgeImplementsHandoff` | `ImplementsHandoff` when `ControlMode = "homing_csp"` |

The only assumption is `SessionAssumption`, the conditions under which `FaulhaberBus.__init__` does not
raise plus the distinctness of the sentinels; TLC evaluates it on every run.

`HandoffArmed` is not inductive: a handler that passed its guard could still be
re-homing when preparation completes. `HandoffInv` adds

* `TypeInv`: `TypeOK`, and a non-empty target image at `enter_activate`, without which
  following the targets would be undefined;
* `SdoBeforePrepared`: a handler's guard, checked once at its start, still holds at its later
  steps. This is where `self.lock` does its work;
* `EnterKeepsHold`: `enter_csp` only enables drives that Homing does not reference;
* `HomingAggregate`: `homing_complete` is what `homed_drive_ids` says;
* `PreparedInOrder`: active implies prepared, prepared implies armed.

`SettledInv` adds to it that a settled drive has no outstanding goal between capture and
first PDO. The refinement uses `HandoffInv` and the lemma that only `EnterMapPdos` completes
preparation and only `EnterActivate` activates.

`SessionThreadProofs` goes on from there, under the same assumption:

| Theorem | States |
|---|---|
| `HomedAxesKeepZero` | `HomedKeepZero` |
| `PreparedMeansNoProfileMotion` | `NoProfileMotionOncePrepared` |
| `FailedSessionKeepsTargets` | `NoTargetsAfterError` |
| `IgnoredDriveStaysUnpowered` | `IgnoredDriveUnpowered` |
| `ActiveSessionHasThread` | `ActiveHasThread` |
| `CyclingThreadIsActive` | `CyclingIsActive` |

`IgnoredDriveUnpowered` is inductive relative to `HandoffInv`. The three action properties say of a
step that, where `HandoffInv` holds, the handler whose step it is cannot be one that writes what they protect: a
profile target, a coordinate, the image, or the coordinate of an axis it leaves counted. `ActiveHasThread` is inductive
relative to the types. `CyclingIsActive` is not: `SessionInv` adds that, until a thread in `outlived` has
ended, every live thread is the one the bus refers to or is in `outlived`, and that `exit_csp` goes past its join
with a live thread only if that one is.

### The mailbox

`LiveMailboxProofs` proves, for any drives, limits, attempts and reads (`MailboxAssumption`):

| Theorem | States |
|---|---|
| `TypeCorrect` | `TypeOK` |
| `NoStallReadIsLost` | `StallReadsAccounted` |
| `NothingIsStranded` | `NoneStranded` |
| `WokenFindsOwnOutcome` | `WokenByOwnOutcome` |
| `ReportedLimitIsApplied` | `CachedIsApplied` |

`LiveInv` accounts for the reads of each drive: all queued or recorded, or none. `StageInv` says who will
take care of a staged request at each place of the loop and of `exit_csp`; it needs that a thread which has
handled its error left the error behind, and that only an exit sets the stop event of an active session.
`OutcomeInv` relates what three threads hold: the limit staged is the waiting caller's, the event
means that the last outcome stands, no session has been entered since a pending request was staged, and the readback
of the positive side is current when the negative side is compared. The last is what lets one successful
verification speak for both registers.

### The stall monitor

`StallMonitorProofs` proves, for all thresholds, timeouts and cycle times (`StallAssumption`, the range
checks of `FaulhaberBus.__init__`):

| Theorem | States |
|---|---|
| `StallTypeCorrect` | `TypeOK` |
| `StillDrivesAreReported` | `StillIsReported` |
| `NoFalseReport` | `ReportsAreStalls` |

Completeness rests on `LastNearAnchor` (the last sample is within both progress thresholds of the anchor,
so an unchanged sample makes no progress) and `AnchorOlderThanStill`. Soundness rests on
`CalmSinceAnchor` (nothing since the anchor moved away from it or settled),
`SampledSinceAnchor` (no gap longer than a cycle) and `AnchorIsSample`, which together
give a sample that is old enough.

### Interval Homing

`IntervalHomingProofs` proves, for any interval, speed, tolerance, sag and number of lost transfers
(`HomingAssumption`, section 2):

| Theorem | States |
|---|---|
| `HomingInvariant` | the inductive invariant `Inv` |
| `TypeCorrect` | `TypeOK` |
| `ZeroIsWhereIntended` | `ZeroWhereIntended` |
| `SuccessLeavesAxisAtZero` | `LeavesAxisAtZero` |
| `FailureStops` | `GuardedFailureStops` |
| `FailureReleases` | `FailedReferenceReleases` |

`Inv` follows the procedure. `DriveOK` is what the drive may be doing at each pc and where its motion leads,
whatever an outdated Target Reached says. `EntryOK`: when native homing
reports success, the entry edge is zero. `ScanOK`: a poll that saw the sensor active was inside the interval, give or take the
travel of one poll. `EdgeOK` follows: the second edge is within `Step` of the true one. `NearOK` carries that bound, the tolerance, the
rounding of the midpoint and the sag of Method 37 to the position that becomes zero; their sum is `Slack`.
`StopOK` follows the except clauses: which of their transfers was lost, and whether the drive may still move.

### The hardware interface

`BridgeClientProofs` proves, for any positions, any joint limits among them and any number of connections, sessions and faults
(`ClientAssumption`):

| Theorem | States |
|---|---|
| `ClientInvariant` | the inductive invariant `Inv` |
| `TypeCorrect` | `TypeOK` |
| `RepliesStayAligned` | `RepliesAligned` |
| `SetpointsAreFresh` | `NoStaleSetpoint` |
| `ActivationIsHeld` | `ActivationHolds` |

The argument has three layers. `WireOK`: a connection is used once, its peer is up only while it is the
interface's, and it carries one message, a request or a reply. `AlignedOK` and `PhaseOK`: that message belongs to
the outstanding call, and once the session has been asked for, the server has accepted the connection.
`SetpointOK` and `BasisOK`: so a setpoint on a connection that is being served, and the basis of an
active interface, belong to the session that is cycling, if one is. That clamping twice is clamping once
(`ClampFacts`) keeps an uncommanded axis at one place from the first cycle on. The case that makes it hard is a
client that is killed with a setpoint in flight: its request may still be served after the next
client has connected, but not after the session was left and entered again, because that takes a request on a
connection which the server accepts only once the old one has ended.

### The trajectory, the node and the plan gate

`TrajectoryProofs` and `PlanGateProofs` prove, for any interval of positions, any targets, durations and
tolerances, any queue that is not longer than the hold, and any number of shells, kills and displacements
(`MotionAssumption`, `GateAssumption`):

| Theorem | States |
|---|---|
| `TrajectoryApproachesGoal` | the trajectory is a sequence of positions, ends at the goal and never turns back |
| `GateInvariant` | the inductive invariant `Inv` of node and gate |
| `TypeCorrect` | `TypeOK` |
| `CommandsNeverTurnBack` | `CommandsApproachGoal` |
| `ReachedIsTrue` | `ReachedMeansArrived` |
| `ExecutionWasPlanned` | `ExecutedAsPlanned` |
| `OneKillIsHarmless` | `OneKillKeepsAuthorisation` |

The minimum-jerk polynomial is written with products over a common denominator. The provers show that it lies
between 0 and 1 and rises; `\div` preserves both, by the inequalities that characterise it
(`DivBounds`, `DivRises`). The sample count and the replaced last sample add the ends.

`MotionInv` is the node's part. Its core is `ArrivalOK`: during the hold, every joint state that waits in the queue
deeper than the iterations left to hold was published after the trajectory, so when the verification starts none
older is left. `GateInv` is the script's part: only groups 9 and 10 have a node running, and a plan file of
the present shell has the signature that is planned. Its part `RetargetOK` counts kills: a target that no longer
matches its plan takes one between two groups, and one that matches it again takes two. The node is proved against a summary of what the terminals
can do to it (`MotionNext`), and the gate against one of the node, so that neither sees the other's details.

### What is only model-checked

* Liveness: `HandlersReturn`, `FailedLoopDeactivates`, `TorqueResolves`, `ContactResolves`, `CallReturns`, `LossNoticed`
  and `NodeReturns`. Fairness and ENABLED are outside this prover's reach.
* That an invariant is tight, and the three findings of section 6: these are counterexamples, which TLC produces.

## 5. What is not modelled

* The CSP configuration of a drive (limit mappings, following-error monitor, torque limits): straight
  write-then-verify sequences that no other actor can reach into. `BridgeSession` keeps that each may raise.
* The stall monitor together with the mailbox: in `LiveMailbox` any drive may stall in any cycle.
* `close()` and `destroy_node`, which run beside the TCP thread while the process ends.
* Profile mode and fake hardware of the hardware interface; its unit conversion and velocity estimates.
* The groups of the operator script that only build, test, inspect or call a service of the bridge.
* DigOut1, diagnostics text, read-only commands: no control depends on them.
* Kinematics and calibration: real arithmetic. Of `inverse_tcp` the tolerance of its result is kept (`IkGoals`).
* Launch files, robot description, containers: static configuration; their parameters are the
  constants of `BridgeSession`.

## 6. Findings

* `alias_finding`: the docstring of `mark_drive_homing_started` promises to "Invalidate one axis until its
  current Homing attempt succeeds." (`BR`:1519). `HOME -2` invalidates the id -2 and homes drive `drives[-2]`. When that
  fails, the axis still counts as homed, with an unknown coordinate.
* `jump_finding`: the comment in `enter_csp` says that the measured defaults keep activation from
  commanding a jump. A MOVE_ABS may still be running when positions are measured. It ends
  during the SDO work that follows, and the first PDO commands the drive back. For
  drives at rest the claim holds, and is proved (`SettledDrivesAreHeld`).
* `stall_finding`: the hardware interface's README says that an error of at least 25000 counts with less than
  100 counts of progress for 500 ms emits `CSP_STALL_DETECTED`. A drive that was reported, got away
  by more than the progress threshold and stalled again far from its target is not reported again,
  since only a small error takes it out of `_stall_reported_drive_ids`.

Four more disagreements are in the models, as exceptions that the properties of the passing runs name or as
behaviours they leave open:

* `set_current_arm_home` is to "Define the current Drive 0-2 positions as this session's Home zero." (`BR`:3599).
  When Method 37 fails on a drive after it began, or reads back a position that is not zero, the axis has
  neither its old zero nor a verified new one; it stays in `homed_drive_ids`, and the handoff stays armed. This
  is the second exception of `HomedKeepZero`.
* The hardware interface's README says that the fine adjustment is rejected "after CSP
  preparation has begun", and that `set_current_arm_home` has the same requirements (173, 183). When a step after `config_map`
  raises, the image is mapped, `deferred_csp_prepared` is false, and the service redefines the arm's Home. HOME, moves
  and ENABLE_ALL are accepted too: all ask for the same flag. `EnterRaises` has the window; that the references
  are valid whenever a session is entered later is `HandoffArmed`.
* The guide says that authorisation expires when the target changes (guide:263). Group 14 saves the target
  before it removes the plan (`src/rascl_debug.sh`:901, 931). Killed in between, it leaves a plan for
  another target, which group 10 refuses. When that happens twice, back to the first target, the
  old plan matches again and group 10 executes it. `OneKillKeepsAuthorisation` therefore excludes the second kill.
* A comment in `on_init` says that activation overwrites the initial command "with the measured position
  to avoid jumps." (`HW`:152). `on_activate` does, but `write` clamps the command to the joint limits, so
  an axis measured outside them moves to the limit in the first cycle, without a command of any controller.
  `NoStaleSetpoint` says so.

What the models allow, and no document of the repository denies, is not a finding; a maintainer may want to know:

* A drive keeps moving after a failed Homing in four windows in which `motion_active` is not set: the
  transfer that starts the traversal is lost on its way back (`BR`:737), a transfer is lost while the
  native search is polled (`BR`:570), the midpoint tolerance fails after a stale Target Reached
  (`BR`:809), and a failed adjustment, whose caller stops nothing.
* A client that is closed with a reply unread makes `readline` raise in the TCP server's thread (`BR`:3870). Nothing
  catches it, and the bridge serves no client until it is restarted.
* After an activation that was rejected late, GET_ALL answers from the caches the attempt left.
* An interface that fails leaves the CSP session running: no EXIT_CSP_ALL is sent on an error.
* Group 10 plans again from the live state, so the trajectory it executes is not the one whose
  CSV group 9 checked. `save_plan_state` stamps a plan with the session that is current when it is saved.
* A thread that outlives its join (`BR`:2770) clears `csp_active` in its `finally` block (`BR`:2720) whenever it ends, so
  it may take down the flag of a session that was entered since, whose own thread then cycles without it.

## 7. Plan

In this order:

1. `BridgeSession`, `CspHandoff`, `LiveMailbox`, `StallMonitor`, with the proofs of the handoff and of the
   stall monitor: done.
2. `IntervalHoming`, `BridgeClient`, `TargetMotion` and `PlanGate`: done.
3. Proofs of every safety property of the runs: done. The theorems about `LiveMailbox`, `IntervalHoming` and
   `BridgeClient` stand beside those of `BridgeSession`, each under its own assumptions.
4. `close()` beside a handler, in `BridgeSession`, and the theorems that have to survive it.
5. `BridgeClient` has an abstract session, `BridgeSession` abstract clients, and `HomeDrive` abstracts `IntervalHoming`.
   The links are stated in prose; a refinement of the abstract session by `BridgeSession` would state them as theorems.
