---------------------------- MODULE BridgeSession ----------------------------
(***************************************************************************)
(* The EtherCAT session of rascl_faulhaber_bridge.py: Homing over SDO, the *)
(* one-way handoff to cyclic synchronous position (CSP), the PDO thread    *)
(* that runs the session, and the exit that takes it down.                 *)
(*                                                                         *)
(* Three kinds of actor take steps.  A handler (a ROS service or a TCP     *)
(* command) holds the node's self.lock from its first step to its last, so *)
(* at most one is between two of its steps: pc names it and todo holds the *)
(* drives it has still to visit.  PDO threads run beside it, one cycle per *)
(* acquisition of pdo_lock, which enter_csp holds throughout.  The drives  *)
(* arrive, drop out of Operation Enabled or sag on their own.              *)
(*                                                                         *)
(* A drive is abstracted to: power (its CiA 402 state), pos (0x6064), goal *)
(* (an outstanding Profile Position target, or NoGoal) and zero (whether   *)
(* its coordinate was last set by a referencing procedure that succeeded). *)
(* An SDO exception may end a sequence after any of its writes.            *)
(***************************************************************************)
EXTENDS Integers, FiniteSets

CONSTANTS
  NumDrives,       \* len(slave_indices); the last drive is the spur gear
  ControlMode,     \* the control_mode parameter
  IgnoreSpur,      \* ignore_spur_gear_in_csp
  SkipSpurHoming,  \* skip_spur_gear_homing
  Counts,          \* the encoder positions the model tells apart
  NoGoal,          \* no Profile Position motion outstanding
  Threads,         \* identities of PDO threads: bounds the CSP sessions of a run
  NoThread,        \* pdo_thread is None
  JoinMayTimeOut   \* whether thread.join may give up on a thread that is alive

Drives == 0 .. NumDrives - 1
Spur == NumDrives - 1
ArmDrives == Drives \ {Spur}

\* The indices Python accepts for the list of drives, and the drive each one names:
\* those below zero count from the end.
Ids == -NumDrives .. NumDrives - 1
Axis(id) == IF id < 0 THEN id + NumDrives ELSE id

IgnoredCsp == IF IgnoreSpur THEN {Spur} ELSE {}
RequiredCsp == Drives \ IgnoredCsp
RequiredHoming == IF SkipSpurHoming THEN ArmDrives ELSE Drives
NonHomingCsp == RequiredCsp \ RequiredHoming

ASSUME SessionAssumption ==
  /\ NumDrives \in Nat /\ NumDrives >= 2
  /\ ControlMode \in {"profile", "csp", "homing_csp"}
  /\ IgnoreSpur \in BOOLEAN /\ SkipSpurHoming \in BOOLEAN
  /\ JoinMayTimeOut \in BOOLEAN
  /\ IgnoreSpur => SkipSpurHoming    \* FaulhaberBus.__init__ raises otherwise
  /\ 0 \in Counts
  /\ NoGoal \notin Counts
  /\ NoThread \notin Threads

\* "switched_on" stands for Ready to Switch On and Switched On, from which the
\* controlword Enable Operation energises a drive; "disabled" for Switch On Disabled.
PowerStates == {"disabled", "switched_on", "enabled", "fault"}
ZeroStates == {"unknown", "set", "doubtful"}
ThreadStates == {"unborn", "running", "failed", "handled", "stopping", "done"}

\* The pcs at which enter_csp holds pdo_lock.
EnterPcs == {"enter_configure", "enter_prepare", "enter_hold", "enter_select",
             "enter_activate"}
HomePcs == {"home_one", "home_all", "home_tcp"}
Pcs == {"idle", "enable", "disable", "goto", "spur", "rezero", "exit_join",
        "exit_finish"} \cup HomePcs \cup EnterPcs

VARIABLES
  homed,                          \* homed_drive_ids; an id below zero counts nowhere
                                  \* and is not kept
  homing_complete,
  spur_gear_reference_complete,
  deferred_csp_prepared,
  csp_active,
  pdo_error,                      \* pdo_error is not None
  target_counts,                  \* <<>> or one target per drive
  latest_states,                  \* <<>> or one position per drive
  pdo_thread,                     \* the thread the bus refers to, or NoThread
  thread,                         \* what each PDO thread is doing
  pdo_stop_event,
  outlived,                       \* history: threads whose join timed out
  master,                         \* EtherCAT state of the master
  power, pos, goal, zero,         \* the drives
  pc, todo,                       \* the handler that holds self.lock
  initial_targets,                \* enter_csp's local of that name
  measured,                       \* history: initial_targets were read from 0x6064
  settled                         \* history: drives at rest when they were read

sessionVars == <<homed, homing_complete, spur_gear_reference_complete>>
busVars == <<csp_active, pdo_error, target_counts, latest_states>>
threadVars == <<pdo_thread, thread, pdo_stop_event, outlived>>
driveVars == <<power, pos, goal, zero>>
enterVars == <<initial_targets, measured, settled>>
vars == <<sessionVars, deferred_csp_prepared, busVars, threadVars, master,
          driveVars, pc, todo, enterVars>>

TypeOK ==
  /\ homed \in SUBSET Drives
  /\ homing_complete \in BOOLEAN
  /\ spur_gear_reference_complete \in BOOLEAN
  /\ deferred_csp_prepared \in BOOLEAN
  /\ csp_active \in BOOLEAN
  /\ pdo_error \in BOOLEAN
  /\ target_counts \in [Drives -> Counts] \cup {<<>>}
  /\ latest_states \in [Drives -> Counts] \cup {<<>>}
  /\ pdo_thread \in Threads \cup {NoThread}
  /\ thread \in [Threads -> ThreadStates]
  /\ pdo_stop_event \in BOOLEAN
  /\ outlived \in SUBSET Threads
  /\ master \in {"preop", "safeop", "op"}
  /\ power \in [Drives -> PowerStates]
  /\ pos \in [Drives -> Counts]
  /\ goal \in [Drives -> Counts \cup {NoGoal}]
  /\ zero \in [Drives -> ZeroStates]
  /\ pc \in Pcs
  /\ todo \in SUBSET Ids
  /\ initial_targets \in [Drives -> Counts]
  /\ measured \in BOOLEAN
  /\ settled \in SUBSET Drives

\* FaulhaberBus.__init__, connect and the node's constructor: nothing homed, no
\* PDO image unless the mode is csp, every drive unpowered at some position.
Init ==
  /\ homed = {}
  /\ homing_complete = FALSE
  /\ spur_gear_reference_complete = FALSE
  /\ deferred_csp_prepared = FALSE
  /\ csp_active = FALSE
  /\ pdo_error = FALSE
  /\ target_counts = <<>>
  /\ latest_states = <<>>
  /\ pdo_thread = NoThread
  /\ thread = [t \in Threads |-> "unborn"]
  /\ pdo_stop_event = FALSE
  /\ outlived = {}
  /\ master = IF ControlMode = "csp" THEN "safeop" ELSE "preop"
  /\ power = [d \in Drives |-> "disabled"]
  /\ pos \in [Drives -> Counts]
  /\ goal = [d \in Drives |-> NoGoal]
  /\ zero = [d \in Drives |-> "unknown"]
  /\ pc = "idle"
  /\ todo = {}
  /\ initial_targets = [d \in Drives |-> 0]
  /\ measured = FALSE
  /\ settled = {}

-----------------------------------------------------------------------------
(* Guards and helpers.                                                     *)

AllEnabled(S) == \A d \in S : power[d] = "enabled"

ThreadAlive == pdo_thread # NoThread /\ thread[pdo_thread] # "done"

\* Mutant: the check on deferred_csp_prepared is missing.
EnsureNonCspWithoutPrepared == ~csp_active /\ ControlMode # "csp"

\* _ensure_non_csp_operation does not raise.
EnsureNonCspOperation ==
  /\ ~csp_active
  /\ ControlMode # "csp"
  /\ ~deferred_csp_prepared

\* Mutant: ENTER_CSP_ALL does not ask for the spur gear's reference.
SpurReferenceForgotten == TRUE

\* _require_spur_gear_reference_for_csp does not raise.
SpurReferenceSatisfied ==
  ControlMode = "homing_csp" /\ ~IgnoreSpur => spur_gear_reference_complete

\* The drives of a list are visited in index order.
IsNext(d) == d \in todo /\ \A e \in todo : d <= e

\* A handler that visits the drives of S in turn acquires self.lock.
Begin(name, S) ==
  /\ pc = "idle"
  /\ pc' = name
  /\ todo' = S
  /\ UNCHANGED <<sessionVars, deferred_csp_prepared, busVars, threadVars, master,
                 driveVars, enterVars>>

\* The visit of drive d ends well; the handler returns after the last one.
Advance(d) ==
  /\ todo' = todo \ {d}
  /\ pc' = IF todo' = {} THEN "idle" ELSE pc

\* The handler raises: the remaining drives are not visited.
Abandon == pc' = "idle" /\ todo' = {}

\* Drive d is left by a sequence of SDO writes in power state p with goal g.
LeaveDrive(d, p, g) ==
  /\ power' = [power EXCEPT ![d] = p]
  /\ goal' = [goal EXCEPT ![d] = IF p = "enabled" THEN g ELSE NoGoal]

\* Where the controlwords Enable Operation and Disable Voltage take a drive in p.
Energised(p) == IF p = "switched_on" THEN "enabled" ELSE p
Released(p) == IF p = "fault" THEN "fault" ELSE "disabled"

\* A statusword, mailbox or transition error ends a sequence on drive d.
SequenceFails(d) ==
  \E p \in PowerStates, g \in {goal[d], NoGoal} : LeaveDrive(d, p, g)

-----------------------------------------------------------------------------
(* Enable, disable and Profile Position commands.                          *)

\* on_enable_all (the homing-required drives) and TCP ENABLE_ALL (every drive).
EnableAll ==
  \E S \in {RequiredHoming, Drives} :
    EnsureNonCspOperation /\ Begin("enable", S)

\* enable_operation: fault reset, mode, Shutdown, Switch On, Enable Operation.
\* Shutdown ends any Profile motion.
EnableDrive(d) ==
  /\ pc = "enable" /\ IsNext(d)
  /\ \/ LeaveDrive(d, "enabled", NoGoal) /\ Advance(d)
     \/ SequenceFails(d) /\ Abandon
  /\ UNCHANGED <<sessionVars, deferred_csp_prepared, busVars, threadVars, master,
                 pos, zero, enterVars>>

\* on_disable_all and TCP DISABLE_ALL while no CSP session is active: SDO
\* disable_operation drive by drive, in every control mode.
DisableAll == ~csp_active /\ Begin("disable", Drives)

DisableDrive(d) ==
  /\ pc = "disable" /\ IsNext(d)
  /\ \/ LeaveDrive(d, Released(power[d]), NoGoal) /\ Advance(d)
     \/ /\ \E p \in {power[d], Released(power[d])}
                   \cup (IF power[d] = "enabled" THEN {"switched_on"} ELSE {}) :
             LeaveDrive(d, p, goal[d])
        /\ Abandon
  /\ UNCHANGED <<sessionVars, deferred_csp_prepared, busVars, threadVars, master,
                 pos, zero, enterVars>>

\* on_goto_home_all (homing-required drives), TCP GOTO_HOME (all, or one drive).
\* Neither asks whether Homing is complete.
GotoHome ==
  \E S \in {RequiredHoming, Drives} \cup {{d} : d \in Drives} :
    EnsureNonCspOperation /\ Begin("goto", S)

\* move_absolute_counts_and_wait(0): arrives, faults, or times out and raises
\* with the motion still running.  A drive that cannot be energised stays put, and
\* counts as arrived if its Target Reached bit is still set.
GotoHomeDrive(d) ==
  /\ pc = "goto" /\ IsNext(d)
  /\ \/ /\ Energised(power[d]) = "enabled"
        /\ pos' = [pos EXCEPT ![d] = 0]
        /\ LeaveDrive(d, "enabled", NoGoal)
        /\ Advance(d)
     \/ power[d] = "disabled" /\ Advance(d) /\ UNCHANGED <<power, pos, goal>>
     \/ /\ \E p \in {power[d], Energised(power[d]), "fault"}, g \in {goal[d], 0} :
             LeaveDrive(d, p, g)
        /\ UNCHANGED pos
        /\ Abandon
  /\ UNCHANGED <<sessionVars, deferred_csp_prepared, busVars, threadVars, master,
                 zero, enterVars>>

\* TCP MOVE_ABS and MOVE_ALL: start the motion of S and return at once; an SDO
\* exception leaves the motion of a prefix started.
MoveDrives ==
  /\ pc = "idle"
  /\ EnsureNonCspOperation
  /\ \E S \in {{d} : d \in Drives} \cup {0 .. d : d \in Drives},
        target \in [Drives -> Counts] :
       /\ power' = [d \in Drives |-> IF d \in S THEN Energised(power[d]) ELSE power[d]]
       /\ goal' = [d \in Drives |->
            IF d \in S /\ power'[d] = "enabled" THEN target[d] ELSE goal[d]]
  /\ UNCHANGED <<sessionVars, deferred_csp_prepared, busVars, threadVars, master,
                 pos, zero, pc, todo, enterVars>>

\* on_adjust_home_counts: one relative move of a referenced arm drive.  A failure
\* after the start command neither halts nor disables the drive.
AdjustHomeCounts(d) ==
  /\ pc = "idle"
  /\ EnsureNonCspOperation
  /\ d \in ArmDrives
  /\ homing_complete /\ spur_gear_reference_complete
  /\ \/ /\ \E c \in Counts \ {pos[d]} : pos' = [pos EXCEPT ![d] = c]
        /\ LeaveDrive(d, "enabled", NoGoal)
     \/ /\ \E p \in PowerStates, g \in Counts \cup {NoGoal} : LeaveDrive(d, p, g)
        /\ UNCHANGED pos
  /\ UNCHANGED <<sessionVars, deferred_csp_prepared, busVars, threadVars, master,
                 zero, pc, todo, enterVars>>

-----------------------------------------------------------------------------
(* Homing.                                                                 *)

\* on_home_one (a homing-required drive), on_home_all, and TCP HOME, which checks
\* neither the drive nor the sign of its index.
HomeOne == \E d \in RequiredHoming : EnsureNonCspOperation /\ Begin("home_one", {d})
HomeAll == EnsureNonCspOperation /\ Begin("home_all", RequiredHoming)
HomeTcp == \E id \in Ids : EnsureNonCspOperation /\ Begin("home_tcp", {id})

\* TCP HOME with an index of no drive raises once the spur reference is gone.
HomeMissingDrive ==
  /\ pc = "idle"
  /\ EnsureNonCspOperation
  /\ spur_gear_reference_complete' = FALSE
  /\ UNCHANGED <<homed, homing_complete, deferred_csp_prepared, busVars, threadVars,
                 master, driveVars, pc, todo, enterVars>>

\* Mutant: mark_drive_homing_started does not discard the axis.
KeepsEarlierHomes(ids) ==
  /\ homed' = homed \cup ids
  /\ homing_complete' = (RequiredHoming \subseteq homed')

\* Mutant: the aggregate is only ever raised, as if mark_drive_homing_started
\* did not recompute it.
SticksOnceComplete(ids) ==
  /\ homed' = ids
  /\ homing_complete' = (homing_complete \/ RequiredHoming \subseteq ids)

\* mark_drive_homing_started and mark_drive_homed.
MarkHomed(ids) ==
  /\ homed' = ids
  /\ homing_complete' = (RequiredHoming \subseteq ids)

\* What follows the last axis: home_all always references the spur gear, home_one
\* does once Homing is complete, TCP HOME never does.
AfterHoming ==
  IF pc = "home_all" \/ (pc = "home_one" /\ homing_complete') THEN "spur" ELSE "idle"

\* _home_drive: the spur reference and this id are invalidated, then
\* home_to_reference_interval_midpoint of the drive it names either makes the midpoint
\* zero or raises.
HomeDrive(id) ==
  /\ pc \in HomePcs /\ IsNext(id)
  /\ spur_gear_reference_complete' = FALSE
  /\ \/ /\ MarkHomed((homed \cup {id}) \cap Drives)
        /\ pos' = [pos EXCEPT ![Axis(id)] = 0]
        /\ zero' = [zero EXCEPT ![Axis(id)] = "set"]
        /\ LeaveDrive(Axis(id), "enabled", NoGoal)
        /\ todo' = todo \ {id}
        /\ pc' = IF todo' = {} THEN AfterHoming ELSE pc
     \/ /\ MarkHomed(homed \ {id})
        /\ \E c \in Counts : pos' = [pos EXCEPT ![Axis(id)] = c]
        /\ \E z \in {zero[Axis(id)], "unknown"} : zero' = [zero EXCEPT ![Axis(id)] = z]
        /\ \E p \in PowerStates, g \in Counts \cup {NoGoal} : LeaveDrive(Axis(id), p, g)
        /\ Abandon
  /\ UNCHANGED <<deferred_csp_prepared, busVars, threadVars, master, enterVars>>

\* _reference_spur_gear_after_arm_homing, called once homing_complete holds.  An
\* ignored spur gear, or one homed by its own sensor, needs no relative move.
ReferenceSpurGear ==
  /\ pc = "spur"
  /\ IF SkipSpurHoming /\ ~IgnoreSpur
     THEN \/ /\ spur_gear_reference_complete' = TRUE
             /\ pos' = [pos EXCEPT ![Spur] = 0]
             /\ zero' = [zero EXCEPT ![Spur] = "set"]
             /\ LeaveDrive(Spur, "enabled", NoGoal)
          \/ /\ spur_gear_reference_complete' = FALSE
             /\ \E c \in Counts : pos' = [pos EXCEPT ![Spur] = c]
             /\ \E z \in {zero[Spur], "doubtful"} : zero' = [zero EXCEPT ![Spur] = z]
             /\ \E p \in PowerStates, g \in Counts \cup {NoGoal} : LeaveDrive(Spur, p, g)
     ELSE spur_gear_reference_complete' = TRUE /\ UNCHANGED driveVars
  /\ pc' = "idle"
  /\ UNCHANGED <<homed, homing_complete, deferred_csp_prepared, busVars, threadVars,
                 master, todo, enterVars>>

\* on_set_current_arm_home: Method 37 on the homed arm drives, one after another.
SetCurrentArmHome ==
  /\ EnsureNonCspOperation
  /\ homing_complete /\ spur_gear_reference_complete
  /\ RequiredHoming = ArmDrives
  /\ Begin("rezero", RequiredHoming)

\* home_current_position on one drive.  Nothing in the bookkeeping changes, whether
\* it succeeds, fails before or after the coordinate moved, or reads back a position
\* that is not zero.
RezeroDrive(d) ==
  /\ pc = "rezero" /\ IsNext(d)
  /\ \/ /\ pos' = [pos EXCEPT ![d] = 0]
        /\ zero' = [zero EXCEPT ![d] = "set"]
        /\ LeaveDrive(d, "enabled", NoGoal)
        /\ Advance(d)
     \/ /\ \/ UNCHANGED <<pos, zero>>
           \/ /\ \E c \in Counts : pos' = [pos EXCEPT ![d] = c]
              /\ zero' = [zero EXCEPT ![d] = "doubtful"]
        /\ SequenceFails(d)
        /\ Abandon
  /\ UNCHANGED <<sessionVars, deferred_csp_prepared, busVars, threadVars, master,
                 enterVars>>

-----------------------------------------------------------------------------
(* enter_csp, holding pdo_lock from the gate to the thread's start.        *)

\* enter_csp returns or raises: its locals are gone.
LeaveEnter ==
  /\ Abandon
  /\ initial_targets' = [d \in Drives |-> 0]
  /\ measured' = FALSE
  /\ settled' = {}

\* Mutant: the targets default to the homed zero instead of the measured position.
ZeroTargets == [d \in Drives |-> 0]

\* Mutant: only the positions of the homing-required drives are read.
HomedTargetsOnly == [d \in RequiredHoming |-> pos[d]]

\* The targets of an ENTER_CSP_ALL that names none.
DefaultTargets == pos

\* The gates, then initial_targets from the client or from 0x6064.  With csp_active
\* set the call only returns the cached states, so it is not a step.
EnterGate ==
  /\ pc = "idle"
  /\ ControlMode \in {"csp", "homing_csp"}
  /\ SpurReferenceSatisfied
  /\ ~csp_active
  /\ ControlMode = "homing_csp" => homing_complete
  /\ \/ /\ initial_targets' = DefaultTargets
        /\ measured' = TRUE
        /\ settled' = {d \in Drives : power[d] = "enabled" /\ goal[d] = NoGoal}
     \/ initial_targets' \in [Drives -> Counts] /\ measured' = FALSE /\ settled' = {}
  /\ pc' = "enter_configure"
  /\ UNCHANGED <<sessionVars, deferred_csp_prepared, busVars, threadVars, master,
                 driveVars, todo>>

\* Any exception between the gate and the first PDO.  One that is raised while the
\* process image is being mapped may find config_map done and deferred_csp_prepared
\* not set yet.
EnterRaises ==
  /\ pc \in EnterPcs \ {"enter_activate"}
  /\ master' \in {master} \cup (IF pc = "enter_hold" /\ todo = {} THEN {"safeop"} ELSE {})
  /\ LeaveEnter
  /\ UNCHANGED <<sessionVars, deferred_csp_prepared, busVars, threadVars, driveVars>>

\* Limit mappings, following-error monitor and torque limits written and read back.
EnterConfigure ==
  /\ pc = "enter_configure"
  /\ IF ControlMode = "homing_csp"
     THEN pc' = "enter_prepare" /\ UNCHANGED todo
     ELSE pc' = "enter_select" /\ todo' = RequiredCsp
  /\ UNCHANGED <<sessionVars, deferred_csp_prepared, busVars, threadVars, master,
                 driveVars, enterVars>>

\* _prepare_deferred_csp_locked, its checks.
EnterPrepare ==
  /\ pc = "enter_prepare"
  /\ IF homing_complete /\ AllEnabled(RequiredHoming)
     THEN pc' = "enter_hold" /\ todo' = NonHomingCsp /\ UNCHANGED enterVars
     ELSE LeaveEnter
  /\ UNCHANGED <<sessionVars, deferred_csp_prepared, busVars, threadVars, master,
                 driveVars>>

\* _prepare_deferred_csp_locked enables the drives Homing did not.
EnterEnableDrive(d) ==
  /\ pc = "enter_hold" /\ IsNext(d)
  /\ \/ /\ LeaveDrive(d, "enabled", NoGoal)
        /\ todo' = todo \ {d}
        /\ UNCHANGED <<pc, enterVars>>
     \/ SequenceFails(d) /\ LeaveEnter
  /\ UNCHANGED <<sessionVars, deferred_csp_prepared, busVars, threadVars, master,
                 pos, zero>>

\* _prepare_deferred_csp_locked maps the process image, once per bridge session;
\* config_map leaves the master in SAFE-OP.
EnterMapPdos ==
  /\ pc = "enter_hold" /\ todo = {}
  /\ deferred_csp_prepared' = TRUE
  /\ master' = IF deferred_csp_prepared THEN master ELSE "safeop"
  /\ pc' = "enter_select"
  /\ todo' = RequiredCsp
  /\ UNCHANGED <<sessionVars, busVars, threadVars, driveVars, enterVars>>

\* reset_fault_if_needed, then CSP mode.  A drive that was still in Profile motion
\* stops wherever the mode change finds it.
EnterSelectDrive(d) ==
  /\ pc = "enter_select" /\ IsNext(d)
  /\ LeaveDrive(d, IF power[d] = "fault" THEN "disabled" ELSE power[d], NoGoal)
  /\ \E c \in {pos[d], goal[d]} \ {NoGoal} : pos' = [pos EXCEPT ![d] = c]
  /\ todo' = todo \ {d}
  /\ UNCHANGED <<sessionVars, deferred_csp_prepared, busVars, threadVars, master,
                 zero, pc, enterVars>>

\* After CSP is selected a Homing hold must not have been lost.
HoldKept == ControlMode = "homing_csp" => AllEnabled(RequiredCsp)

\* The check, then the caches of the new session.  target_counts is set before the
\* mode displays are read, and stays set when one of those reads raises.
EnterArm ==
  /\ pc = "enter_select" /\ todo = {}
  /\ \/ /\ HoldKept
        /\ target_counts' = initial_targets
        /\ \/ /\ latest_states' = initial_targets
              /\ pdo_error' = FALSE
              /\ pc' = "enter_activate"
              /\ UNCHANGED <<todo, enterVars>>
           \/ UNCHANGED <<latest_states, pdo_error>> /\ LeaveEnter
     \/ ~HoldKept /\ UNCHANGED <<target_counts, latest_states, pdo_error>> /\ LeaveEnter
  /\ UNCHANGED <<sessionVars, deferred_csp_prepared, csp_active, threadVars, master,
                 driveVars>>

\* Mutant: every drive is sent the same controlword.
IgnoredDrivenToo(p) == p

\* _exchange_pdo_locked sends an ignored drive Disable Voltage in every image.
IgnoredReleased(p) ==
  [d \in Drives |-> IF d \in IgnoredCsp THEN Released(p[d]) ELSE p[d]]

\* One or more exchanges take the drives of S to their targets.
FollowTargets(S) ==
  pos' = [d \in Drives |-> IF d \in S THEN target_counts[d] ELSE pos[d]]

\* The master reaches OP and every participating drive accepts the CSP target: from
\* Operation Enabled in homing_csp, through Shutdown and Switch On in csp.
EnterActivate(t) ==
  /\ pc = "enter_activate"
  /\ thread[t] = "unborn"
  /\ master = "safeop"
  /\ \A d \in RequiredCsp :
       power[d] \in IF ControlMode = "homing_csp" THEN {"enabled"}
                    ELSE PowerStates \ {"fault"}
  /\ power' = IgnoredReleased(
       [d \in Drives |-> IF d \in RequiredCsp THEN "enabled" ELSE power[d]])
  /\ goal' = [d \in Drives |-> IF d \in RequiredCsp THEN goal[d] ELSE NoGoal]
  /\ \E S \in SUBSET RequiredCsp : FollowTargets(S)
  /\ latest_states' = pos'
  /\ master' = "op"
  /\ csp_active' = TRUE
  /\ pdo_stop_event' = FALSE
  /\ pdo_thread' = t
  /\ thread' = [thread EXCEPT ![t] = "running"]
  /\ LeaveEnter
  /\ UNCHANGED <<sessionVars, deferred_csp_prepared, pdo_error, target_counts, outlived,
                 zero>>

\* SAFE-OP or OP not reached, a working counter, a fault, the 25-cycle wait or a mode
\* display fails: _safeop_locked, and target_counts and latest_states stay.  Only the
\* csp sequence can have energised a drive.
EnterActivateRaises ==
  /\ pc = "enter_activate"
  /\ \E p \in [Drives -> PowerStates] :
       /\ \A d \in Drives :
            p[d] = "enabled" => \/ power[d] = "enabled"
                                \/ ControlMode = "csp" /\ d \in RequiredCsp
       /\ power' = p
       /\ goal' = [d \in Drives |-> IF p[d] = "enabled" THEN goal[d] ELSE NoGoal]
  /\ \E S \in SUBSET RequiredCsp : FollowTargets(S)
  /\ latest_states' \in {latest_states, pos'}
  /\ master' \in {"safeop", "op"}
  /\ LeaveEnter
  /\ UNCHANGED <<sessionVars, deferred_csp_prepared, csp_active, pdo_error,
                 target_counts, threadVars, zero>>

-----------------------------------------------------------------------------
(* The running session.                                                    *)

\* Mutant: only csp_active is asked for.
AcceptsTargetsUnlessInactive == csp_active

\* set_csp_targets does not raise.
AcceptsTargets == ~pdo_error /\ csp_active

\* TCP CSP_SETPOINT_ALL: an ignored drive's target is its last position.
SetCspTargets ==
  /\ pc = "idle"
  /\ AcceptsTargets
  /\ \E f \in [Drives -> Counts] :
       target_counts' = [d \in Drives |->
         IF d \in IgnoredCsp /\ latest_states # <<>> THEN latest_states[d] ELSE f[d]]
  /\ UNCHANGED <<sessionVars, deferred_csp_prepared, csp_active, pdo_error,
                 latest_states, threadVars, master, driveVars, pc, todo, enterVars>>

PdoLockFree == pc \notin EnterPcs

\* One good cycle of _pdo_loop: exchange, validate, cache.  The stop event was read
\* before pdo_lock was acquired, so a cycle may still follow it.  Outside OP the
\* working counter falls short.
LoopCycle(t) ==
  /\ thread[t] = "running"
  /\ PdoLockFree
  /\ master = "op" /\ target_counts # <<>>
  /\ AllEnabled(RequiredCsp)
  /\ power' = IgnoredReleased(power)
  /\ goal' = [d \in Drives |-> IF d \in IgnoredCsp THEN NoGoal ELSE goal[d]]
  /\ \E S \in SUBSET RequiredCsp : FollowTargets(S)
  /\ latest_states' = pos'
  /\ UNCHANGED <<sessionVars, deferred_csp_prepared, csp_active, pdo_error,
                 target_counts, threadVars, master, zero, pc, todo, enterVars>>

\* The exchange or _validate_running_states raises: pdo_lock is released before the
\* handler below takes it again.  The drives that took the image have followed it.
LoopRaises(t) ==
  /\ thread[t] = "running"
  /\ PdoLockFree
  /\ thread' = [thread EXCEPT ![t] = "failed"]
  /\ IF master = "op" /\ target_counts # <<>>
     THEN /\ \E S \in SUBSET {d \in RequiredCsp : power[d] = "enabled"} : FollowTargets(S)
          /\ latest_states' \in {latest_states, pos'}
     ELSE UNCHANGED <<pos, latest_states>>
  /\ UNCHANGED <<sessionVars, deferred_csp_prepared, csp_active, pdo_error,
                 target_counts, pdo_thread, pdo_stop_event, outlived, master, power, goal,
                 zero, pc, todo, enterVars>>

\* _safeop_locked is best effort: it may leave the master in OP.  Each energised
\* drive may drop.
SafeOp ==
  /\ master' \in {master, "safeop"}
  /\ \E p \in [Drives -> PowerStates] :
       /\ \A d \in Drives : p[d] = power[d] \/ power[d] = "enabled"
       /\ power' = p
       /\ goal' = [d \in Drives |-> IF p[d] = "enabled" THEN goal[d] ELSE NoGoal]

\* The except block: pdo_error, SAFE-OP.  csp_active is still set when it ends.
LoopHandles(t) ==
  /\ thread[t] = "failed"
  /\ PdoLockFree
  /\ pdo_error' = TRUE
  /\ SafeOp
  /\ thread' = [thread EXCEPT ![t] = "handled"]
  /\ UNCHANGED <<sessionVars, deferred_csp_prepared, csp_active, target_counts,
                 latest_states, pdo_thread, pdo_stop_event, outlived, pos, zero, pc, todo,
                 enterVars>>

\* Mutant: the loop never looks at pdo_stop_event.
StopUnseen(t) == FALSE

\* The while condition sees pdo_stop_event.
SeesStop(t) == thread[t] = "running" /\ pdo_stop_event

LoopStops(t) ==
  /\ SeesStop(t)
  /\ thread' = [thread EXCEPT ![t] = "stopping"]
  /\ UNCHANGED <<sessionVars, deferred_csp_prepared, busVars, pdo_thread,
                 pdo_stop_event, outlived, master, driveVars, pc, todo, enterVars>>

\* Mutant: csp_active is cleared by exit_csp only.
FinallyForgets == UNCHANGED csp_active

\* What the finally block does, whichever session the flag belongs to by now.
FinallyClears == csp_active' = FALSE

LoopFinally(t) ==
  /\ thread[t] \in {"handled", "stopping"}
  /\ PdoLockFree
  /\ FinallyClears
  /\ thread' = [thread EXCEPT ![t] = "done"]
  /\ UNCHANGED <<sessionVars, deferred_csp_prepared, pdo_error, target_counts,
                 latest_states, pdo_thread, pdo_stop_event, outlived, master, driveVars,
                 pc, todo, enterVars>>

-----------------------------------------------------------------------------
(* exit_csp.                                                               *)

\* TCP EXIT_CSP_ALL, or a disable command while csp_active.  With no session, no
\* live thread and no targets it only reads statuses, which is not a step.
ExitCsp ==
  /\ pc = "idle"
  /\ csp_active \/ ThreadAlive \/ target_counts # <<>>
  /\ pdo_stop_event' = TRUE
  /\ pc' = "exit_join"
  /\ UNCHANGED <<sessionVars, deferred_csp_prepared, busVars, pdo_thread, thread,
                 outlived, master, driveVars, todo, enterVars>>

\* Mutant: the thread is not waited for.
NotJoined == TRUE

\* thread.join returns because the thread ended.
JoinReturns == ~ThreadAlive

\* thread.join gives up on a thread that is alive.
JoinGivesUp == JoinMayTimeOut /\ ThreadAlive

\* exit_csp does not look at which of the two it was.
ExitJoined ==
  /\ pc = "exit_join"
  /\ \/ JoinReturns /\ UNCHANGED outlived
     \/ JoinGivesUp /\ outlived' = outlived \cup {pdo_thread}
  /\ pc' = "exit_finish"
  /\ UNCHANGED <<sessionVars, deferred_csp_prepared, busVars, pdo_thread, thread,
                 pdo_stop_event, master, driveVars, todo, enterVars>>

\* Mutant: csp_active is left to the thread's finally block.
LeavesActive ==
  /\ target_counts' = <<>>
  /\ latest_states' = <<>>
  /\ pdo_error' = FALSE
  /\ UNCHANGED csp_active

\* What the end of exit_csp resets.
ResetsSession ==
  /\ csp_active' = FALSE
  /\ target_counts' = <<>>
  /\ latest_states' = <<>>
  /\ pdo_error' = FALSE

\* The last two exchanges reach every drive only while the master is in OP; whether
\* they do or not, SAFE-OP is requested and the session's state is cleared.
ExitFinish ==
  /\ pc = "exit_finish"
  /\ \/ /\ master = "op" /\ target_counts # <<>>
        /\ power' = [d \in Drives |-> Released(power[d])]
        /\ goal' = [d \in Drives |-> NoGoal]
        /\ master' \in {"op", "safeop"}
     \/ SafeOp
  /\ ResetsSession
  /\ pdo_thread' = NoThread
  /\ pc' = "idle"
  /\ UNCHANGED <<sessionVars, deferred_csp_prepared, thread, pdo_stop_event, outlived,
                 pos, zero, todo, enterVars>>

-----------------------------------------------------------------------------
(* The drives.                                                             *)

\* A Profile Position motion arrives.
DriveArrives(d) ==
  /\ power[d] = "enabled" /\ goal[d] # NoGoal
  /\ pos' = [pos EXCEPT ![d] = goal[d]]
  /\ goal' = [goal EXCEPT ![d] = NoGoal]
  /\ UNCHANGED <<sessionVars, deferred_csp_prepared, busVars, threadVars, master, power,
                 zero, pc, todo, enterVars>>

\* A drive faults or otherwise leaves Operation Enabled.
DriveDrops(d) ==
  /\ power[d] = "enabled"
  /\ \E p \in {"disabled", "fault"} : LeaveDrive(d, p, NoGoal)
  /\ UNCHANGED <<sessionVars, deferred_csp_prepared, busVars, threadVars, master, pos,
                 zero, pc, todo, enterVars>>

\* An unpowered axis is moved by gravity or by hand.
DriveSags(d) ==
  /\ power[d] # "enabled"
  /\ \E c \in Counts : pos' = [pos EXCEPT ![d] = c]
  /\ UNCHANGED <<sessionVars, deferred_csp_prepared, busVars, threadVars, master, power,
                 goal, zero, pc, todo, enterVars>>

\* The slaves leave OP by themselves: the process-data watchdog, or a cable.
BusFallsBack ==
  /\ master = "op"
  /\ master' = "safeop"
  /\ UNCHANGED <<sessionVars, deferred_csp_prepared, busVars, threadVars, driveVars, pc,
                 todo, enterVars>>

-----------------------------------------------------------------------------

Requests ==
  \/ EnableAll \/ DisableAll \/ GotoHome \/ MoveDrives
  \/ \E d \in Drives : AdjustHomeCounts(d)
  \/ HomeOne \/ HomeAll \/ HomeTcp \/ HomeMissingDrive \/ SetCurrentArmHome
  \/ EnterGate \/ SetCspTargets \/ ExitCsp

HandlerSteps ==
  \/ \E d \in Drives : \/ EnableDrive(d) \/ DisableDrive(d) \/ GotoHomeDrive(d)
                       \/ RezeroDrive(d) \/ EnterEnableDrive(d) \/ EnterSelectDrive(d)
  \/ \E id \in Ids : HomeDrive(id)
  \/ ReferenceSpurGear
  \/ EnterRaises \/ EnterConfigure \/ EnterPrepare \/ EnterMapPdos \/ EnterArm
  \/ \E t \in Threads : EnterActivate(t)
  \/ EnterActivateRaises
  \/ ExitJoined \/ ExitFinish

LoopSteps(t) ==
  \/ LoopCycle(t) \/ LoopRaises(t) \/ LoopHandles(t) \/ LoopStops(t) \/ LoopFinally(t)

DriveSteps ==
  \/ \E d \in Drives : DriveArrives(d) \/ DriveDrops(d) \/ DriveSags(d)
  \/ BusFallsBack

Next ==
  \/ Requests
  \/ HandlerSteps
  \/ \E t \in Threads : LoopSteps(t)
  \/ DriveSteps

Spec == Init /\ [][Next]_vars

\* A handler that holds self.lock runs on, and a PDO thread that has left its loop,
\* or has been told to, reaches the end of its finally block.
Fairness ==
  /\ WF_vars(HandlerSteps)
  /\ \A t \in Threads : WF_vars(LoopHandles(t) \/ LoopStops(t) \/ LoopFinally(t))

FairSpec == Spec /\ Fairness

-----------------------------------------------------------------------------
(* Properties.                                                             *)

\* Every homing-required drive has been homed and the spur gear referenced.
Armed == RequiredHoming \subseteq homed /\ (IgnoreSpur \/ spur_gear_reference_complete)

\* Once the gates of enter_csp are passed, or its preparation has completed, the
\* references they asked for stay valid: no interleaving of home, re-home, disable,
\* failed activation and exit reaches a CSP session (or its second attempt) whose
\* axes have lost their Homing.
HandoffArmed ==
  ControlMode = "homing_csp" /\ (csp_active \/ deferred_csp_prepared \/ pc \in EnterPcs)
    => Armed /\ homing_complete

\* enter_csp "cannot command a jump": until the first PDO, a homing-required drive
\* that was enabled and at rest when its position was read is still at its target.
SettledDrivesHeld ==
  ControlMode = "homing_csp" /\ pc \in {"enter_select", "enter_activate"}
    => \A d \in settled \cap RequiredHoming :
         power[d] = "enabled" => initial_targets[d] = pos[d]

\* An ignored spur gear is never Operation Enabled during a CSP session.
IgnoredDriveUnpowered == csp_active => \A d \in IgnoredCsp : power[d] # "enabled"

\* csp_active always belongs to a PDO thread that can still clear it: no order of
\* activation, loop failure, join timeout and exit leaves the flag set with nobody
\* cycling the bus.
ActiveHasThread == csp_active => ThreadAlive

\* Until a thread that an exit_csp gave up waiting for has run its finally block, the
\* thread the bus refers to cycles only while csp_active is set: no other order of
\* activation, failure, exit and re-entry lets the end of one session clear the flag of
\* the next.
CyclingIsActive ==
  pdo_thread # NoThread /\ thread[pdo_thread] = "running"
    => csp_active \/ \E t \in outlived : thread[t] = "done"

\* Once the loop has recorded an error nothing changes the targets of its session
\* until exit_csp, not even in the window where csp_active is still set.
NoTargetsAfterError ==
  [][csp_active /\ pdo_error /\ pdo_error' => target_counts' = target_counts]_vars

\* Once the preparation of a homing_csp session has completed, an arm drive that has lost
\* power stays without it: no command of the bridge energises it again.
NoReenergise ==
  [][ControlMode = "homing_csp" /\ deferred_csp_prepared
       => \A d \in RequiredHoming : power'[d] = "enabled" => power[d] = "enabled"]_vars

\* Once preparation has completed (deferred_csp_prepared is set) no new Profile Position
\* motion is started and no coordinate is redefined.
NoProfileMotionOncePrepared ==
  [][deferred_csp_prepared
       => zero' = zero /\ \A d \in Drives : goal'[d] \in {goal[d], NoGoal}]_vars

\* Every handler returns: in particular exit_csp, which waits for the PDO thread
\* while that thread may be waiting for pdo_lock.
HandlersReturn == pc # "idle" ~> pc = "idle"

\* A PDO loop that has failed takes csp_active down, whatever the handlers do.
FailedLoopDeactivates ==
  \A t \in Threads : thread[t] = "failed" ~> ~csp_active

\* No step takes the zero that a procedure has given to an axis and leaves the axis
\* counted as homed, except a HOME that names it by an index counted from the end, and a
\* set_current_arm_home that raises.
HomedKeepZero ==
  [][\A d \in homed' \cap RequiredHoming : zero'[d] # "set" =>
       \/ d \in homed /\ zero'[d] = zero[d]
       \/ pc = "home_tcp" /\ todo = {d - NumDrives}
       \/ pc = "rezero" /\ pc' = "idle"]_vars

\* "Invalidate one axis until its current Homing attempt succeeds": no axis is counted
\* as homed once an attempt at homing it has failed and left it without a coordinate.
HomedHaveZero == \A d \in homed : zero[d] # "unknown"

\* "Default to measured positions so CSP activation cannot command a jump": every
\* homed drive that is still enabled is at its measured target when the first PDO goes
\* out, whatever it was doing when it was measured.
ActivationNeverJumps ==
  ControlMode = "homing_csp" /\ pc = "enter_activate" /\ measured
    => \A d \in RequiredHoming : power[d] = "enabled" => initial_targets[d] = pos[d]

=============================================================================
