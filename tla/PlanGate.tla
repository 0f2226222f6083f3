------------------------------ MODULE PlanGate ------------------------------
(***************************************************************************)
(* The authorisation of Cartesian motion by rascl_debug.sh, around the WP3 *)
(* node of TargetMotion.                                                   *)
(*                                                                         *)
(* Terminal T2 runs group 7, the CSP session; terminal T3 runs one group   *)
(* after another: set the target (14), plan it (9), execute it (10), move  *)
(* the gripper (15).  The groups 23 to 29 are sequences of these.  All the *)
(* two share is the files of STATE_DIR, and a terminal may be killed       *)
(* between any two of its steps, which leaves the files as they are.       *)
(*                                                                         *)
(* The history variables follow the guide and not the files: planned is    *)
(* the target whose plan the present session last accepted, and retargeted *)
(* says that the target has changed since.                                 *)
(***************************************************************************)
EXTENDS TargetMotion

CONSTANTS
  MaxShells,   \* bound: shells of T2, whose process ids are 1, 2, ...
  NoFile,      \* a state file that does not exist
  MaxKills     \* bound: terminals killed in a behaviour

ASSUME GateAssumption ==
  MaxShells \in Nat \ {0} /\ MaxKills \in Nat /\ NoFile \notin 1 .. MaxShells

Shells == 1 .. MaxShells
Signatures == [target : Targets, span : Spans]

VARIABLES
  menu,              \* what T3 is doing; "menu" between two groups
  target,            \* TARGET_X .. TRAJECTORY_DURATION, saved in TARGET_STATE_FILE
  plan_file,         \* PLAN_STATE_FILE: a shell and a signature, or NoFile
  csp_session_file,  \* CSP_SESSION_FILE: a shell, or NoFile
  shell,             \* the shell of T2
  session,           \* whether T2 is in group 7: "none", "launching" or "running"
  planned,           \* history: the target of the session's last accepted plan, if any
  retargeted,        \* history: the target has changed since
  kills              \* history: terminals killed

t2Vars == <<csp_session_file, shell, session>>
historyVars == <<planned, retargeted>>
vars == <<motionVars, menu, target, plan_file, t2Vars, historyVars, kills>>

-----------------------------------------------------------------------------
GateInit ==
  /\ menu = "menu"
  /\ target \in Signatures
  /\ csp_session_file = NoFile
  /\ plan_file = NoFile
  /\ shell = 1
  /\ session = "none"
  /\ planned = {}
  /\ retargeted = FALSE
  /\ kills = 0

Init == MotionInit /\ GateInit

\* What ends the authorisation of a plan for good: the end of its session, the removal
\* of its file for another target, another plan, a gripper motion, a completed motion.
Expires == planned' = {} /\ retargeted' = FALSE

\* The guide's authorisation of the present target.
Authorised == target \in planned /\ ~retargeted

-----------------------------------------------------------------------------
(* Terminal T2.                                                            *)

\* group_csp_launch clears an old plan ...
LaunchClears ==
  /\ session = "none"
  /\ session' = "launching"
  /\ plan_file' = NoFile
  /\ UNCHANGED <<motionVars, menu, target, csp_session_file, shell, historyVars, kills>>

\* ... and records its shell.
LaunchRecords ==
  /\ session = "launching"
  /\ session' = "running"
  /\ csp_session_file' = shell
  /\ UNCHANGED <<motionVars, menu, target, plan_file, shell, historyVars, kills>>

\* ros2_control comes up, holding the arm where it is ...
ControllersStart ==
  /\ session = "running" /\ ~active
  /\ active' = TRUE
  /\ command' = arm
  /\ UNCHANGED <<nodeVars, arm, drops, arrived, menu, target, plan_file, t2Vars,
                 historyVars, kills>>

\* ... and gives up on a failed write or read, with group 7 still in the foreground.
ControllersFail ==
  /\ active
  /\ active' = FALSE
  /\ UNCHANGED <<nodeVars, armVars, menu, target, plan_file, t2Vars, historyVars, kills>>

\* ros2_control ends, or is stopped, and group 7 removes its files.
SessionEnds ==
  /\ session = "running"
  /\ session' = "none"
  /\ active' = FALSE
  /\ csp_session_file' = NoFile
  /\ plan_file' = NoFile
  /\ Expires
  /\ UNCHANGED <<nodeVars, armVars, menu, target, shell, kills>>

\* The shell of T2 is killed: no trap runs, and ros2_control may survive it.
KillT2 ==
  /\ session # "none"
  /\ shell + 1 \in Shells
  /\ kills < MaxKills
  /\ kills' = kills + 1
  /\ shell' = shell + 1
  /\ session' = "none"
  /\ active' \in {active, FALSE}
  /\ Expires
  /\ UNCHANGED <<nodeVars, armVars, menu, target, plan_file, csp_session_file>>

-----------------------------------------------------------------------------
(* The checks of T3.  A check that fails ends the shell of T3; the next    *)
(* one finds the target in its file.                                       *)

\* require_csp_session: the recorded shell exists.
SessionLives == csp_session_file # NoFile /\ csp_session_file = shell

\* require_matching_plan.
MatchingPlan ==
  /\ SessionLives
  /\ plan_file # NoFile
  /\ plan_file.shell = csp_session_file
  /\ plan_file.signature = target

-----------------------------------------------------------------------------
(* Terminal T3.                                                            *)

\* group_set_target, or a move of a task group, up to save_target_state.
SetTarget ==
  /\ menu = "menu"
  /\ menu' = "setting"
  /\ target' \in Signatures
  /\ retargeted' = (retargeted \/ target' # target)
  /\ UNCHANGED <<motionVars, plan_file, t2Vars, planned, kills>>

\* Mutant: the plan of the old target is left in place.
SetTargetKeepsPlan ==
  /\ menu = "setting"
  /\ menu' = "menu"
  /\ UNCHANGED <<motionVars, target, plan_file, t2Vars, historyVars, kills>>

\* clear_plan_state.
SetTargetClears ==
  /\ menu = "setting"
  /\ menu' = "menu"
  /\ plan_file' = NoFile
  /\ Expires
  /\ UNCHANGED <<motionVars, target, t2Vars, kills>>

\* Mutant: group 9 leaves an earlier plan in place.
PlansOverOldPlan ==
  /\ menu = "menu"
  /\ SessionLives /\ active
  /\ menu' = "planning"
  /\ Expires
  /\ NodeStarts(target.target, target.span, FALSE)
  /\ UNCHANGED <<target, plan_file, t2Vars, kills>>

\* group_real_plan up to ros2 run.
PlanBegins ==
  /\ menu = "menu"
  /\ SessionLives /\ active
  /\ menu' = "planning"
  /\ plan_file' = NoFile
  /\ Expires
  /\ NodeStarts(target.target, target.span, FALSE)
  /\ UNCHANGED <<target, t2Vars, kills>>

\* The planning command failed, or its CSV is missing or not finite.
PlanRejected ==
  /\ menu = "planning" /\ node = "off"
  /\ menu' = "menu"
  /\ UNCHANGED <<motionVars, target, plan_file, t2Vars, historyVars, kills>>

\* save_plan_state, which needs the session's file.
PlanSaved ==
  /\ menu = "planning" /\ outcome = "planned"
  /\ IF csp_session_file = NoFile
     THEN UNCHANGED <<plan_file, planned>>
     ELSE /\ plan_file' = [shell |-> csp_session_file, signature |-> target]
          /\ planned' = IF session = "running" THEN {target} ELSE {}
  /\ menu' = "menu"
  /\ UNCHANGED <<motionVars, target, t2Vars, retargeted, kills>>

\* group_real_execute up to ros2 run.
ExecuteChecks ==
  /\ menu = "menu"
  /\ MatchingPlan /\ active
  /\ menu' = "authorised"
  /\ UNCHANGED <<motionVars, target, plan_file, t2Vars, historyVars, kills>>

\* Joint states arrive and the node is run; otherwise the group dies.
ExecuteBegins ==
  /\ menu = "authorised"
  /\ \/ /\ active
        /\ menu' = "executing"
        /\ NodeStarts(target.target, target.span, TRUE)
     \/ menu' = "menu" /\ UNCHANGED motionVars
  /\ UNCHANGED <<target, plan_file, t2Vars, historyVars, kills>>

\* The node has returned: the plan is used up, whether or not the endpoint was reached.
ExecuteEnds ==
  /\ menu = "executing" /\ node = "off"
  /\ plan_file' = NoFile
  /\ Expires
  /\ menu' = "menu"
  /\ UNCHANGED <<motionVars, target, t2Vars, kills>>

\* group_gripper_action up to the motion of Drive 3, which holds the arm where it was
\* measured.  T3 runs no WP3 node meanwhile.
GripperBegins ==
  /\ menu = "menu"
  /\ SessionLives /\ active
  /\ menu' = "gripping"
  /\ plan_file' = NoFile
  /\ Expires
  /\ command' = arm
  /\ UNCHANGED <<nodeVars, arm, drops, arrived, active, target, t2Vars, kills>>

\* The motion is over, or was interrupted.
GripperEnds ==
  /\ menu = "gripping"
  /\ menu' = "menu"
  /\ UNCHANGED <<motionVars, target, plan_file, t2Vars, historyVars, kills>>

\* T3 is killed, and what it runs with it.
KillT3 ==
  /\ menu # "menu"
  /\ kills < MaxKills
  /\ kills' = kills + 1
  /\ menu' = "menu"
  /\ IF node = "off"
     THEN UNCHANGED motionVars
     ELSE Exits("failed")
  /\ UNCHANGED <<target, plan_file, t2Vars, historyVars>>

-----------------------------------------------------------------------------
MotionStep ==
  /\ NodeStep \/ MotionEnvironment
  /\ UNCHANGED <<menu, target, plan_file, t2Vars, historyVars, kills>>

Terminal2 ==
  \/ LaunchClears \/ LaunchRecords \/ ControllersStart \/ ControllersFail
  \/ SessionEnds \/ KillT2

Terminal3 ==
  \/ SetTarget \/ SetTargetClears
  \/ PlanBegins \/ PlanRejected \/ PlanSaved
  \/ ExecuteChecks \/ ExecuteBegins \/ ExecuteEnds
  \/ GripperBegins \/ GripperEnds \/ KillT3

Next == MotionStep \/ Terminal2 \/ Terminal3

Spec == Init /\ [][Next]_vars

\* The node's thread is scheduled and the clock passes each of its deadlines.  Nothing
\* promises that a joint state ever arrives.
NodeFairness ==
  WF_vars(MotionStep /\ (\/ WaitTimesOut \/ Plan \/ PlanFails \/ PublishNext
                         \/ HoldEndpoint \/ VerifyStarts \/ VerifyTimesOut))

FairSpec == Spec /\ NodeFairness

-----------------------------------------------------------------------------
(* Properties.                                                             *)

TypeOK ==
  /\ MotionTypeOK
  /\ menu \in {"menu", "setting", "planning", "authorised", "executing", "gripping"}
  /\ target \in Signatures
  /\ csp_session_file \in Shells \cup {NoFile}
  /\ plan_file \in [shell : Shells, signature : Signatures] \cup {NoFile}
  /\ shell \in Shells
  /\ session \in {"none", "launching", "running"}
  /\ planned \subseteq Signatures
  /\ retargeted \in BOOLEAN
  /\ kills \in 0 .. MaxKills

\* Group 10 lets a motion pass only for a target that the present session has planned,
\* and not if another plan was attempted, the gripper was moved or a motion was completed
\* since, however often a terminal is killed.
ExecutedAsPlanned ==
  [][menu = "menu" /\ menu' = "authorised" => target \in planned]_vars

\* "Authorization is valid only for the current group 7 session and the exact target. It
\* expires when group 7 exits, the target changes, or one motion completes."  Of a changed
\* target this holds unless two terminals were killed: one group 14 that is killed between
\* its save and the removal of the plan leaves a target that the plan does not match, a
\* second may bring the planned one back.
OneKillKeepsAuthorisation ==
  [][menu = "menu" /\ menu' = "authorised" /\ kills <= 1 => Authorised]_vars

=============================================================================
