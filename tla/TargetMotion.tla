---------------------------- MODULE TargetMotion ----------------------------
(***************************************************************************)
(* The WP3 node of wp3_tsk1.py: one Cartesian target, inverse kinematics,  *)
(* a minimum-jerk trajectory, its publication to the position controller   *)
(* and the verdict on the endpoint.                                        *)
(*                                                                         *)
(* The node is one thread.  Joint states wait in its subscription queue    *)
(* and are only taken by spin_once, one at a time: whatever the node knows *)
(* of the arm is as old as the queue is long.  The controller, the arm and *)
(* the joint state broadcaster run beside it.                              *)
(*                                                                         *)
(* The arm has one joint and its TCP is its position, so a target and the  *)
(* joint goal that inverse kinematics finds for it are positions that      *)
(* differ by at most IkTol.                                                *)
(***************************************************************************)
EXTENDS Integers, Sequences

CONSTANTS
  Positions,   \* the arm's positions: an interval of integers
  Targets,     \* the Cartesian targets, as positions
  Spans,       \* the durations, in half periods of rate_hz
  IkTol,       \* position_tolerance
  JointTol,    \* final_joint_tolerance_rad
  TcpTol,      \* final_tcp_tolerance_m
  Hold,        \* the iterations that final_hold_s is long enough for
  Depth,       \* the depth of the joint state subscription's queue
  MaxDrops     \* bound: how often the arm is displaced during a run of the node

ASSUME MotionAssumption ==
  /\ Positions \subseteq Int /\ Targets \subseteq Positions
  /\ \A p, q \in Positions : p .. q \subseteq Positions
  /\ Spans \subseteq Nat \ {0}
  /\ {IkTol, JointTol, TcpTol, MaxDrops} \subseteq Nat
  /\ Hold \in Nat /\ Depth \in Nat \ {0}
  /\ Hold >= Depth             \* 0.5 s at 50 Hz against a depth of 10

VARIABLES
  node,        \* where the node is; "off" between two runs
  outcome,     \* of the last run: "none" while it lasts, "planned", "reached" or "failed"
  request,     \* the parameters target, span and execute of the run
  commands,    \* the trajectory: a sequence of positions
  sent,        \* how many of them have been published
  holds,       \* iterations of the final hold still to come
  latest,      \* _latest_joint_state, while plan() or the verification reads it
  queue,       \* joint states the middleware holds for the node
  command,     \* the position controller's command
  arm,         \* the measured position
  active,      \* the controllers are active: states out, commands in
  drops,       \* history: displacements of the arm during this run
  arrived      \* history: with the whole trajectory published, the arm was at its goal

nodeVars == <<node, outcome, request, commands, sent, holds, latest, queue>>
armVars == <<command, arm, drops, arrived>>
motionVars == <<nodeVars, armVars, active>>

Distance(a, b) == IF a >= b THEN a - b ELSE b - a
Lesser(a, b) == IF a <= b THEN a ELSE b

-----------------------------------------------------------------------------
(* Trajectory generation.                                                  *)

\* round(span / 2) with Python's ties to even.
HalfToEven(span) ==
  IF span % 2 = 0 THEN span \div 2 ELSE 2 * ((span + 1) \div 4)

SampleCount(span) ==
  LET n == HalfToEven(span) + 1 IN IF n >= 2 THEN n ELSE 2

\* minimum_jerk_scalar(t / d), in fractions of FifthPower(d); the provers know no ^.
MinimumJerk(t, d) == t * t * t * (10 * d * d - 15 * t * d + 6 * t * t)
FifthPower(d) == d * d * d * d * d

\* That much of the way from a to b, to the position below.
Blend(a, b, t, d) == a + ((b - a) * MinimumJerk(t, d)) \div FifthPower(d)

\* Mutant: the last sample keeps the computed value.
EndsAsSampled(q, goal, span) ==
  [k \in 1 .. SampleCount(span) |-> Blend(q, goal, Lesser(2 * (k - 1), span), span)]

\* generate_joint_trajectory: the last sample is replaced by the goal.
Trajectory(q, goal, span) ==
  [k \in 1 .. SampleCount(span) |->
     IF k = SampleCount(span) THEN goal
     ELSE Blend(q, goal, Lesser(2 * (k - 1), span), span)]

Goal == commands[Len(commands)]

\* Where the arm should be at the end: a property's view of it, and the code's check of
\* the joint and TCP errors of a joint state.
InTolerance(q) ==
  Distance(Goal, q) <= JointTol /\ Distance(request.target, q) <= TcpTol

\* Mutant: only the joint error is compared.
InJointTolerance(q) == Distance(Goal, q) <= JointTol

EndpointOk(q) == Distance(Goal, q) <= JointTol /\ Distance(request.target, q) <= TcpTol

-----------------------------------------------------------------------------
NoRequest == [target |-> CHOOSE t \in Targets : TRUE,
              span |-> CHOOSE s \in Spans : TRUE, execute |-> FALSE]

MotionInit ==
  /\ node = "off"
  /\ outcome = "failed"
  /\ request = NoRequest
  /\ commands = <<>>
  /\ sent = 0
  /\ holds = 0
  /\ latest = <<>>
  /\ queue = <<>>
  /\ arm \in Positions
  /\ command = arm
  /\ active = FALSE
  /\ drops = 0
  /\ arrived = FALSE

\* The constructor: a new subscription and no joint state yet.
NodeStarts(t, s, execute) ==
  /\ node' = "waiting"
  /\ outcome' = "none"
  /\ request' = [target |-> t, span |-> s, execute |-> execute]
  /\ UNCHANGED <<commands, sent, holds, latest, queue, armVars, active>>

\* The locals and the subscription of a process that has ended are gone.
Exits(result) ==
  /\ node' = "off"
  /\ outcome' = result
  /\ request' = NoRequest
  /\ commands' = <<>> /\ sent' = 0 /\ holds' = 0
  /\ latest' = <<>> /\ queue' = <<>>
  /\ drops' = 0 /\ arrived' = FALSE
  /\ UNCHANGED <<command, arm, active>>

\* spin_once: the oldest queued joint state, if there is one, leaves the queue.
SpinOnce == queue' = IF queue = <<>> THEN <<>> ELSE Tail(queue)

\* The controller takes a published command; the arm's history is brought up to date.
Publish(q, total) ==
  /\ command' = IF active THEN q ELSE command
  /\ arrived' = (arrived \/ (total /\ InTolerance(arm)))

\* _wait_for_joint_state returns the first joint state that arrives.
WaitGetsState ==
  /\ node = "waiting"
  /\ queue # <<>>
  /\ SpinOnce
  /\ latest' = <<Head(queue)>>
  /\ node' = "solving"
  /\ UNCHANGED <<outcome, request, commands, sent, holds, armVars, active>>

WaitTimesOut ==
  /\ node = "waiting"
  /\ Exits("failed")

\* inverse_tcp: the joint goals whose TCP is within its tolerance of a target.  Which one
\* is found depends on the seeds; none need be.
IkGoals(t) == {goal \in Positions : Distance(t, goal) <= IkTol}

\* The rest of plan(), and execute() up to its first publication.  With
\* execute=false nothing is published.  Joint states stored from here to fresh_after
\* are never read.
Plan ==
  /\ node = "solving"
  /\ \E goal \in IkGoals(request.target) :
       IF request.execute
       THEN /\ commands' = Trajectory(latest[1], goal, request.span)
            /\ node' = "publishing"
            /\ latest' = <<>>
            /\ UNCHANGED <<outcome, request, sent, holds, queue, armVars, active>>
       ELSE Exits("planned")

\* No seed converges.
PlanFails ==
  /\ node = "solving"
  /\ Exits("failed")

PublishNext ==
  /\ node = "publishing"
  /\ sent < Len(commands)
  /\ Publish(commands[sent + 1], sent + 1 = Len(commands))
  /\ sent' = sent + 1
  /\ SpinOnce
  /\ IF sent' = Len(commands)
     THEN node' = "holding" /\ holds' = Hold
     ELSE UNCHANGED <<node, holds>>
  /\ UNCHANGED <<outcome, request, commands, latest, arm, active, drops>>

\* Mutant: the hold publishes and sleeps without spinning.
HoldsWithoutSpinning ==
  /\ node = "holding"
  /\ holds > 0
  /\ Publish(Goal, TRUE)
  /\ holds' = holds - 1
  /\ UNCHANGED <<node, latest, queue, outcome, request, commands, sent, arm, active, drops>>

\* Mutant: the hold ends one iteration late.
HoldsPastEnd ==
  /\ node = "holding"
  /\ holds >= 0
  /\ Publish(Goal, TRUE)
  /\ holds' = holds - 1
  /\ SpinOnce
  /\ UNCHANGED <<node, outcome, request, commands, sent, latest, arm, active, drops>>

\* One iteration of the final hold.
HoldEndpoint ==
  /\ node = "holding"
  /\ holds > 0
  /\ Publish(Goal, TRUE)
  /\ holds' = holds - 1
  /\ SpinOnce
  /\ UNCHANGED <<node, outcome, request, commands, sent, latest, arm, active, drops>>

\* fresh_after: only a joint state taken from the queue from here on counts.
VerifyStarts ==
  /\ node = "holding"
  /\ holds = 0
  /\ node' = "verifying"
  /\ Publish(Goal, TRUE)
  /\ UNCHANGED <<outcome, request, commands, sent, holds, latest, queue, arm, active, drops>>

\* One iteration of the verification that takes a joint state.
VerifyReads ==
  /\ node = "verifying"
  /\ queue # <<>>
  /\ IF EndpointOk(Head(queue))
     THEN Exits("reached")
     ELSE /\ SpinOnce
          /\ latest' = <<Head(queue)>>
          /\ Publish(Goal, TRUE)
          /\ UNCHANGED <<node, outcome, request, commands, sent, holds, arm, active, drops>>

\* Mutant: the deadline is only looked at once a joint state has arrived.
TimesOutOnFeedback ==
  /\ node = "verifying"
  /\ latest # <<>>
  /\ Exits("failed")

\* feedback_deadline passes: no fresh joint state, or none within tolerance.
VerifyTimesOut ==
  /\ node = "verifying"
  /\ Exits("failed")

NodeStep ==
  \/ WaitGetsState \/ WaitTimesOut \/ Plan \/ PlanFails
  \/ PublishNext \/ HoldEndpoint \/ VerifyStarts \/ VerifyReads \/ VerifyTimesOut

-----------------------------------------------------------------------------
(* The controller, the drives and the broadcaster.                         *)

MovesTo(q) ==
  /\ arm' = q
  /\ arrived' = (arrived \/ (node \in {"holding", "verifying"} /\ InTolerance(q)))

ArmFollows ==
  /\ active
  /\ arm # command
  /\ MovesTo(IF arm < command THEN arm + 1 ELSE arm - 1)
  /\ UNCHANGED <<nodeVars, command, active, drops>>

\* A load, a stall or a drive fault displaces the arm while the node runs.
ArmDisplaced ==
  /\ node # "off"
  /\ drops < MaxDrops
  /\ drops' = drops + 1
  /\ \E q \in Positions \ {arm} : MovesTo(q)
  /\ UNCHANGED <<nodeVars, command, active>>

\* The queue keeps the last Depth joint states.
StatePublished ==
  /\ active
  /\ node # "off"
  /\ queue' = LET q == Append(queue, arm)
              IN IF Len(q) > Depth THEN Tail(q) ELSE q
  /\ UNCHANGED <<node, outcome, request, commands, sent, holds, latest, armVars, active>>

MotionEnvironment == ArmFollows \/ ArmDisplaced \/ StatePublished

-----------------------------------------------------------------------------
(* Properties.                                                             *)

MotionTypeOK ==
  /\ node \in {"off", "waiting", "solving", "publishing", "holding", "verifying"}
  /\ outcome \in {"none", "planned", "reached", "failed"}
  /\ request \in [target : Targets, span : Spans, execute : BOOLEAN]
  /\ commands \in Seq(Positions)
  /\ sent \in 0 .. Len(commands)
  /\ holds \in 0 .. Hold
  /\ latest \in {<<>>} \cup {<<q>> : q \in Positions}
  /\ queue \in Seq(Positions) /\ Len(queue) <= Depth
  /\ command \in Positions /\ arm \in Positions
  /\ active \in BOOLEAN /\ arrived \in BOOLEAN
  /\ drops \in 0 .. MaxDrops

\* A run that reports reached=true has had the arm at the endpoint, in joint and in
\* Cartesian space, after its whole trajectory was published: a joint state that was
\* taken on the way, and waited in the queue, cannot be the one the verdict rests on.
ReachedMeansArrived ==
  [][outcome = "none" /\ outcome' = "reached" => arrived]_motionVars

\* The commands end where inverse kinematics put the target and never turn back on the
\* way: neither rounding the sample count nor replacing the last sample does.
CommandsApproachGoal ==
  node \in {"publishing", "holding", "verifying"} =>
    /\ Distance(Goal, request.target) <= IkTol
    /\ \A k \in 1 .. Len(commands) - 1 :
         Distance(Goal, commands[k + 1]) <= Distance(Goal, commands[k])

\* Every run of the node ends, whatever the arm and the session do.
NodeReturns == node # "off" ~> node = "off"

=============================================================================
