---------------------------- MODULE PlanGateProofs ----------------------------
(***************************************************************************)
(* Theorems about PlanGate and the WP3 node in it, for any interval of     *)
(* positions, any targets, durations and tolerances, any queue that is not *)
(* longer than the hold, and any number of shells, kills and displacements.*)
(*                                                                         *)
(* The node and the gate are proved one after the other: whatever the      *)
(* terminals do to the node's variables is one of a few motion steps.      *)
(***************************************************************************)
EXTENDS PlanGate, TrajectoryProofs

-----------------------------------------------------------------------------
(* Steps of the node and the arm.                                          *)

\* A terminal runs the node.
NodeStarted ==
  /\ node = "off"
  /\ \E s \in Signatures, e \in BOOLEAN : NodeStarts(s.target, s.span, e)

\* The controllers start, fail, or take a command of the gripper's motion.
ControllersChange ==
  /\ active' \in BOOLEAN
  /\ command' \in {command, arm}
  /\ UNCHANGED <<nodeVars, arm, drops, arrived>>

MotionNext ==
  NodeStep \/ MotionEnvironment \/ NodeStarted \/ ControllersChange \/ Exits("failed")

\* What the stages of the node have in common with its variables.
StageOK ==
  /\ node = "off" <=> outcome # "none"
  /\ node \in {"off", "waiting", "solving"} => sent = 0
  /\ node = "solving" => latest # <<>>
  /\ node \in {"publishing", "holding", "verifying"} => commands # <<>>

\* Once the whole trajectory is published, the arm cannot be at the endpoint unseen, and
\* of the joint states that wait only those that the hold will still take are older.
ArrivalOK ==
  /\ node \in {"holding", "verifying"} /\ InTolerance(arm) => arrived
  /\ node = "holding" =>
       \A k \in 1 .. Len(queue) : k > holds /\ InTolerance(queue[k]) => arrived
  /\ node = "verifying" =>
       \A k \in 1 .. Len(queue) : InTolerance(queue[k]) => arrived

MotionInv == MotionTypeOK /\ StageOK /\ CommandsApproachGoal /\ ArrivalOK

LEMMA MotionInitInv == MotionInit /\ target \in Signatures => MotionInv
<1> SUFFICES ASSUME MotionInit, target \in Signatures PROVE MotionInv
  OBVIOUS
<1>1. NoRequest \in [target : Targets, span : Spans, execute : BOOLEAN]
  BY DEF NoRequest, Signatures
<1>2. Hold \in Nat /\ Depth \in Nat /\ MaxDrops \in Nat
  BY MotionAssumption
<1>3. MotionTypeOK
  <2>1. commands \in Seq(Positions) /\ queue \in Seq(Positions) /\ Len(commands) = 0 /\ Len(queue) = 0
    BY EmptySeq DEF MotionInit
  <2>2. latest \in {<<>>} \cup {<<q>> : q \in Positions}
    BY Zenon DEF MotionInit
  <2>3. sent \in 0 .. Len(commands) /\ holds \in 0 .. Hold /\ drops \in 0 .. MaxDrops /\ Len(queue) <= Depth
    BY <1>2, <2>1 DEF MotionInit
  <2>4. request \in [target : Targets, span : Spans, execute : BOOLEAN]
    BY <1>1, Zenon DEF MotionInit
  <2> QED BY <2>1, <2>2, <2>3, <2>4 DEF MotionInit, MotionTypeOK
<1>4. StageOK /\ CommandsApproachGoal /\ ArrivalOK
  BY DEF MotionInit, StageOK, CommandsApproachGoal, ArrivalOK
<1> QED BY <1>3, <1>4 DEF MotionInv

\* The end of a run leaves nothing behind.
LEMMA ExitsInv ==
  ASSUME MotionInv, NEW r \in {"planned", "reached", "failed"}, Exits(r)
  PROVE  MotionInv'
<1>1. NoRequest \in [target : Targets, span : Spans, execute : BOOLEAN]
  BY DEF NoRequest, MotionInv, MotionTypeOK
<1>2. MotionTypeOK'
  <2>1. Hold \in Nat /\ Depth \in Nat /\ MaxDrops \in Nat
    BY MotionAssumption
  <2>2. /\ commands' \in Seq(Positions) /\ Len(commands') = 0
        /\ queue' \in Seq(Positions) /\ Len(queue') = 0
    BY EmptySeq DEF Exits
  <2>3. latest' \in {<<>>} \cup {<<q>> : q \in Positions}
    BY Zenon DEF Exits
  <2>4. /\ sent' \in 0 .. Len(commands') /\ holds' \in 0 .. Hold
        /\ drops' \in 0 .. MaxDrops /\ Len(queue') <= Depth
    BY <2>1, <2>2 DEF Exits
  <2>5. request' \in [target : Targets, span : Spans, execute : BOOLEAN]
    BY <1>1, Zenon DEF Exits
  <2> QED BY <2>2, <2>3, <2>4, <2>5 DEF MotionInv, Exits, MotionTypeOK
<1>3. (StageOK /\ CommandsApproachGoal /\ ArrivalOK)'
  BY DEF Exits, StageOK, CommandsApproachGoal, ArrivalOK
<1> QED BY <1>2, <1>3 DEF MotionInv

\* One joint state leaves the queue.
LEMMA QueueShifts ==
  ASSUME queue \in Seq(Positions), Len(queue) <= Depth, SpinOnce
  PROVE  /\ queue' \in Seq(Positions) /\ Len(queue') <= Depth
         /\ \A k \in 1 .. Len(queue') : k + 1 \in 1 .. Len(queue) /\ queue'[k] = queue[k + 1]
<1>1. CASE queue = <<>>
  BY <1>1 DEF SpinOnce
<1>2. CASE queue # <<>>
  <2>1. queue' = Tail(queue)
    BY <1>2 DEF SpinOnce
  <2>2. Len(queue) \in Nat \ {0}
    BY <1>2, EmptySeq
  <2>3. /\ Tail(queue) \in Seq(Positions) /\ Len(Tail(queue)) = Len(queue) - 1
        /\ \A k \in 1 .. Len(Tail(queue)) : Tail(queue)[k] = queue[k + 1]
    BY <1>2, <2>2
  <2> QED BY <2>1, <2>2, <2>3, MotionAssumption
<1> QED BY <1>1, <1>2

\* The tolerances are read off the goal and the request.
LEMMA ToleranceKept ==
  ASSUME UNCHANGED <<commands, request>>
  PROVE  /\ \A q : InTolerance(q)' <=> InTolerance(q)
         /\ Goal' = Goal
BY DEF InTolerance, Goal

LEMMA GoalTyped ==
  ASSUME MotionInv, node \in {"publishing", "holding", "verifying"}
  PROVE  /\ Goal \in Positions /\ Len(commands) \in Nat \ {0}
         /\ \A k \in 1 .. Len(commands) : commands[k] \in Positions
<1>1. commands \in Seq(Positions) /\ commands # <<>>
  BY DEF MotionInv, MotionTypeOK, StageOK
<1>2. Len(commands) \in Nat \ {0}
  BY <1>1, EmptySeq
<1> QED BY <1>1, <1>2, ElementOfSeq DEF Goal

LEMMA ApproachKept ==
  ASSUME CommandsApproachGoal, UNCHANGED <<commands, request>>,
         node' \in {"publishing", "holding", "verifying"} =>
           node \in {"publishing", "holding", "verifying"}
  PROVE  CommandsApproachGoal'
BY DEF CommandsApproachGoal, Goal

-----------------------------------------------------------------------------
(* The node's actions.                                                     *)

LEMMA StartInv ==
  ASSUME MotionInv, NodeStarted
  PROVE  MotionInv'
<1>1. MotionTypeOK'
  BY DEF MotionInv, MotionTypeOK, NodeStarted, NodeStarts, Signatures, armVars
<1>2. (StageOK /\ CommandsApproachGoal /\ ArrivalOK)'
  BY DEF MotionInv, NodeStarted, NodeStarts, StageOK, CommandsApproachGoal, ArrivalOK
<1> QED BY <1>1, <1>2 DEF MotionInv

LEMMA ControllersInv ==
  ASSUME MotionInv, ControllersChange
  PROVE  MotionInv'
<1> USE DEF MotionInv, ControllersChange, nodeVars
<1>1. MotionTypeOK'
  BY DEF MotionTypeOK
<1>2. StageOK' /\ CommandsApproachGoal'
  BY ApproachKept DEF StageOK
<1>3. ArrivalOK'
  BY ToleranceKept DEF ArrivalOK
<1> QED BY <1>1, <1>2, <1>3

LEMMA WaitInv ==
  ASSUME MotionInv, WaitGetsState
  PROVE  MotionInv'
<1> USE DEF MotionInv, WaitGetsState, armVars
<1>1. queue' \in Seq(Positions) /\ Len(queue') <= Depth
  BY QueueShifts DEF MotionTypeOK
<1>2. Head(queue) \in Positions
  <2>1. queue \in Seq(Positions) /\ queue # <<>>
    BY DEF MotionTypeOK
  <2>2. 1 \in 1 .. Len(queue)
    BY <2>1, EmptySeq
  <2> QED BY <2>1, <2>2, ElementOfSeq
<1>3. MotionTypeOK'
  BY <1>1, <1>2 DEF MotionTypeOK
<1>4. (StageOK /\ CommandsApproachGoal /\ ArrivalOK)'
  BY DEF StageOK, CommandsApproachGoal, ArrivalOK
<1> QED BY <1>3, <1>4

LEMMA PlanInv ==
  ASSUME MotionInv, Plan
  PROVE  MotionInv'
<1>1. PICK goal \in IkGoals(request.target) :
        IF request.execute
        THEN /\ commands' = Trajectory(latest[1], goal, request.span)
             /\ node' = "publishing"
             /\ latest' = <<>>
             /\ UNCHANGED <<outcome, request, sent, holds, queue, armVars, active>>
        ELSE Exits("planned")
  BY DEF Plan
<1>2. CASE ~request.execute
  BY <1>1, <1>2, ExitsInv
<1>3. CASE request.execute
  <2> USE DEF MotionInv
  <2>1. /\ goal \in Positions /\ Distance(request.target, goal) <= IkTol
        /\ latest[1] \in Positions
        /\ request.span \in Nat \ {0} /\ request.target \in Positions
    <3>1. goal \in Positions /\ Distance(request.target, goal) <= IkTol
      BY DEF IkGoals
    <3>2. request.span \in Nat \ {0} /\ request.target \in Positions
      BY MotionAssumption DEF MotionTypeOK
    <3>3. PICK q \in Positions : latest = <<q>>
      BY DEF Plan, StageOK, MotionTypeOK
    <3> QED BY <3>1, <3>2, <3>3
  <2>2. /\ commands' = Trajectory(latest[1], goal, request.span)
        /\ node' = "publishing" /\ latest' = <<>>
        /\ UNCHANGED <<outcome, request, sent, holds, queue, command, arm, drops, arrived,
                       active>>
    BY <1>1, <1>3 DEF armVars
  <2>3. /\ commands' \in Seq(Positions) /\ Len(commands') \in Nat /\ Len(commands') >= 2
        /\ commands'[Len(commands')] = goal
        /\ NeverTurnsBack(commands')
    BY <2>1, <2>2, TrajectoryApproachesGoal, LenProperties
  <2>4. sent = 0 /\ node = "solving" /\ outcome = "none"
    BY DEF Plan, StageOK
  <2>5. MotionTypeOK'
    BY <2>2, <2>3, <2>4 DEF MotionTypeOK
  <2>6. StageOK'
    <3>1. commands' # <<>>
      BY <2>3, EmptySeq
    <3> QED BY <2>2, <2>4, <3>1 DEF StageOK
  <2>7. CommandsApproachGoal'
    <3>1. Distance(goal, request.target) <= IkTol
      <4>1. goal \in Int /\ request.target \in Int
        BY <2>1, MotionAssumption
      <4> QED BY <2>1, <4>1 DEF Distance
    <3> QED BY <2>2, <2>3, <3>1 DEF CommandsApproachGoal, NeverTurnsBack, Goal
  <2>8. ArrivalOK'
    BY <2>2 DEF ArrivalOK
  <2> QED BY <2>5, <2>6, <2>7, <2>8
<1> QED BY <1>2, <1>3

LEMMA PublishInv ==
  ASSUME MotionInv, PublishNext
  PROVE  MotionInv'
<1> USE DEF MotionInv
<1>1. /\ queue' \in Seq(Positions) /\ Len(queue') \in Nat /\ Len(queue') <= Depth
      /\ Len(commands) \in Nat \ {0} /\ commands[sent + 1] \in Positions
      /\ sent \in Nat /\ Depth \in Nat /\ Hold \in Nat /\ Depth <= Hold
  <2>1. queue' \in Seq(Positions) /\ Len(queue') <= Depth
    BY QueueShifts DEF PublishNext, MotionTypeOK
  <2>2. /\ Len(commands) \in Nat \ {0}
        /\ \A k \in 1 .. Len(commands) : commands[k] \in Positions
    BY GoalTyped DEF PublishNext
  <2>3. sent \in 0 .. Len(commands) /\ sent < Len(commands)
    BY DEF PublishNext, MotionTypeOK
  <2> QED BY <2>1, <2>2, <2>3, LenProperties, MotionAssumption
<1>2. MotionTypeOK'
  <2>1. arrived' \in BOOLEAN
    BY Zenon DEF PublishNext, Publish, MotionTypeOK
  <2>2. command' \in Positions
    BY <1>1 DEF PublishNext, Publish, MotionTypeOK
  <2> QED BY <1>1, <2>1, <2>2 DEF PublishNext, MotionTypeOK
<1>3. StageOK'
  BY <1>1 DEF PublishNext, StageOK
<1>4. CommandsApproachGoal'
  BY ApproachKept DEF PublishNext
<1>5. ArrivalOK'
  <2>1. CASE sent + 1 # Len(commands)
    BY <2>1 DEF PublishNext, ArrivalOK
  <2>2. CASE sent + 1 = Len(commands)
    <3>1. node' = "holding" /\ holds' = Hold /\ UNCHANGED <<commands, request, arm>>
      BY <2>2 DEF PublishNext
    <3>2. InTolerance(arm) => arrived'
      BY <2>2, Zenon DEF PublishNext, Publish
    <3>3. \A k \in 1 .. Len(queue') : ~(k > holds')
      BY <1>1, <3>1
    <3> QED BY <3>1, <3>2, <3>3, ToleranceKept DEF ArrivalOK
  <2> QED BY <2>1, <2>2
<1> QED BY <1>2, <1>3, <1>4, <1>5

\* The steps of the hold and of the verification that publish the endpoint again.
LEMMA EndpointInv ==
  ASSUME MotionInv, HoldEndpoint \/ VerifyStarts
  PROVE  MotionInv'
<1> USE DEF MotionInv
<1>1. /\ node = "holding" /\ Publish(Goal, TRUE)
      /\ UNCHANGED <<outcome, request, commands, sent, latest, arm, active, drops>>
  BY DEF HoldEndpoint, VerifyStarts
<1>2. /\ arrived' \in BOOLEAN /\ command' \in Positions
      /\ arrived => arrived'
      /\ InTolerance(arm) => arrived'
  <2>1. arrived' \in BOOLEAN /\ (arrived => arrived') /\ (InTolerance(arm) => arrived')
    BY <1>1, Zenon DEF Publish, MotionTypeOK
  <2>2. command' \in Positions
    BY <1>1, GoalTyped DEF Publish, MotionTypeOK
  <2> QED BY <2>1, <2>2
<1>3. CommandsApproachGoal'
  BY <1>1, ApproachKept
<1>4. CASE HoldEndpoint
  <2>1. /\ holds \in Nat /\ Hold \in Nat /\ holds <= Hold /\ holds > 0 /\ holds' = holds - 1
        /\ node' = "holding" /\ SpinOnce
    BY <1>4, MotionAssumption DEF HoldEndpoint, MotionTypeOK
  <2>2. /\ queue' \in Seq(Positions) /\ Len(queue') <= Depth
        /\ \A k \in 1 .. Len(queue') : k + 1 \in 1 .. Len(queue) /\ queue'[k] = queue[k + 1]
    BY <2>1, QueueShifts DEF MotionTypeOK
  <2>3. MotionTypeOK'
    BY <1>1, <1>2, <2>1, <2>2 DEF MotionTypeOK
  <2>4. StageOK'
    BY <1>1, <2>1 DEF StageOK
  <2>5. ASSUME NEW k \in 1 .. Len(queue'), k > holds', InTolerance(queue'[k])
        PROVE  arrived
    <3>1. k + 1 \in 1 .. Len(queue) /\ k + 1 > holds /\ InTolerance(queue[k + 1])
      BY <2>1, <2>2, <2>5
    <3> QED BY <1>1, <3>1 DEF ArrivalOK
  <2>6. ArrivalOK'
    BY <1>1, <1>2, <2>1, <2>5, ToleranceKept DEF ArrivalOK
  <2> QED BY <1>3, <2>3, <2>4, <2>6
<1>5. CASE VerifyStarts
  <2>1. node' = "verifying" /\ holds = 0 /\ UNCHANGED <<holds, queue>>
    BY <1>5 DEF VerifyStarts
  <2>2. MotionTypeOK'
    BY <1>1, <1>2, <2>1 DEF MotionTypeOK
  <2>3. StageOK'
    BY <1>1, <2>1 DEF StageOK
  <2>4. \A k \in 1 .. Len(queue) : InTolerance(queue[k]) => arrived
    BY <1>1, <2>1 DEF ArrivalOK
  <2>5. ArrivalOK'
    BY <1>1, <1>2, <2>1, <2>4, ToleranceKept DEF ArrivalOK
  <2> QED BY <1>3, <2>2, <2>3, <2>5
<1> QED BY <1>4, <1>5

LEMMA VerifyInv ==
  ASSUME MotionInv, VerifyReads
  PROVE  MotionInv'
<1>1. CASE EndpointOk(Head(queue))
  BY <1>1, ExitsInv DEF VerifyReads
<1>2. CASE ~EndpointOk(Head(queue))
  <2> USE DEF MotionInv
  <2>1. /\ node = "verifying" /\ node' = "verifying" /\ queue # <<>>
        /\ SpinOnce /\ latest' = <<Head(queue)>>
        /\ Publish(Goal, TRUE)
        /\ UNCHANGED <<outcome, request, commands, sent, holds, arm, active, drops>>
    BY <1>2 DEF VerifyReads
  <2>2. /\ queue' \in Seq(Positions) /\ Len(queue') <= Depth
        /\ \A k \in 1 .. Len(queue') : k + 1 \in 1 .. Len(queue) /\ queue'[k] = queue[k + 1]
    BY <2>1, QueueShifts DEF MotionTypeOK
  <2>3. Head(queue) \in Positions
    <3>1. 1 \in 1 .. Len(queue) /\ queue \in Seq(Positions)
      BY <2>1, EmptySeq DEF MotionTypeOK
    <3> QED BY <3>1, ElementOfSeq
  <2>4. arrived' \in BOOLEAN /\ (arrived => arrived') /\ (InTolerance(arm) => arrived')
    BY <2>1, Zenon DEF Publish, MotionTypeOK
  <2>5. command' \in Positions
    BY <2>1, GoalTyped DEF Publish, MotionTypeOK
  <2>6. MotionTypeOK'
    BY <2>1, <2>2, <2>3, <2>4, <2>5 DEF MotionTypeOK
  <2>7. StageOK' /\ CommandsApproachGoal'
    BY <2>1, ApproachKept DEF StageOK
  <2>8. \A k \in 1 .. Len(queue') : InTolerance(queue'[k]) => arrived
    BY <2>1, <2>2 DEF ArrivalOK
  <2>9. ArrivalOK'
    BY <2>1, <2>4, <2>8, ToleranceKept DEF ArrivalOK
  <2> QED BY <2>6, <2>7, <2>9
<1> QED BY <1>1, <1>2

-----------------------------------------------------------------------------
(* The arm, the controller and the broadcaster.                            *)

LEMMA MovesInv ==
  ASSUME MotionInv, ArmFollows \/ ArmDisplaced
  PROVE  MotionInv'
<1> USE DEF MotionInv
<1>1. /\ arm' \in Positions /\ UNCHANGED <<nodeVars, command, active>>
      /\ MovesTo(arm') /\ drops' \in 0 .. MaxDrops
  <2>1. CASE ArmFollows
    <3>1. arm' \in Positions
      <4>1. arm \in Int /\ command \in Int /\ arm # command
            /\ (arm .. command) \cup (command .. arm) \subseteq Positions
        BY <2>1, MotionAssumption DEF ArmFollows, MotionTypeOK
      <4>2. arm' \in (arm .. command) \cup (command .. arm)
        BY <2>1, <4>1 DEF ArmFollows, MovesTo
      <4> QED BY <4>1, <4>2
    <3> QED BY <2>1, <3>1 DEF ArmFollows, MovesTo, MotionTypeOK
  <2>2. CASE ArmDisplaced
    <3>1. PICK q \in Positions \ {arm} : MovesTo(q)
      BY <2>2 DEF ArmDisplaced
    <3>2. drops \in 0 .. MaxDrops /\ drops < MaxDrops /\ drops' = drops + 1 /\ MaxDrops \in Nat
      BY <2>2, MotionAssumption DEF ArmDisplaced, MotionTypeOK
    <3> QED BY <2>2, <3>1, <3>2 DEF ArmDisplaced, MovesTo
  <2> QED BY <2>1, <2>2
<1>2. /\ arrived' \in BOOLEAN /\ (arrived => arrived')
      /\ node \in {"holding", "verifying"} /\ InTolerance(arm') => arrived'
  BY <1>1, Zenon DEF MovesTo, MotionTypeOK
<1>3. MotionTypeOK'
  BY <1>1, <1>2 DEF nodeVars, MotionTypeOK
<1>4. StageOK' /\ CommandsApproachGoal'
  BY <1>1, ApproachKept DEF nodeVars, StageOK
<1>5. ArrivalOK'
  <2>1. UNCHANGED <<commands, request, node, holds, queue>>
    BY <1>1 DEF nodeVars
  <2> QED BY <1>2, <2>1, ToleranceKept DEF ArrivalOK
<1> QED BY <1>3, <1>4, <1>5

\* A joint state is queued; a full queue drops its oldest.
LEMMA QueueGrows ==
  ASSUME queue \in Seq(Positions), Len(queue) <= Depth, arm \in Positions, StatePublished
  PROVE  /\ queue' \in Seq(Positions) /\ Len(queue') <= Depth
         /\ \A k \in 1 .. Len(queue') :
              \/ queue'[k] = arm
              \/ \E j \in 1 .. Len(queue) : j >= k /\ queue'[k] = queue[j]
<1> DEFINE q == Append(queue, arm)
<1>1. /\ Len(queue) \in Nat /\ Depth \in Nat \ {0}
      /\ q \in Seq(Positions) /\ Len(q) = Len(queue) + 1
      /\ \A k \in 1 .. Len(q) : q[k] = IF k = Len(q) THEN arm ELSE queue[k]
  BY MotionAssumption
<1>2. queue' = IF Len(q) > Depth THEN Tail(q) ELSE q
  BY DEF StatePublished
<1> HIDE DEF q
<1>3. CASE Len(q) > Depth
  <2>1. /\ queue' \in Seq(Positions) /\ Len(queue') = Len(queue)
        /\ \A k \in 1 .. Len(queue') : queue'[k] = q[k + 1]
    BY <1>1, <1>2, <1>3
  <2>2. ASSUME NEW k \in 1 .. Len(queue')
        PROVE  \/ queue'[k] = arm
               \/ \E j \in 1 .. Len(queue) : j >= k /\ queue'[k] = queue[j]
    <3>1. k + 1 \in 1 .. Len(q) /\ (k + 1 # Len(q) => k + 1 \in 1 .. Len(queue))
      BY <1>1, <2>1
    <3> QED BY <1>1, <2>1, <3>1
  <2> QED BY <2>1, <2>2
<1>4. CASE ~(Len(q) > Depth)
  BY <1>1, <1>2, <1>4
<1> QED BY <1>3, <1>4

LEMMA StateInv ==
  ASSUME MotionInv, StatePublished
  PROVE  MotionInv'
<1> USE DEF MotionInv
<1>1. /\ queue' \in Seq(Positions) /\ Len(queue') <= Depth
      /\ \A k \in 1 .. Len(queue') :
           \/ queue'[k] = arm
           \/ \E j \in 1 .. Len(queue) : j >= k /\ queue'[k] = queue[j]
  BY QueueGrows DEF MotionTypeOK
<1>2. UNCHANGED <<node, outcome, request, commands, sent, holds, latest, command, arm, drops,
                  arrived, active>>
  BY DEF StatePublished, armVars
<1>3. MotionTypeOK'
  BY <1>1, <1>2 DEF MotionTypeOK
<1>4. StageOK' /\ CommandsApproachGoal'
  BY <1>2, ApproachKept DEF StageOK
<1>5. ArrivalOK'
  <2>1. ASSUME node = "holding", NEW k \in 1 .. Len(queue'), k > holds, InTolerance(queue'[k])
        PROVE  arrived
    <3>1. CASE queue'[k] = arm
      BY <2>1, <3>1 DEF ArrivalOK
    <3>2. CASE \E j \in 1 .. Len(queue) : j >= k /\ queue'[k] = queue[j]
      <4>1. PICK j \in 1 .. Len(queue) : j >= k /\ queue'[k] = queue[j]
        BY <3>2
      <4>2. j > holds
        <5>1. holds \in Int /\ k \in Int /\ j \in Int
          BY <1>1, MotionAssumption, LenProperties DEF MotionTypeOK
        <5> QED BY <2>1, <4>1, <5>1
      <4> QED BY <2>1, <4>1, <4>2 DEF ArrivalOK
    <3> QED BY <1>1, <3>1, <3>2
  <2>2. ASSUME node = "verifying", NEW k \in 1 .. Len(queue'), InTolerance(queue'[k])
        PROVE  arrived
    BY <1>1, <2>2 DEF ArrivalOK
  <2> QED BY <1>2, <2>1, <2>2, ToleranceKept DEF ArrivalOK
<1> QED BY <1>3, <1>4, <1>5

LEMMA MotionStepInv ==
  ASSUME MotionInv, MotionNext
  PROVE  MotionInv'
<1>1. CASE NodeStep
  BY <1>1, WaitInv, PlanInv, PublishInv, EndpointInv, VerifyInv, ExitsInv
  DEF NodeStep, WaitTimesOut, PlanFails, VerifyTimesOut
<1>2. CASE MotionEnvironment
  BY <1>2, MovesInv, StateInv DEF MotionEnvironment
<1> QED BY <1>1, <1>2, StartInv, ControllersInv, ExitsInv DEF MotionNext

LEMMA MotionStutterInv ==
  ASSUME MotionInv, UNCHANGED motionVars
  PROVE  MotionInv'
<1> USE DEF MotionInv, motionVars, nodeVars, armVars
<1>1. MotionTypeOK'
  BY DEF MotionTypeOK
<1>2. StageOK' /\ CommandsApproachGoal'
  BY ApproachKept DEF StageOK
<1>3. ArrivalOK'
  BY ToleranceKept DEF ArrivalOK
<1> QED BY <1>1, <1>2, <1>3

-----------------------------------------------------------------------------
(* The gate.                                                               *)

GateTypeOK ==
  /\ menu \in {"menu", "setting", "planning", "authorised", "executing", "gripping"}
  /\ target \in Signatures
  /\ csp_session_file \in Shells \cup {NoFile}
  /\ plan_file \in [shell : Shells, signature : Signatures] \cup {NoFile}
  /\ shell \in Shells
  /\ session \in {"none", "launching", "running"}
  /\ planned \subseteq Signatures
  /\ retargeted \in BOOLEAN
  /\ kills \in 0 .. MaxKills

\* Only groups 9 and 10 have a node running.
MenuOK == menu \in {"menu", "setting", "authorised", "gripping"} => node = "off"

\* What the files say of the present shell: it is in a session, and a plan it made is the
\* last one that this session accepted.
FilesOK ==
  /\ csp_session_file # NoFile => csp_session_file <= shell
  /\ csp_session_file = shell => session = "running"
  /\ plan_file # NoFile =>
       /\ plan_file.shell <= shell
       /\ plan_file.shell = shell => plan_file.signature \in planned

\* A plan of the present shell is for the present target as long as the target has not
\* changed.  Afterwards group 14 is still at work or was killed; one that finds the plan
\* of its predecessor matching again has itself been killed to leave it there.
RetargetOK ==
  /\ menu = "planning" => ~retargeted
  /\ plan_file # NoFile /\ plan_file.shell = shell =>
       \/ ~retargeted /\ target = plan_file.signature
       \/ menu = "setting" /\ (target # plan_file.signature \/ kills >= 1)
       \/ menu # "setting" /\ target # plan_file.signature /\ kills >= 1
       \/ menu # "setting" /\ kills >= 2

GateInv == GateTypeOK /\ MenuOK /\ FilesOK /\ RetargetOK

Inv == MotionInv /\ GateInv

\* What a step of the terminals does to the node, the arm and the controller.
LEMMA GateMotion ==
  ASSUME Inv, [Next]_vars
  PROVE  MotionNext \/ UNCHANGED motionVars
<1> USE DEF MotionNext
<1>1. CASE MotionStep
  BY <1>1 DEF MotionStep
<1>2. CASE Terminal2
  <2>1. CASE LaunchClears \/ LaunchRecords
    BY <2>1 DEF LaunchClears, LaunchRecords
  <2>2. CASE ControllersStart
    BY <2>2 DEF ControllersStart, ControllersChange
  <2>3. CASE ControllersFail \/ SessionEnds
    BY <2>3 DEF ControllersFail, SessionEnds, ControllersChange, armVars
  <2>4. CASE KillT2
    BY <2>4 DEF KillT2, ControllersChange, armVars, Inv, MotionInv, MotionTypeOK
  <2> QED BY <1>2, <2>1, <2>2, <2>3, <2>4 DEF Terminal2
<1>3. CASE Terminal3
  <2>1. ASSUME menu \in {"menu", "authorised"}, NEW e \in BOOLEAN,
               NodeStarts(target.target, target.span, e)
        PROVE  NodeStarted
    BY <2>1 DEF NodeStarted, Inv, GateInv, GateTypeOK, MenuOK
  <2>2. CASE PlanBegins \/ ExecuteBegins
    BY <2>1, <2>2 DEF PlanBegins, ExecuteBegins
  <2>3. CASE GripperBegins
    BY <2>3 DEF GripperBegins, ControllersChange, Inv, MotionInv, MotionTypeOK
  <2>4. CASE KillT3
    BY <2>4 DEF KillT3
  <2>5. CASE SetTarget \/ SetTargetClears \/ PlanRejected \/ PlanSaved
               \/ ExecuteChecks \/ ExecuteEnds \/ GripperEnds
    BY <2>5 DEF SetTarget, SetTargetClears, PlanRejected, PlanSaved, ExecuteChecks,
                ExecuteEnds, GripperEnds
  <2> QED BY <1>3, <2>2, <2>3, <2>4, <2>5 DEF Terminal3
<1>4. CASE UNCHANGED vars
  BY <1>4 DEF vars
<1> QED BY <1>1, <1>2, <1>3, <1>4 DEF Next

LEMMA Terminal2Inv ==
  ASSUME Inv, Terminal2
  PROVE  GateInv'
<1> USE DEF Inv, GateInv, Expires, historyVars
<1>1. MenuOK'
  BY DEF MenuOK, Terminal2, LaunchClears, LaunchRecords, ControllersStart, ControllersFail,
         SessionEnds, KillT2, motionVars, nodeVars
<1>2. shell \in Nat /\ NoFile \notin Shells /\ Shells \subseteq Nat
  BY GateAssumption DEF GateTypeOK, Shells
<1>3. CASE LaunchClears
  BY <1>1, <1>2, <1>3 DEF LaunchClears, GateTypeOK, FilesOK, RetargetOK
<1>4. CASE LaunchRecords
  BY <1>1, <1>2, <1>4 DEF LaunchRecords, GateTypeOK, FilesOK, RetargetOK
<1>5. CASE ControllersStart \/ ControllersFail
  BY <1>1, <1>5 DEF ControllersStart, ControllersFail, t2Vars, GateTypeOK, FilesOK, RetargetOK
<1>6. CASE SessionEnds
  BY <1>1, <1>2, <1>6 DEF SessionEnds, GateTypeOK, FilesOK, RetargetOK
<1>7. CASE KillT2
  <2>1. /\ shell' = shell + 1 /\ shell' \in Shells /\ session' = "none" /\ planned' = {}
        /\ retargeted' = FALSE /\ kills' \in 0 .. MaxKills
        /\ UNCHANGED <<menu, target, plan_file, csp_session_file>>
    BY <1>7, GateAssumption DEF KillT2, GateTypeOK
  <2>2. GateTypeOK'
    BY <2>1 DEF GateTypeOK
  <2>3. csp_session_file # NoFile => csp_session_file \in Nat /\ csp_session_file < shell'
    BY <1>2, <2>1 DEF GateTypeOK, FilesOK, RetargetOK
  <2>4. csp_session_file # shell'
    BY <1>2, <2>1, <2>3
  <2>5. ASSUME plan_file # NoFile
        PROVE  plan_file.shell \in Nat /\ plan_file.shell < shell'
    <3> DEFINE s == plan_file.shell
    <3>1. s \in Shells /\ s <= shell
      BY <2>5 DEF GateTypeOK, FilesOK, RetargetOK
    <3> HIDE DEF s
    <3>2. s \in Nat /\ s < shell'
      BY <1>2, <2>1, <3>1
    <3> QED BY <3>2 DEF s
  <2>6. FilesOK'
    BY <1>2, <2>1, <2>3, <2>4, <2>5 DEF FilesOK
  <2>7. RetargetOK'
    BY <1>2, <2>1, <2>5 DEF RetargetOK
  <2> QED BY <1>1, <2>2, <2>6, <2>7
<1> QED BY <1>3, <1>4, <1>5, <1>6, <1>7 DEF Terminal2

LEMMA Terminal3Inv ==
  ASSUME Inv, Terminal3
  PROVE  GateInv'
<1> USE DEF Inv, GateInv, Expires, historyVars
<1>1. shell \in Nat /\ NoFile \notin Shells /\ Shells \subseteq Nat
  BY GateAssumption DEF GateTypeOK, Shells
<1>2. CASE SetTarget
  <2>1. /\ menu = "menu" /\ menu' = "setting" /\ target' \in Signatures
        /\ retargeted' = (retargeted \/ target' # target)
        /\ UNCHANGED <<node, plan_file, csp_session_file, shell, session, planned, kills>>
    BY <1>2 DEF SetTarget, motionVars, nodeVars, t2Vars
  <2>2. retargeted' \in BOOLEAN
    BY <2>1, Zenon
  <2>3. GateTypeOK' /\ MenuOK' /\ FilesOK'
    BY <2>1, <2>2 DEF GateTypeOK, MenuOK, FilesOK
  <2>4. target' = target /\ ~retargeted => ~retargeted'
    BY <2>1, Zenon
  <2>5. ASSUME plan_file # NoFile, plan_file.shell = shell
        PROVE  \/ ~retargeted' /\ target' = plan_file.signature
               \/ target' # plan_file.signature
               \/ kills >= 1
    <3>1. CASE ~retargeted /\ target = plan_file.signature
      BY <2>4, <3>1, Zenon
    <3>2. CASE kills >= 1 \/ kills >= 2
      BY <3>2 DEF GateTypeOK
    <3> QED BY <2>1, <2>5, <3>1, <3>2 DEF RetargetOK
  <2>6. RetargetOK'
    BY <2>1, <2>5 DEF RetargetOK
  <2> QED BY <2>3, <2>6
<1>9. CASE ExecuteChecks \/ GripperEnds
  BY <1>9 DEF ExecuteChecks, GripperEnds, motionVars, nodeVars, t2Vars,
              GateTypeOK, MenuOK, FilesOK, RetargetOK
<1>3. CASE SetTargetClears \/ PlanBegins \/ GripperBegins
  BY <1>3 DEF SetTargetClears, PlanBegins, GripperBegins, motionVars, nodeVars, t2Vars,
              GateTypeOK, MenuOK, FilesOK, RetargetOK
<1>4. CASE PlanRejected
  BY <1>4 DEF PlanRejected, motionVars, nodeVars, t2Vars, GateTypeOK, MenuOK, FilesOK,
              RetargetOK
<1>5. CASE PlanSaved
  <2>1. /\ menu = "planning" /\ menu' = "menu" /\ outcome = "planned"
        /\ UNCHANGED <<motionVars, target, csp_session_file, shell, session, kills>>
    BY <1>5 DEF PlanSaved, t2Vars
  <2>2. MenuOK'
    BY <2>1 DEF MenuOK, MotionInv, StageOK, motionVars, nodeVars
  <2>3. CASE csp_session_file = NoFile
    <3>1. UNCHANGED <<plan_file, historyVars>>
      BY <1>5, <2>3 DEF PlanSaved
    <3> QED BY <2>1, <2>2, <3>1 DEF GateTypeOK, FilesOK, RetargetOK
  <2>4. CASE csp_session_file # NoFile
    <3>1. /\ plan_file' = [shell |-> csp_session_file, signature |-> target]
          /\ planned' = IF session = "running" THEN {target} ELSE {}
          /\ retargeted' = retargeted
      BY <1>5, <2>4 DEF PlanSaved
    <3>2. /\ plan_file' \in [shell : Shells, signature : Signatures]
          /\ plan_file'.shell = csp_session_file /\ plan_file'.signature = target
      BY <2>4, <3>1 DEF GateTypeOK
    <3>3. GateTypeOK'
      BY <2>1, <3>1, <3>2 DEF GateTypeOK
    <3>4. FilesOK'
      BY <2>1, <2>4, <3>1, <3>2 DEF FilesOK
    <3>5. RetargetOK'
      BY <2>1, <3>1, <3>2 DEF RetargetOK
    <3> QED BY <2>2, <3>3, <3>4, <3>5
  <2> QED BY <2>3, <2>4
<1>6. CASE ExecuteBegins
  BY <1>6 DEF ExecuteBegins, NodeStarts, motionVars, nodeVars, t2Vars, GateTypeOK, MenuOK,
              FilesOK, RetargetOK
<1>7. CASE ExecuteEnds
  BY <1>7 DEF ExecuteEnds, motionVars, nodeVars, t2Vars, GateTypeOK, MenuOK, FilesOK,
              RetargetOK
<1>8. CASE KillT3
  <2>1. kills' \in 0 .. MaxKills
    BY <1>8, GateAssumption DEF KillT3, GateTypeOK
  <2>2. node' = "off"
    BY <1>8 DEF KillT3, Exits, motionVars, nodeVars
  <2> QED BY <1>8, <2>1, <2>2 DEF KillT3, t2Vars, GateTypeOK, MenuOK, FilesOK, RetargetOK
<1> QED BY <1>2, <1>3, <1>4, <1>5, <1>6, <1>7, <1>8, <1>9 DEF Terminal3

LEMMA StepInv ==
  ASSUME Inv, [Next]_vars
  PROVE  Inv'
<1>1. MotionInv'
  BY GateMotion, MotionStepInv, MotionStutterInv DEF Inv
<1>2. GateInv'
  <2>1. CASE MotionStep
    <3>1. UNCHANGED <<menu, target, plan_file, t2Vars, historyVars, kills>>
      BY <2>1 DEF MotionStep
    <3>2. MenuOK'
      <4>1. node = "off" => node' = "off"
        BY <2>1 DEF MotionStep, NodeStep, WaitGetsState, WaitTimesOut, Plan, PlanFails,
                    PublishNext, HoldEndpoint, VerifyStarts, VerifyReads, VerifyTimesOut,
                    MotionEnvironment, ArmFollows, ArmDisplaced, StatePublished, nodeVars
      <4> QED BY <3>1, <4>1 DEF Inv, GateInv, MenuOK
    <3> QED BY <3>1, <3>2 DEF Inv, GateInv, GateTypeOK, FilesOK, RetargetOK, t2Vars,
                              historyVars
  <2>2. CASE UNCHANGED vars
    BY <2>2 DEF Inv, GateInv, GateTypeOK, MenuOK, FilesOK, RetargetOK, vars, motionVars,
                nodeVars, t2Vars, historyVars
  <2> QED BY <2>1, <2>2, Terminal2Inv, Terminal3Inv DEF Next
<1> QED BY <1>1, <1>2 DEF Inv

LEMMA InitInv == Init => Inv
<1> SUFFICES ASSUME Init PROVE Inv
  OBVIOUS
<1>1. MotionInv
  BY MotionInitInv DEF Init, GateInit
<1>2. GateTypeOK
  <2>1. retargeted \in BOOLEAN
    BY Zenon DEF Init, GateInit
  <2> QED BY <2>1, GateAssumption DEF Init, GateInit, GateTypeOK, Shells
<1>3. MenuOK /\ FilesOK /\ RetargetOK
  <2>1. 1 \in Shells
    BY GateAssumption DEF Shells
  <2> QED BY <2>1, GateAssumption DEF Init, GateInit, MotionInit, MenuOK, FilesOK, RetargetOK,
                                      Shells
<1> QED BY <1>1, <1>2, <1>3 DEF Inv, GateInv

-----------------------------------------------------------------------------
(* The theorems.                                                           *)

\* The inductive invariant of the node and the gate.
THEOREM GateInvariant == Spec => []Inv
<1> QED BY InitInv, StepInv, PTL DEF Spec

\* Every variable of the node, the arm and the files keeps its type: in particular every
\* published command is a position between where the arm was and the goal.
THEOREM TypeCorrect == Spec => []TypeOK
<1>1. Inv => TypeOK
  BY DEF Inv, MotionInv, GateInv, GateTypeOK, TypeOK
<1> QED BY <1>1, GateInvariant, PTL

\* The commands end within the tolerance of inverse kinematics of the target and never
\* turn back on the way (generate_joint_trajectory).
THEOREM CommandsNeverTurnBack == Spec => []CommandsApproachGoal
<1>1. Inv => CommandsApproachGoal
  BY DEF Inv, MotionInv
<1> QED BY <1>1, GateInvariant, PTL

\* A run that reports reached=true has had the arm at the endpoint after its whole
\* trajectory was published (the final hold and the verification of execute).
THEOREM ReachedIsTrue == Spec => ReachedMeansArrived
<1>1. ASSUME Inv, [Next]_vars
      PROVE  [outcome = "none" /\ outcome' = "reached" => arrived]_motionVars
  <2> SUFFICES ASSUME outcome = "none", outcome' = "reached" PROVE arrived
    OBVIOUS
  <2>1. MotionNext
    BY <1>1, GateMotion DEF motionVars, nodeVars
  <2>2. VerifyReads /\ EndpointOk(Head(queue))
    BY <2>1 DEF MotionNext, NodeStep, WaitGetsState, WaitTimesOut, Plan, PlanFails,
                PublishNext, HoldEndpoint, VerifyStarts, VerifyReads, VerifyTimesOut,
                MotionEnvironment, ArmFollows, ArmDisplaced, StatePublished, NodeStarted,
                NodeStarts, ControllersChange, Exits, nodeVars
  <2>3. InTolerance(queue[1]) /\ 1 \in 1 .. Len(queue) /\ node = "verifying"
    <3>1. queue \in Seq(Positions) /\ queue # <<>>
      BY <1>1, <2>2 DEF VerifyReads, Inv, MotionInv, MotionTypeOK
    <3>2. Len(queue) \in Nat \ {0} /\ Head(queue) = queue[1]
      BY <3>1, EmptySeq
    <3> QED BY <2>2, <3>2 DEF VerifyReads, EndpointOk, InTolerance
  <2> QED BY <1>1, <2>3 DEF Inv, MotionInv, ArrivalOK
<1> QED BY <1>1, GateInvariant, PTL DEF Spec, ReachedMeansArrived

\* Only group_real_execute's checks let a motion pass.
LEMMA OnlyChecksPass ==
  ASSUME Inv, [Next]_vars, menu = "menu", menu' = "authorised"
  PROVE  ExecuteChecks
BY DEF Next, MotionStep, Terminal2, Terminal3, LaunchClears, LaunchRecords,
       ControllersStart, ControllersFail, SessionEnds, KillT2, SetTarget,
       SetTargetClears, PlanBegins, PlanRejected, PlanSaved, ExecuteBegins,
       ExecuteEnds, GripperBegins, GripperEnds, KillT3, vars

\* Group 10 lets a motion pass only for a target that the present session has planned,
\* over any number of killed terminals (require_matching_plan).
THEOREM ExecutionWasPlanned == Spec => ExecutedAsPlanned
<1>1. ASSUME Inv, [Next]_vars
      PROVE  [menu = "menu" /\ menu' = "authorised" => target \in planned]_vars
  <2> SUFFICES ASSUME menu = "menu", menu' = "authorised" PROVE target \in planned
    OBVIOUS
  <2> QED BY <1>1, OnlyChecksPass
             DEF ExecuteChecks, MatchingPlan, SessionLives, Inv, GateInv, FilesOK
<1> QED BY <1>1, GateInvariant, PTL DEF Spec, ExecutedAsPlanned

\* With at most one terminal killed, the target has not changed since it was planned
\* either: a killed group 14 leaves a plan that does not match (clear_plan_state after
\* save_target_state).
THEOREM OneKillIsHarmless == Spec => OneKillKeepsAuthorisation
<1>1. ASSUME Inv, [Next]_vars
      PROVE  [menu = "menu" /\ menu' = "authorised" /\ kills <= 1 => Authorised]_vars
  <2> SUFFICES ASSUME menu = "menu", menu' = "authorised", kills <= 1 PROVE Authorised
    OBVIOUS
  <2>1. /\ plan_file # NoFile /\ plan_file.shell = shell
        /\ plan_file.signature = target
    BY <1>1, OnlyChecksPass DEF ExecuteChecks, MatchingPlan, SessionLives
  <2>2. target \in planned
    BY <1>1, <2>1 DEF Inv, GateInv, FilesOK
  <2>3. kills \in Nat /\ ~(kills >= 2)
    BY <1>1, GateAssumption DEF Inv, GateInv, GateTypeOK
  <2>4. ~retargeted
    BY <1>1, <2>1, <2>3 DEF Inv, GateInv, RetargetOK
  <2> QED BY <2>2, <2>4 DEF Authorised
<1> QED BY <1>1, GateInvariant, PTL DEF Spec, OneKillKeepsAuthorisation

=============================================================================
