------------------------- MODULE IntervalHomingProofs -------------------------
(***************************************************************************)
(* Theorems about IntervalHoming for any interval, tolerance, speed, sag   *)
(* and number of lost transfers.                                           *)
(*                                                                         *)
(* The inductive invariant follows the procedure: what the drive may be    *)
(* doing at each pc, what the polls of the traversal have established      *)
(* about the sensor's edges, and how far the axis may be from the position *)
(* that will become zero.                                                  *)
(***************************************************************************)
EXTENDS IntervalHoming, TLAPS

-----------------------------------------------------------------------------
(* The inductive invariant.                                                *)

\* TypeOK without its bound on targets, which rests on the rest.
VarsOK ==
  /\ direction \in {1, -1}
  /\ axis \in -Reach .. Reach /\ origin \in -Reach .. Reach
  /\ target \in Int /\ actual \in Int /\ second \in Int /\ source \in Int
  /\ intended \in Int
  /\ power \in {"off", "enabled", "fault"}
  /\ reached \in BOOLEAN /\ attained \in BOOLEAN /\ error \in BOOLEAN
  /\ moved \in BOOLEAN /\ seen \in BOOLEAN /\ following \in BOOLEAN
  /\ motion_active \in BOOLEAN /\ guarded \in BOOLEAN
  /\ motion \in Motions
  /\ op \in {"home", "spur", "adjust"} /\ pc \in Pcs
  /\ result \in {"none", "ok", "failed"}
  /\ status \in Statuses
  /\ losses \in 0 .. MaxLosses /\ stop_losses \in 0 .. losses

\* A position seen in the direction of the search.
Depth(x) == IF direction = 1 THEN x ELSE -x

\* Which procedure is where, and what it remembers of its failures.
ControlOK ==
  /\ pc # "idle" => result = "none"
  /\ pc \in {"native_start", "native_wait", "traverse", "scan", "scan_input", "halt",
             "halt_wait", "midpoint", "mid_start", "mid_wait",
             "stop_halt", "stop_wait", "stop_voltage"} => op = "home"
  /\ pc = "release" => op = "spur"
  /\ pc \in {"zero", "zero_wait"} => op # "adjust"
  /\ pc \in {"enable", "rel_start", "rel_wait"} => op # "home"
  /\ op # "home" => ~motion_active
  /\ op = "home" /\ pc # "idle" => intended = direction * Width

StopOK ==
  /\ pc \notin StopPcs \cup {"idle"} => stop_losses = 0 /\ ~guarded
  /\ pc \in {"stop_halt", "stop_wait", "release"} => stop_losses = 0
  /\ pc = "stop_voltage" => stop_losses <= 1 /\ (stop_losses = 0 => motion = "rest")
  /\ GuardedFailureStops
  /\ FailedReferenceReleases

\* What the drive may be doing, and where its motion leads.
AtRestAt == {"traverse", "midpoint", "mid_start", "enable", "rel_start"}
MovingAt == {"scan", "scan_input", "mid_wait", "rel_wait", "zero"}

\* Where the position that becomes zero is taken to be, in counts.
ZeroGoal == IF op = "home" THEN Midpoint ELSE source + Delta

DriveOK ==
  /\ motion \in {"pending", "moving"} => Distance(target + origin, 0) <= Reach
  /\ pc \in AtRestAt => motion = "rest"
  /\ pc \in MovingAt => motion \in {"rest", "pending", "moving"}
  /\ pc \in {"halt", "halt_wait"} => motion \in {"rest", "pending", "moving", "halting"}
  /\ pc \in {"scan", "scan_input"} /\ motion # "rest" => target = direction * MaxTravel
  /\ pc \in {"mid_wait", "rel_wait", "zero"} /\ motion # "rest" => target = ZeroGoal
  /\ pc \in {"enable", "rel_start"} => Distance(axis + Delta, 0) <= Reach

\* Native homing has made the entry edge zero.
EntryOK ==
  /\ pc = "native_wait" => motion \in {"seek", "rest"}
  /\ pc = "native_wait" /\ attained =>
       motion = "rest" /\ origin = 0 /\ Depth(axis) \in -1 .. Overshoot
  /\ pc = "traverse" => origin = 0 /\ Depth(axis) \in -1 .. Overshoot
  /\ pc \in {"scan", "scan_input", "halt", "halt_wait", "midpoint", "mid_start",
             "mid_wait"} => origin = 0
  /\ op = "home" /\ pc = "zero" => origin = 0

MovedBy == IF moved THEN Step ELSE 0

\* The polls know where the axis was to within a step.
ScanOK ==
  /\ pc \in {"scan", "scan_input"} => Depth(axis) \in -1 .. MaxTravel
  /\ pc = "scan" /\ seen => Depth(axis) \in 0 .. Width + MovedBy
  /\ pc = "scan_input" =>
       /\ Depth(actual) \in -1 .. MaxTravel
       /\ Depth(axis) \in Depth(actual) .. Depth(actual) + MovedBy
       /\ seen => Depth(actual) \in 0 .. Width + Step

\* The second edge is within a step of the true one.
EdgeOK ==
  op = "home" /\ pc \in {"halt", "halt_wait", "midpoint", "mid_start", "mid_wait", "zero"} =>
    /\ Depth(second) \in 1 .. MaxTravel
    /\ Distance(Depth(second), Width) <= Step

\* The position that becomes zero is where it was intended.
GoalSlack == IF op = "home" THEN Step + 1 ELSE 0

NearOK ==
  /\ op = "spur" /\ pc \in {"rel_wait", "zero"} => intended = 2 * (source + Delta + origin)
  /\ pc = "zero" => Distance(Counts, ZeroGoal) <= Tolerance
  /\ pc = "zero_wait" =>
       /\ motion \in {"zeroing", "rest"}
       /\ motion = "zeroing" => ~attained /\ Distance(2 * axis, intended) <= Slack
       /\ attained => Distance(2 * origin, intended) <= Slack
  /\ result = "ok" => pc = "idle"
  /\ ZeroWhereIntended
  /\ LeavesAxisAtZero

Inv ==
  /\ VarsOK /\ ControlOK /\ StopOK
  /\ DriveOK /\ EntryOK /\ ScanOK /\ EdgeOK /\ NearOK

-----------------------------------------------------------------------------
(* Facts that the steps share.                                             *)

LEMMA Constants ==
  /\ Width \in Int /\ MaxTravel \in Int /\ Step \in Int /\ Reach \in Int
  /\ Delta \in Int /\ Tolerance \in Int /\ Overshoot \in Int /\ Sag \in Int /\ Settle \in Int
  /\ MaxLosses \in Nat
  /\ 1 <= Width /\ 1 <= MaxTravel /\ 1 <= Step /\ 1 <= Reach
  /\ 0 <= Tolerance /\ 0 <= Overshoot /\ 0 <= Sag /\ 0 <= Settle
  /\ MaxTravel + Sag + Settle <= Reach /\ Overshoot <= MaxTravel /\ Step <= Width
BY HomingAssumption

\* The search goes one way or the other.
LEMMA DepthFacts ==
  ASSUME direction \in {1, -1}
  PROVE  \A x \in Int : /\ Depth(x) \in Int /\ Depth(x) = x * direction
                        /\ direction * x = Depth(x) /\ Depth(Depth(x)) = x
                        /\ Depth(x) = x \/ Depth(x) = -x
<1>1. CASE direction = 1
  BY <1>1 DEF Depth
<1>2. CASE direction = -1
  BY <1>2 DEF Depth
<1> QED BY <1>1, <1>2

LEMMA InitInv == Init => Inv
<1> SUFFICES ASSUME Init PROVE Inv
  OBVIOUS
<1>1. VarsOK
  <2>1. status \in Statuses /\ motion \in Motions /\ pc \in Pcs
    BY DEF Init, Motions, Pcs, Statuses, NoStatus
  <2>2. /\ axis \in -Reach .. Reach /\ origin \in -Reach .. Reach
        /\ losses \in 0 .. MaxLosses /\ stop_losses \in 0 .. losses
    BY Constants DEF Init
  <2>3. /\ reached \in BOOLEAN /\ attained \in BOOLEAN /\ error \in BOOLEAN
        /\ moved \in BOOLEAN /\ seen \in BOOLEAN /\ following \in BOOLEAN
        /\ motion_active \in BOOLEAN /\ guarded \in BOOLEAN
    BY Zenon DEF Init
  <2>4. /\ target \in Int /\ actual \in Int /\ second \in Int /\ source \in Int
        /\ intended \in Int
    BY DEF Init
  <2> QED BY <2>1, <2>2, <2>3, <2>4, Zenon DEF Init, VarsOK
<1>2. ControlOK /\ StopOK /\ DriveOK /\ EntryOK /\ ScanOK /\ EdgeOK /\ NearOK
  BY DEF Init, ControlOK, StopOK, StopPcs, GuardedFailureStops, FailedReferenceReleases,
         DriveOK, AtRestAt, MovingAt, EntryOK, ScanOK, EdgeOK, NearOK, ZeroWhereIntended,
         LeavesAxisAtZero
<1> QED BY <1>1, <1>2 DEF Inv

\* Whatever raises: the procedure is left, or its except clause is entered, with
\* everything still to be stopped.
LEMMA FailInv ==
  ASSUME Inv, NEW p \in Pcs \ (StopPcs \cup {"idle"}), At(p), Raises, Delivered \/ Lost,
         UNCHANGED <<axis, origin, reached, attained, error>>,
         power' \in {"off", "enabled", "fault"}, motion' \in Motions, target' \in Int,
         motion' \in {"pending", "moving"} => Distance(target' + origin, 0) <= Reach,
         actual' \in Int, second' \in Int, source' \in Int, intended' \in Int,
         seen' \in BOOLEAN, following' \in BOOLEAN, status' \in Statuses,
         op = "home" => intended' = intended
  PROVE  Inv'
<1>1. /\ pc = p /\ moved' = FALSE /\ UNCHANGED <<direction, op, motion_active>>
      /\ \/ pc' = "stop_halt" /\ motion_active /\ guarded' = TRUE /\ result' = result
         \/ pc' = "release" /\ op = "spur" /\ guarded' = TRUE /\ result' = result
         \/ pc' = "idle" /\ guarded' = guarded /\ result' = "failed"
  BY Zenon DEF At, Raises, Returns
<1>2. /\ ~guarded /\ stop_losses = 0 /\ stop_losses' = 0 /\ losses' \in 0 .. MaxLosses
      /\ result = "none" /\ (motion_active => op = "home")
      /\ op = "home" => intended = direction * Width
  BY <1>1, Constants DEF Inv, VarsOK, StopOK, ControlOK, Delivered, Lost, StopPcs, Pcs
<1>3. VarsOK'
  <2>1. /\ reached' \in BOOLEAN /\ attained' \in BOOLEAN /\ error' \in BOOLEAN
        /\ moved' \in BOOLEAN /\ motion_active' \in BOOLEAN /\ guarded' \in BOOLEAN
    BY <1>1, Zenon DEF Inv, VarsOK
  <2>2. /\ axis' \in -Reach .. Reach /\ origin' \in -Reach .. Reach
        /\ direction' \in {1, -1} /\ op' \in {"home", "spur", "adjust"} /\ pc' \in Pcs
        /\ result' \in {"none", "ok", "failed"} /\ stop_losses' \in 0 .. losses'
    BY <1>1, <1>2 DEF Inv, VarsOK, Pcs
  <2> QED BY <1>2, <2>1, <2>2 DEF VarsOK
<1>4. ControlOK'
  BY <1>1, <1>2 DEF Inv, ControlOK
<1>5. StopOK'
  BY <1>1, <1>2 DEF StopOK, StopPcs, GuardedFailureStops, FailedReferenceReleases
<1>6. DriveOK'
  BY <1>1 DEF DriveOK, AtRestAt, MovingAt
<1>7. EntryOK' /\ ScanOK' /\ EdgeOK' /\ NearOK'
  BY <1>1, <1>2 DEF EntryOK, ScanOK, EdgeOK, NearOK, ZeroWhereIntended, LeavesAxisAtZero
<1> QED BY <1>3, <1>4, <1>5, <1>6, <1>7 DEF Inv

\* The same where the drive and the locals are left alone, or the voltage is removed.
LEMMA FailUnchangedInv ==
  ASSUME Inv, NEW p \in Pcs \ (StopPcs \cup {"idle"}), At(p), Raises, Delivered \/ Lost,
         VoltageDisabled \/ UNCHANGED driveVars,
         actual' \in Int, second' \in Int, source' \in Int,
         seen' \in BOOLEAN, following' \in BOOLEAN, status' \in Statuses,
         UNCHANGED intended
  PROVE  Inv'
<1>1. /\ UNCHANGED <<axis, origin, reached, attained, error, target>>
      /\ power' \in {"off", "enabled", "fault"}
      /\ motion' = "rest" \/ motion' = motion
  BY DEF VoltageDisabled, driveVars, motionVars, bitVars, Inv, VarsOK
<1>2. /\ motion' \in Motions /\ target' \in Int /\ intended' \in Int
      /\ motion' \in {"pending", "moving"} => Distance(target' + origin, 0) <= Reach
  BY <1>1 DEF Inv, VarsOK, DriveOK, Motions
<1> QED BY <1>1, <1>2, FailInv

LEMMA FailPowerUpInv ==
  ASSUME Inv, NEW p \in Pcs \ (StopPcs \cup {"idle"}), At(p),
         NEW m \in {"rest", "seek", "zeroing"}, PowerUpFails(m),
         UNCHANGED <<localVars, intended>>
  PROVE  Inv'
<1>1. /\ Raises /\ (Delivered \/ Lost)
      /\ UNCHANGED <<axis, origin, target, reached, attained, error>>
      /\ power' \in {"off", "enabled", "fault"}
      /\ motion' \in {motion, m, "rest"}
  BY DEF PowerUpFails, Inv, VarsOK
<1>2. /\ motion' \in Motions /\ target' \in Int /\ intended' \in Int
      /\ motion' \in {"pending", "moving"} => Distance(target' + origin, 0) <= Reach
  BY <1>1 DEF Inv, VarsOK, DriveOK, Motions
<1>3. /\ actual' \in Int /\ second' \in Int /\ source' \in Int
      /\ seen' \in BOOLEAN /\ following' \in BOOLEAN /\ status' \in Statuses
      /\ intended' = intended
  BY Zenon DEF localVars, Inv, VarsOK
<1> QED BY <1>1, <1>2, <1>3, FailInv

LEMMA FailMoveInv ==
  ASSUME Inv, NEW p \in Pcs \ (StopPcs \cup {"idle"}), At(p),
         NEW t \in Int, Distance(t + origin, 0) <= Reach, MoveStartFails(t),
         actual' \in Int, second' \in Int, source' \in Int, intended' \in Int,
         seen' \in BOOLEAN, following' \in BOOLEAN, status' \in Statuses,
         op = "home" => intended' = intended
  PROVE  Inv'
<1>1. /\ Raises /\ Lost
      /\ UNCHANGED <<axis, origin, reached, attained, error, power>>
      /\ \/ motion' = "pending" /\ target' = t
         \/ UNCHANGED <<motion, target>>
  BY DEF MoveStartFails, MoveStarts, driveVars, motionVars, bitVars
<1>2. /\ power' \in {"off", "enabled", "fault"} /\ motion' \in Motions /\ target' \in Int
      /\ motion' \in {"pending", "moving"} => Distance(target' + origin, 0) <= Reach
  BY <1>1 DEF Inv, VarsOK, DriveOK, Motions
<1> QED BY <1>1, <1>2, FailInv

-----------------------------------------------------------------------------
(* The drive.                                                              *)

\* A step of the drive from motion m leaves the bridge alone.  It can end the motion, and
\* not begin one.
LEMMA DriveFrame ==
  ASSUME Inv, NEW m \in Motions \ {"rest"}, DriveStep(m),
         motion' \in Motions
  PROVE  /\ motion = m
         /\ UNCHANGED <<direction, power, op, pc, result, seen, status, actual, second, source,
                        following, motion_active, guarded, intended, losses, stop_losses>>
         /\ ControlOK' /\ StopOK' /\ EdgeOK'
         /\ result # "ok" \/ op = "adjust"
         /\ pc \notin AtRestAt
<1>1. /\ motion = m /\ m # "rest"
      /\ UNCHANGED <<direction, power, op, pc, result, seen, status, actual, second, source,
                     following, motion_active, guarded, intended, losses, stop_losses>>
  BY DEF DriveStep, localVars, historyVars
<1>2. ControlOK' /\ EdgeOK'
  BY <1>1 DEF Inv, ControlOK, EdgeOK, Depth
<1>3. StopOK'
  BY <1>1 DEF Inv, StopOK, GuardedFailureStops, FailedReferenceReleases
<1>4. (result # "ok" \/ op = "adjust") /\ pc \notin AtRestAt
  BY <1>1 DEF Inv, NearOK, LeavesAxisAtZero, DriveOK
<1> QED BY <1>1, <1>2, <1>3, <1>4

\* The types after a step of the drive.
LEMMA DriveTypes ==
  ASSUME Inv,
         UNCHANGED <<direction, power, op, pc, result, seen, status, actual, second, source,
                     following, motion_active, guarded, intended, losses, stop_losses>>,
         motion' \in Motions,
         axis' \in -Reach .. Reach, origin' \in -Reach .. Reach, target' = target,
         reached' \in BOOLEAN, attained' \in BOOLEAN, error' \in BOOLEAN, moved' \in BOOLEAN
  PROVE  VarsOK'
BY Zenon DEF Inv, VarsOK

LEMMA FindsEdgeInv ==
  ASSUME Inv, DriveFindsEdge
  PROVE  Inv'
<1>1. /\ DriveStep("seek") /\ motion' = "rest" /\ UNCHANGED <<target, moved>>
      /\ motion' \in Motions /\ "seek" \in Motions \ {"rest"}
  BY DEF DriveFindsEdge, Motions
<1>2. /\ motion = "seek"
      /\ UNCHANGED <<direction, power, op, pc, result, seen, status, actual, second, source,
                     following, motion_active, guarded, intended, losses, stop_losses>>
      /\ ControlOK' /\ StopOK' /\ EdgeOK'
      /\ result # "ok" \/ op = "adjust"
      /\ pc \notin AtRestAt
  BY <1>1, DriveFrame
<1>3. \/ UNCHANGED <<origin, axis, attained, reached>>
      \/ origin' = 0 /\ axis' \in Int /\ Depth(axis') \in -1 .. Overshoot
  <2>1. CASE UNCHANGED <<axis, origin, attained, reached>>
    BY <2>1
  <2>2. CASE origin' = 0 /\ axis' \in {direction * k : k \in -1 .. Overshoot}
    <3>1. PICK k \in -1 .. Overshoot : axis' = direction * k
      BY <2>2
    <3>2. k \in Int /\ axis' = Depth(k) /\ Depth(Depth(k)) = k /\ Depth(k) \in Int
      BY <3>1, DepthFacts, Constants DEF Inv, VarsOK
    <3> QED BY <2>2, <3>1, <3>2
  <2> QED BY <2>1, <2>2 DEF DriveFindsEdge
<1>4. axis' \in -Reach .. Reach /\ origin' \in -Reach .. Reach
  BY <1>3, DepthFacts, Constants DEF Inv, VarsOK
<1>5. VarsOK'
  <2>1. reached' \in BOOLEAN /\ attained' \in BOOLEAN /\ error' \in BOOLEAN /\ moved' \in BOOLEAN
    BY Zenon DEF DriveFindsEdge, Inv, VarsOK
  <2> QED BY <1>1, <1>2, <1>4, <2>1, DriveTypes
<1>6. pc \notin {"scan", "scan_input", "mid_wait", "rel_wait", "zero", "zero_wait"}
      /\ pc \notin {"traverse", "midpoint", "mid_start"}
  BY <1>2 DEF Inv, DriveOK, MovingAt, AtRestAt, NearOK
<1>7. DriveOK'
  BY <1>1, <1>2, <1>6 DEF DriveOK, AtRestAt, MovingAt
<1>8. EntryOK'
  BY <1>1, <1>2, <1>3, <1>6 DEF Inv, EntryOK, Depth
<1>9. ScanOK' /\ NearOK'
  BY <1>2, <1>6 DEF Inv, ScanOK, NearOK, ZeroWhereIntended, LeavesAxisAtZero
<1> QED BY <1>2, <1>5, <1>7, <1>8, <1>9 DEF Inv

LEMMA AcknowledgesInv ==
  ASSUME Inv, DriveAcknowledges
  PROVE  Inv'
<1>1. /\ DriveStep("pending") /\ motion' = "moving"
      /\ UNCHANGED <<axis, origin, target, attained, error, moved>>
      /\ motion' \in Motions /\ "pending" \in Motions \ {"rest"}
  BY DEF DriveAcknowledges, Motions
<1>2. /\ motion = "pending"
      /\ UNCHANGED <<direction, power, op, pc, result, seen, status, actual, second, source,
                     following, motion_active, guarded, intended, losses, stop_losses>>
      /\ ControlOK' /\ StopOK' /\ EdgeOK'
      /\ result # "ok" \/ op = "adjust"
      /\ pc \notin AtRestAt
  BY <1>1, DriveFrame
<1>3. VarsOK'
  <2>1. reached' \in BOOLEAN /\ attained' \in BOOLEAN /\ error' \in BOOLEAN /\ moved' \in BOOLEAN
    BY Zenon DEF DriveAcknowledges, Inv, VarsOK
  <2>2. axis' \in -Reach .. Reach /\ origin' \in -Reach .. Reach /\ target' = target
    BY <1>1 DEF Inv, VarsOK
  <2> QED BY <1>1, <1>2, <2>1, <2>2, DriveTypes
<1>4. DriveOK'
  BY <1>1, <1>2 DEF Inv, DriveOK, AtRestAt, MovingAt, ZeroGoal, Midpoint
<1>5. EntryOK'
  BY <1>1, <1>2 DEF Inv, EntryOK, Depth
<1>6. ScanOK'
  BY <1>1, <1>2 DEF Inv, ScanOK, Depth, MovedBy
<1>7. NearOK'
  BY <1>1, <1>2 DEF Inv, NearOK, Counts, ZeroGoal, Midpoint, ZeroWhereIntended,
                    LeavesAxisAtZero
<1> QED BY <1>2, <1>3, <1>4, <1>5, <1>6, <1>7 DEF Inv

\* The axis goes towards the target, and no further than a step.
LEMMA Approaches ==
  ASSUME Inv, DriveMoves
  PROVE  LET goal == target + origin
         IN  /\ axis' \in Int /\ goal \in Int
             /\ axis <= goal => axis <= axis' /\ axis' <= goal /\ axis' <= axis + Step
             /\ goal <= axis => axis' <= axis /\ goal <= axis' /\ axis - Step <= axis'
             /\ motion' \in {"rest", "moving"}
<1>1. PICK k \in 0 .. Step :
        LET left == target - Counts
            go == IF Distance(left, 0) <= k THEN left ELSE IF left > 0 THEN k ELSE -k
        IN  /\ axis' = axis + go
            /\ motion' = IF go = left THEN "rest" ELSE "moving"
  BY DEF DriveMoves
<1>2. axis \in Int /\ origin \in Int /\ target \in Int /\ k \in Int /\ 0 <= k /\ k <= Step
  BY Constants DEF Inv, VarsOK
<1> QED BY <1>1, <1>2, Constants DEF Counts, Distance

LEMMA NearerInDepth ==
  ASSUME direction \in {1, -1}, NEW a \in Int, NEW b \in Int, NEW g \in Int, NEW m \in Int,
         NEW s \in Nat,
         g = Depth(m), Depth(a) <= m,
         a <= g => a <= b /\ b <= g /\ b <= a + s,
         g <= a => b <= a /\ g <= b /\ a - s <= b
  PROVE  Depth(a) <= Depth(b) /\ Depth(b) <= m /\ Depth(b) <= Depth(a) + s
<1>1. CASE direction = 1
  BY <1>1 DEF Depth
<1>2. CASE direction = -1
  <2>1. direction # 1
    BY <1>2
  <2>2. g = -m /\ -a <= m
    BY <2>1 DEF Depth
  <2>3. -a <= -b /\ -b <= m /\ -b <= -a + s
    BY <2>2
  <2> QED BY <2>1, <2>3 DEF Depth
<1> QED BY <1>1, <1>2

LEMMA NearerToGoal ==
  ASSUME NEW a \in Int, NEW b \in Int, NEW g \in Int, NEW o \in Int, NEW t \in Int,
         a <= g => a <= b /\ b <= g,
         g <= a => b <= a /\ g <= b,
         Distance(a - o, g - o) <= t
  PROVE  Distance(b - o, g - o) <= t
BY DEF Distance

LEMMA MovesInv ==
  ASSUME Inv, DriveMoves
  PROVE  Inv'
<1>1. /\ DriveStep("moving") /\ motion' \in {"rest", "moving"}
      /\ ~moved /\ moved' = TRUE
      /\ UNCHANGED <<origin, target, attained>>
      /\ motion' \in Motions /\ "moving" \in Motions \ {"rest"}
  BY Approaches DEF DriveMoves, Motions
<1>2. /\ motion = "moving"
      /\ UNCHANGED <<direction, power, op, pc, result, seen, status, actual, second, source,
                     following, motion_active, guarded, intended, losses, stop_losses>>
      /\ ControlOK' /\ StopOK' /\ EdgeOK'
      /\ result # "ok" \/ op = "adjust"
      /\ pc \notin AtRestAt
  BY <1>1, DriveFrame
<1> DEFINE goal == target + origin
<1>3. /\ axis' \in Int /\ goal \in Int /\ axis \in Int /\ origin \in Int /\ target \in Int
      /\ axis <= goal => axis <= axis' /\ axis' <= goal /\ axis' <= axis + Step
      /\ goal <= axis => axis' <= axis /\ goal <= axis' /\ axis - Step <= axis'
  BY Approaches DEF Inv, VarsOK
<1>4. Distance(goal, 0) <= Reach
  BY <1>2 DEF Inv, DriveOK
<1>5. VarsOK'
  <2>1. reached' \in BOOLEAN /\ attained' \in BOOLEAN /\ error' \in BOOLEAN /\ moved' \in BOOLEAN
    <3>1. reached' \in BOOLEAN
      BY DEF DriveMoves
    <3> QED BY <3>1, Zenon DEF DriveMoves, Inv, VarsOK
  <2>2. axis' \in -Reach .. Reach /\ origin' \in -Reach .. Reach /\ target' = target
    BY <1>1, <1>3, <1>4, Constants DEF Distance, Inv, VarsOK
  <2> QED BY <1>1, <1>2, <2>1, <2>2, DriveTypes
<1>6. DriveOK'
  BY <1>1, <1>2 DEF Inv, DriveOK, AtRestAt, MovingAt, ZeroGoal, Midpoint
<1>7. pc \notin {"native_wait", "traverse", "midpoint", "mid_start", "zero_wait"}
  BY <1>2 DEF Inv, EntryOK, AtRestAt, NearOK
<1>8. EntryOK'
  BY <1>1, <1>2, <1>7 DEF Inv, EntryOK
<1>9. ASSUME pc \in {"scan", "scan_input"}
      PROVE  /\ Depth(axis) \in Int /\ Depth(axis') \in Int
             /\ Depth(axis) <= Depth(axis') /\ Depth(axis') <= MaxTravel
             /\ Depth(axis') <= Depth(axis) + Step
  <2>1. target = direction * MaxTravel /\ origin = 0
    BY <1>2, <1>9 DEF Inv, DriveOK, EntryOK
  <2>2. target = Depth(MaxTravel)
    BY <2>1, DepthFacts, Constants DEF Inv, VarsOK
  <2>3. Depth(axis) <= MaxTravel
    BY <1>9, Constants DEF Inv, ScanOK
  <2>4. goal = Depth(MaxTravel)
    BY <1>3, <2>1, <2>2
  <2>5. MaxTravel \in Int /\ Step \in Nat /\ direction \in {1, -1}
    BY Constants DEF Inv, VarsOK
  <2> HIDE DEF goal
  <2>6. /\ Depth(axis) <= Depth(axis') /\ Depth(axis') <= MaxTravel
        /\ Depth(axis') <= Depth(axis) + Step
    BY <1>3, <2>3, <2>4, <2>5, NearerInDepth
  <2> QED BY <1>3, <2>5, <2>6, DepthFacts
<1>10. ScanOK'
  <2>1. MovedBy = 0 /\ MovedBy' = Step
    BY <1>1 DEF MovedBy
  <2>2. CASE pc \in {"scan", "scan_input"}
    <3>1. /\ Depth(axis)' = Depth(axis') /\ Depth(actual)' = Depth(actual)
      BY <1>2 DEF Depth
    <3>2. actual \in Int /\ Depth(actual) \in Int
      BY DepthFacts DEF Inv, VarsOK
    <3> QED BY <1>2, <1>9, <2>1, <2>2, <3>1, <3>2, Constants DEF Inv, ScanOK
  <2> QED BY <1>2, <2>2 DEF ScanOK
<1>11. NearOK'
  <2>1. pc = "zero" => Distance(Counts', ZeroGoal') <= Tolerance
    <3>1. SUFFICES ASSUME pc = "zero" PROVE Distance(Counts', ZeroGoal') <= Tolerance
      OBVIOUS
    <3>2. target = ZeroGoal /\ ZeroGoal' = ZeroGoal /\ ZeroGoal \in Int
      BY <1>2, <1>3, <3>1 DEF Inv, DriveOK, ZeroGoal, Midpoint
    <3>3. Distance(axis - origin, target) <= Tolerance
      BY <3>1, <3>2 DEF Inv, NearOK, Counts
    <3>4. Counts' = axis' - origin
      BY <1>1 DEF Counts
    <3>5. target = goal - origin
      BY <1>3
    <3> HIDE DEF goal
    <3>6. Tolerance \in Int
      BY Constants
    <3>7. Distance(axis - origin, goal - origin) <= Tolerance
      BY <3>3, <3>5
    <3>8. Distance(axis' - origin, goal - origin) <= Tolerance
      BY <1>3, <3>6, <3>7, NearerToGoal
    <3> QED BY <3>2, <3>4, <3>5, <3>8
  <2> QED BY <1>1, <1>2, <1>7, <2>1 DEF Inv, NearOK, ZeroWhereIntended, LeavesAxisAtZero
<1> QED BY <1>2, <1>5, <1>6, <1>8, <1>10, <1>11 DEF Inv

LEMMA HaltsInv ==
  ASSUME Inv, DriveHalts
  PROVE  Inv'
<1>1. /\ DriveStep("halting") /\ motion' = "rest"
      /\ UNCHANGED <<origin, target, attained, error, moved>>
      /\ motion' \in Motions /\ "halting" \in Motions \ {"rest"}
      /\ axis' \in -Reach .. Reach
  BY Constants DEF DriveHalts, Motions, Within, Inv, VarsOK
<1>2. /\ motion = "halting"
      /\ UNCHANGED <<direction, power, op, pc, result, seen, status, actual, second, source,
                     following, motion_active, guarded, intended, losses, stop_losses>>
      /\ ControlOK' /\ StopOK' /\ EdgeOK'
      /\ result # "ok" \/ op = "adjust"
      /\ pc \notin AtRestAt
  BY <1>1, DriveFrame
<1>3. VarsOK'
  <2>1. reached' \in BOOLEAN /\ attained' \in BOOLEAN /\ error' \in BOOLEAN /\ moved' \in BOOLEAN
    BY Zenon DEF DriveHalts, Inv, VarsOK
  <2>2. origin' \in -Reach .. Reach /\ target' = target
    BY <1>1 DEF Inv, VarsOK
  <2> QED BY <1>1, <1>2, <2>1, <2>2, DriveTypes
<1>4. pc \notin {"native_wait", "traverse", "midpoint", "mid_start", "zero_wait"}
      /\ pc \notin MovingAt
  BY <1>2 DEF Inv, EntryOK, AtRestAt, NearOK, DriveOK
<1>5. DriveOK' /\ EntryOK'
  BY <1>1, <1>2, <1>4 DEF Inv, DriveOK, EntryOK, AtRestAt, MovingAt
<1>6. ScanOK' /\ NearOK'
  BY <1>2, <1>4 DEF ScanOK, NearOK, ZeroWhereIntended, LeavesAxisAtZero, MovingAt, Inv
<1> QED BY <1>2, <1>3, <1>5, <1>6 DEF Inv

LEMMA ZeroesInv ==
  ASSUME Inv, DriveZeroes
  PROVE  Inv'
<1>1. /\ DriveStep("zeroing") /\ motion' = "rest" /\ UNCHANGED <<target, moved>>
      /\ motion' \in Motions /\ "zeroing" \in Motions \ {"rest"}
      /\ \/ UNCHANGED <<axis, origin, attained, reached>>
         \/ origin' = axis /\ axis' \in -Reach .. Reach
  BY Constants DEF DriveZeroes, Motions, Within, Inv, VarsOK
<1>2. /\ motion = "zeroing"
      /\ UNCHANGED <<direction, power, op, pc, result, seen, status, actual, second, source,
                     following, motion_active, guarded, intended, losses, stop_losses>>
      /\ ControlOK' /\ StopOK' /\ EdgeOK'
      /\ result # "ok" \/ op = "adjust"
      /\ pc \notin AtRestAt
  BY <1>1, DriveFrame
<1>3. VarsOK'
  <2>1. reached' \in BOOLEAN /\ attained' \in BOOLEAN /\ error' \in BOOLEAN /\ moved' \in BOOLEAN
    BY Zenon DEF DriveZeroes, Inv, VarsOK
  <2>2. axis' \in -Reach .. Reach /\ origin' \in -Reach .. Reach /\ target' = target
    BY <1>1 DEF Inv, VarsOK
  <2> QED BY <1>1, <1>2, <2>1, <2>2, DriveTypes
<1>4. pc \notin {"native_wait", "traverse", "midpoint", "mid_start", "halt", "halt_wait"}
      /\ pc \notin MovingAt
  BY <1>2 DEF Inv, EntryOK, AtRestAt, DriveOK
<1>5. DriveOK'
  BY <1>1, <1>2, <1>4 DEF Inv, DriveOK, AtRestAt, MovingAt
<1>6. ScanOK'
  BY <1>2, <1>4 DEF ScanOK, MovingAt
<1>7. EntryOK'
  BY <1>2, <1>4 DEF EntryOK, MovingAt
<1>8. NearOK'
  <2>1. Slack' = Slack
    BY <1>2 DEF Slack
  <2> QED BY <1>1, <1>2, <1>4, <2>1
      DEF Inv, NearOK, ZeroWhereIntended, LeavesAxisAtZero, MovingAt
<1> QED BY <1>2, <1>3, <1>5, <1>6, <1>7, <1>8 DEF Inv

LEMMA FaultsInv ==
  ASSUME Inv, DriveFaults
  PROVE  Inv'
<1>1. /\ power' = "fault" /\ motion' = "rest"
      /\ UNCHANGED <<direction, axis, origin, target, moved, op, pc, result, seen, status,
                     actual, second, source, following, motion_active, guarded, intended,
                     losses, stop_losses, reached, attained, error>>
  BY DEF DriveFaults, localVars, historyVars
<1>2. VarsOK'
  <2>1. power' \in {"off", "enabled", "fault"} /\ motion' \in Motions
    BY <1>1 DEF Motions
  <2>2. /\ axis' = axis /\ origin' = origin /\ target' = target /\ actual' = actual
        /\ second' = second /\ source' = source /\ intended' = intended
        /\ losses' = losses /\ stop_losses' = stop_losses /\ direction' = direction
        /\ op' = op /\ pc' = pc /\ result' = result /\ status' = status
        /\ reached' = reached /\ attained' = attained /\ error' = error /\ moved' = moved
        /\ seen' = seen /\ following' = following /\ motion_active' = motion_active
        /\ guarded' = guarded
    BY <1>1
  <2> QED BY <2>1, <2>2, ZenonT(60) DEF Inv, VarsOK
<1>3. ControlOK' /\ EdgeOK' /\ ScanOK' /\ EntryOK'
  BY <1>1 DEF Inv, ControlOK, EdgeOK, ScanOK, EntryOK, Depth, MovedBy
<1>4. StopOK' /\ DriveOK'
  BY <1>1 DEF Inv, StopOK, GuardedFailureStops, FailedReferenceReleases, DriveOK, AtRestAt,
              MovingAt
<1>5. NearOK'
  BY <1>1 DEF Inv, NearOK, Slack, Counts, ZeroGoal, Midpoint, ZeroWhereIntended,
              LeavesAxisAtZero
<1> QED BY <1>2, <1>3, <1>4, <1>5 DEF Inv

-----------------------------------------------------------------------------
(* The bridge: requests and native homing.                                 *)

\* The types after a step of the bridge whose transfer is delivered.
LEMMA BridgeTypes ==
  ASSUME Inv, NEW p, At(p), Delivered,
         motion' \in Motions, power' \in {"off", "enabled", "fault"},
         axis' \in -Reach .. Reach, origin' = origin, target' \in Int,
         reached' \in BOOLEAN, attained' \in BOOLEAN, error' \in BOOLEAN,
         actual' \in Int, second' \in Int, source' \in Int, intended' \in Int,
         seen' \in BOOLEAN, following' \in BOOLEAN, motion_active' \in BOOLEAN,
         guarded' \in BOOLEAN, status' \in Statuses,
         pc' \in Pcs, result' \in {"none", "ok", "failed"}
  PROVE  VarsOK'
<1>1. moved' \in BOOLEAN /\ direction' = direction /\ op' = op
  BY DEF At
<1>2. losses' = losses /\ stop_losses' = stop_losses
  BY DEF Delivered
<1> QED BY <1>1, <1>2, Zenon DEF Inv, VarsOK

\* The same where the locals are kept.
LEMMA BridgeTypesKept ==
  ASSUME Inv, NEW p, At(p), Delivered, UNCHANGED localVars,
         motion' \in Motions, power' \in {"off", "enabled", "fault"},
         axis' \in -Reach .. Reach, origin' = origin, target' \in Int,
         reached' \in BOOLEAN, attained' \in BOOLEAN, error' \in BOOLEAN,
         motion_active' \in BOOLEAN, UNCHANGED <<intended, result, guarded>>,
         pc' \in Pcs
  PROVE  VarsOK'
<1>1. /\ actual' \in Int /\ second' \in Int /\ source' \in Int /\ intended' \in Int
      /\ seen' \in BOOLEAN /\ following' \in BOOLEAN /\ guarded' \in BOOLEAN
      /\ status' \in Statuses /\ result' \in {"none", "ok", "failed"}
  BY Zenon DEF localVars, Inv, VarsOK
<1> QED BY <1>1, BridgeTypes

LEMMA BeginInv ==
  ASSUME Inv, NEW o \in {"home", "spur", "adjust"}, NEW p \in {"native_start", "enable"},
         Begin(o, p),
         p = "native_start" <=> o = "home",
         p = "enable" => MoveFits
  PROVE  Inv'
<1>1. /\ pc = "idle" /\ pc' = p /\ op' = o /\ result' = "none"
      /\ seen' = FALSE /\ status' = NoStatus /\ actual' = 0 /\ second' = 0 /\ source' = 0
      /\ following' = FALSE /\ motion_active' = FALSE /\ guarded' = FALSE
      /\ intended' = direction * Width /\ losses' = 0 /\ stop_losses' = 0
      /\ UNCHANGED <<direction, axis, origin, target, motion, power, reached, attained, error,
                     moved>>
  BY DEF Begin, driveVars, motionVars, bitVars
<1>2. VarsOK'
  <2>1. /\ seen' \in BOOLEAN /\ following' \in BOOLEAN /\ motion_active' \in BOOLEAN
        /\ guarded' \in BOOLEAN
    BY <1>1, Zenon
  <2>2. /\ actual' \in Int /\ second' \in Int /\ source' \in Int /\ intended' \in Int
        /\ losses' \in 0 .. MaxLosses /\ stop_losses' \in 0 .. losses'
        /\ status' \in Statuses /\ pc' \in Pcs /\ op' \in {"home", "spur", "adjust"}
        /\ result' \in {"none", "ok", "failed"}
    BY <1>1, Constants DEF Inv, VarsOK, Statuses, NoStatus, Pcs
  <2>3. /\ axis' = axis /\ origin' = origin /\ target' = target /\ motion' = motion
        /\ power' = power /\ reached' = reached /\ attained' = attained /\ error' = error
        /\ moved' = moved /\ direction' = direction
    BY <1>1
  <2> QED BY <2>1, <2>2, <2>3, Zenon DEF Inv, VarsOK
<1>3. ControlOK' /\ StopOK'
  BY <1>1 DEF ControlOK, StopOK, StopPcs, GuardedFailureStops, FailedReferenceReleases
<1>4. DriveOK'
  <2>1. p = "enable" => motion = "rest" /\ Distance(axis + Delta, 0) <= Reach
    BY Constants DEF MoveFits, Distance, Inv, VarsOK
  <2> QED BY <1>1, <2>1 DEF Inv, DriveOK, AtRestAt, MovingAt
<1>5. EntryOK' /\ ScanOK' /\ EdgeOK' /\ NearOK'
  BY <1>1 DEF EntryOK, ScanOK, EdgeOK, NearOK, ZeroWhereIntended, LeavesAxisAtZero
<1> QED BY <1>2, <1>3, <1>4, <1>5 DEF Inv

LEMMA NativeStartsInv ==
  ASSUME Inv, NativeStarts
  PROVE  Inv'
<1>1. CASE PowerUpFails("seek")
  BY <1>1, FailPowerUpInv DEF NativeStarts, Pcs, StopPcs
<1>2. CASE PoweredUp("seek") /\ Delivered /\ Continues("native_wait")
           /\ UNCHANGED <<axis, origin, target, motion_active>>
  <2>1. /\ pc = "native_start" /\ pc' = "native_wait" /\ At("native_start")
        /\ motion' = "seek" /\ power' = "enabled"
        /\ reached' = FALSE /\ attained' = FALSE /\ error' = FALSE
        /\ UNCHANGED <<axis, origin, target, motion_active, localVars, intended, result,
                       guarded, direction, op, losses, stop_losses>>
    BY <1>2 DEF NativeStarts, At, PoweredUp, Continues, Delivered
  <2>2. VarsOK'
    <3>1. /\ reached' \in BOOLEAN /\ attained' \in BOOLEAN /\ error' \in BOOLEAN
          /\ motion_active' \in BOOLEAN
      BY <2>1, Zenon DEF Inv, VarsOK
    <3>2. /\ motion' \in Motions /\ power' \in {"off", "enabled", "fault"} /\ pc' \in Pcs
          /\ axis' \in -Reach .. Reach /\ origin' = origin /\ target' \in Int
      BY <2>1 DEF Inv, VarsOK, Motions, Pcs
    <3> QED BY <1>2, <2>1, <3>1, <3>2, BridgeTypesKept
  <2>3. ControlOK' /\ StopOK'
    BY <2>1 DEF Inv, ControlOK, StopOK, StopPcs, GuardedFailureStops, FailedReferenceReleases
  <2>4. DriveOK' /\ EntryOK' /\ ScanOK' /\ EdgeOK' /\ NearOK'
    BY <2>1 DEF Inv, ControlOK, DriveOK, AtRestAt, MovingAt, EntryOK, ScanOK, EdgeOK, NearOK,
                ZeroWhereIntended, LeavesAxisAtZero
  <2> QED BY <2>2, <2>3, <2>4 DEF Inv
<1> QED BY <1>1, <1>2 DEF NativeStarts

LEMMA NativePollsInv ==
  ASSUME Inv, NativePolls
  PROVE  Inv'
<1>1. CASE DisablesAndRaises \/ (Lost /\ UNCHANGED driveVars /\ Raises)
  <2>1. /\ Raises /\ (Delivered \/ Lost) /\ (VoltageDisabled \/ UNCHANGED driveVars)
        /\ At("native_wait") /\ UNCHANGED intended
        /\ "native_wait" \in Pcs \ (StopPcs \cup {"idle"})
    BY <1>1 DEF NativePolls, DisablesAndRaises, Pcs, StopPcs
  <2>2. /\ actual' \in Int /\ second' \in Int /\ source' \in Int
        /\ seen' \in BOOLEAN /\ following' \in BOOLEAN /\ status' \in Statuses
    BY Zenon DEF NativePolls, localVars, Inv, VarsOK
  <2> QED BY <2>1, <2>2, FailUnchangedInv
<1>2. CASE \/ power # "fault" /\ ~error /\ attained /\ reached /\ Continues("traverse")
           \/ power # "fault" /\ ~error /\ ~(attained /\ reached) /\ Continues("native_wait")
  <2>1. CASE ~(Delivered /\ UNCHANGED <<driveVars, motion_active>>)
    BY <1>1, <2>1 DEF NativePolls
  <2>2. CASE Delivered /\ UNCHANGED <<driveVars, motion_active>>
    <3>1. /\ pc = "native_wait" /\ At("native_wait")
          /\ pc' = "native_wait" \/ (pc' = "traverse" /\ attained)
          /\ UNCHANGED <<axis, origin, target, motion, power, reached, attained, error,
                         motion_active, localVars, intended, result, guarded, direction, op,
                         losses, stop_losses>>
      BY <1>2, <2>2 DEF NativePolls, At, Continues, Delivered, driveVars, motionVars, bitVars
    <3>2. VarsOK'
      <4>1. /\ reached' \in BOOLEAN /\ attained' \in BOOLEAN /\ error' \in BOOLEAN
            /\ motion_active' \in BOOLEAN
        BY <3>1, Zenon DEF Inv, VarsOK
      <4>2. /\ motion' \in Motions /\ power' \in {"off", "enabled", "fault"} /\ pc' \in Pcs
            /\ axis' \in -Reach .. Reach /\ origin' = origin /\ target' \in Int
        BY <3>1 DEF Inv, VarsOK, Pcs
      <4> QED BY <2>2, <3>1, <4>1, <4>2, BridgeTypesKept
    <3>3. ControlOK' /\ StopOK'
      BY <3>1 DEF Inv, ControlOK, StopOK, StopPcs, GuardedFailureStops, FailedReferenceReleases
    <3>4. EntryOK' /\ DriveOK'
      BY <3>1 DEF Inv, EntryOK, DriveOK, AtRestAt, MovingAt, Depth
    <3>5. ScanOK' /\ EdgeOK' /\ NearOK'
      BY <3>1 DEF Inv, ControlOK, ScanOK, EdgeOK, NearOK, ZeroWhereIntended, LeavesAxisAtZero
    <3> QED BY <3>2, <3>3, <3>4, <3>5 DEF Inv
  <2> QED BY <2>1, <2>2
<1> QED BY <1>1, <1>2 DEF NativePolls

-----------------------------------------------------------------------------
(* The bridge: the traversal.                                              *)

\* What a reading of the input says of the axis.
LEMMA InputFacts ==
  ASSUME VarsOK
  PROVE  /\ InputReads \subseteq BOOLEAN
         /\ TRUE \in InputReads => Depth(axis) \in 0 .. Width
         /\ FALSE \in InputReads => Depth(axis) <= 0 \/ Width <= Depth(axis)
<1>1. Depth(axis) = axis * direction /\ Depth(axis) \in Int /\ Width \in Int /\ 1 <= Width
  BY DepthFacts, Constants DEF VarsOK
<1>2. InputReads = IF Depth(axis) \in {0, Width} THEN BOOLEAN
                   ELSE {0 < Depth(axis) /\ Depth(axis) < Width}
  BY <1>1 DEF InputReads
<1>3. CASE Depth(axis) \in {0, Width}
  BY <1>1, <1>2, <1>3
<1>4. CASE Depth(axis) \notin {0, Width} /\ 0 < Depth(axis) /\ Depth(axis) < Width
  <2>1. InputReads = {TRUE}
    BY <1>2, <1>4, Zenon
  <2>2. FALSE \notin InputReads /\ InputReads \subseteq BOOLEAN
    BY <2>1, Zenon
  <2>3. Depth(axis) \in 0 .. Width
    BY <1>1, <1>4
  <2> QED BY <2>2, <2>3, Zenon
<1>5. CASE Depth(axis) \notin {0, Width} /\ ~(0 < Depth(axis) /\ Depth(axis) < Width)
  <2>1. InputReads = {FALSE}
    BY <1>2, <1>5, Zenon
  <2>2. TRUE \notin InputReads /\ InputReads \subseteq BOOLEAN
    BY <2>1, Zenon
  <2>3. Depth(axis) <= 0 \/ Width <= Depth(axis)
    BY <1>1, <1>5
  <2> QED BY <2>2, <2>3, Zenon
<1> QED BY <1>3, <1>4, <1>5

LEMMA TraverseStartsInv ==
  ASSUME Inv, TraverseStarts
  PROVE  Inv'
<1>1. /\ At("traverse") /\ pc = "traverse" /\ motion = "rest" /\ origin = 0
      /\ Depth(axis) \in -1 .. Overshoot
      /\ seen' \in InputReads /\ seen' \in BOOLEAN
      /\ UNCHANGED <<status, actual, second, source, following, intended>>
      /\ moved' = FALSE /\ UNCHANGED <<direction, op>>
  BY InputFacts DEF TraverseStarts, At, Inv, EntryOK, DriveOK, AtRestAt
<1> DEFINE t == direction * MaxTravel
<1>2. t \in Int /\ Distance(t + origin, 0) <= Reach
  BY <1>1, DepthFacts, Constants DEF Inv, VarsOK, Distance
<1>3. /\ actual' \in Int /\ second' \in Int /\ source' \in Int /\ intended' \in Int
      /\ following' \in BOOLEAN /\ status' \in Statuses
  BY <1>1, Zenon DEF Inv, VarsOK
<1>4. CASE MoveStartFails(t)
  BY <1>1, <1>2, <1>3, <1>4, FailMoveInv DEF Pcs, StopPcs
<1>5. CASE /\ MoveStarts(t) /\ Delivered
           /\ motion_active' = TRUE
           /\ Continues("scan")
  <2>1. /\ pc' = "scan" /\ UNCHANGED <<result, guarded, losses, stop_losses, axis, origin, power,
                                      reached, attained, error>>
        /\ \/ motion' = "pending" /\ target' = t
           \/ UNCHANGED <<motion, target>>
    BY <1>5 DEF MoveStarts, Delivered, Continues, bitVars
  <2>2. VarsOK'
    <3>1. /\ reached' \in BOOLEAN /\ attained' \in BOOLEAN /\ error' \in BOOLEAN
          /\ guarded' \in BOOLEAN
      BY <2>1, Zenon DEF Inv, VarsOK
    <3>2. motion_active' \in BOOLEAN
      BY <1>5, Zenon
    <3>3. /\ motion' \in Motions /\ power' \in {"off", "enabled", "fault"} /\ pc' \in Pcs
          /\ axis' \in -Reach .. Reach /\ origin' = origin /\ target' \in Int
          /\ result' \in {"none", "ok", "failed"}
      BY <1>2, <2>1 DEF Inv, VarsOK, Pcs, Motions
    <3> QED BY <1>1, <1>3, <1>5, <3>1, <3>2, <3>3, BridgeTypes
  <2>3. /\ stop_losses = 0 /\ ~guarded /\ result = "none" /\ op = "home"
        /\ intended = direction * Width
    BY <1>1 DEF Inv, StopOK, ControlOK, StopPcs
  <2>4. ControlOK' /\ StopOK'
    BY <1>1, <2>1, <2>3 DEF ControlOK, StopOK, StopPcs, GuardedFailureStops,
                            FailedReferenceReleases
  <2>5. DriveOK'
    BY <1>1, <1>2, <2>1 DEF DriveOK, AtRestAt, MovingAt
  <2>6. EntryOK'
    BY <1>1, <2>1 DEF EntryOK
  <2>7. ScanOK'
    <3>1. Depth(axis)' = Depth(axis) /\ MovedBy' = 0
      BY <1>1, <2>1 DEF Depth, MovedBy
    <3>2. seen' => Depth(axis) \in 0 .. Width
      BY <1>1, InputFacts DEF Inv
    <3>3. Depth(axis) \in -1 .. MaxTravel
      BY <1>1, Constants
    <3> QED BY <2>1, <3>1, <3>2, <3>3, Constants DEF ScanOK
  <2>8. EdgeOK' /\ NearOK'
    BY <2>1, <2>3 DEF EdgeOK, NearOK, ZeroWhereIntended, LeavesAxisAtZero
  <2> QED BY <2>2, <2>4, <2>5, <2>6, <2>7, <2>8 DEF Inv
<1> QED BY <1>4, <1>5 DEF TraverseStarts

LEMMA TraversePollsInv ==
  ASSUME Inv, TraversePolls
  PROVE  Inv'
<1>1. /\ At("scan") /\ pc = "scan" /\ moved' = FALSE
      /\ UNCHANGED <<direction, op, axis, origin, target, motion, power, reached, attained,
                     error, seen, second, source, following, intended>>
  BY DEF TraversePolls, At, driveVars, motionVars, bitVars
<1>2. CASE UNCHANGED <<status, actual>> /\ Raises /\ (Delivered \/ Lost)
  <2>1. /\ actual' \in Int /\ second' \in Int /\ source' \in Int
        /\ seen' \in BOOLEAN /\ following' \in BOOLEAN /\ status' \in Statuses
    BY <1>1, <1>2, Zenon DEF Inv, VarsOK
  <2>2. UNCHANGED driveVars /\ "scan" \in Pcs \ (StopPcs \cup {"idle"})
    BY <1>1 DEF driveVars, motionVars, bitVars, Pcs, StopPcs
  <2> QED BY <1>1, <1>2, <2>1, <2>2, FailUnchangedInv
<1>3. CASE /\ status' = [fault |-> power = "fault", error |-> error, reached |-> reached]
           /\ actual' = Counts
           /\ Continues("scan_input")
           /\ Delivered
           /\ UNCHANGED motion_active
  <2>1. /\ pc' = "scan_input" /\ UNCHANGED <<result, guarded, losses, stop_losses, motion_active>>
        /\ origin = 0 /\ actual' = axis /\ axis \in Int
    BY <1>1, <1>3, Constants DEF Delivered, Continues, Inv, EntryOK, VarsOK, Counts
  <2>2. VarsOK'
    <3>1. /\ reached' \in BOOLEAN /\ attained' \in BOOLEAN /\ error' \in BOOLEAN
          /\ guarded' \in BOOLEAN /\ motion_active' \in BOOLEAN
          /\ seen' \in BOOLEAN /\ following' \in BOOLEAN
      BY <1>1, <2>1, Zenon DEF Inv, VarsOK
    <3>2. status' \in Statuses
      <4>1. (power = "fault") \in BOOLEAN /\ error \in BOOLEAN /\ reached \in BOOLEAN
        BY Zenon DEF Inv, VarsOK
      <4> QED BY <1>3, <4>1, Zenon DEF Statuses
    <3>3. /\ motion' \in Motions /\ power' \in {"off", "enabled", "fault"} /\ pc' \in Pcs
          /\ axis' \in -Reach .. Reach /\ origin' = origin /\ target' \in Int
          /\ result' \in {"none", "ok", "failed"}
          /\ actual' \in Int /\ second' \in Int /\ source' \in Int /\ intended' \in Int
      BY <1>1, <2>1 DEF Inv, VarsOK, Pcs
    <3> QED BY <1>1, <1>3, <3>1, <3>2, <3>3, BridgeTypes
  <2>3. /\ stop_losses = 0 /\ ~guarded /\ result = "none" /\ op = "home"
        /\ intended = direction * Width
    BY <1>1 DEF Inv, StopOK, ControlOK, StopPcs
  <2>4. ControlOK' /\ StopOK'
    BY <1>1, <2>1, <2>3 DEF ControlOK, StopOK, StopPcs, GuardedFailureStops,
                            FailedReferenceReleases
  <2>5. DriveOK' /\ EntryOK'
    BY <1>1, <2>1 DEF Inv, DriveOK, EntryOK, AtRestAt, MovingAt
  <2>6. ScanOK'
    <3>1. Depth(axis)' = Depth(axis) /\ Depth(actual)' = Depth(axis) /\ MovedBy' = 0
      BY <1>1, <2>1 DEF Depth, MovedBy
    <3>2. Depth(axis) \in Int /\ MovedBy <= Step /\ MovedBy \in Int
      BY DepthFacts, Constants DEF Inv, VarsOK, MovedBy
    <3> QED BY <1>1, <2>1, <3>1, <3>2, Constants DEF Inv, ScanOK
  <2>7. EdgeOK' /\ NearOK'
    BY <2>1, <2>3 DEF EdgeOK, NearOK, ZeroWhereIntended, LeavesAxisAtZero
  <2> QED BY <2>2, <2>4, <2>5, <2>6, <2>7 DEF Inv
<1> QED BY <1>2, <1>3 DEF TraversePolls

LEMMA TraverseReadsInputInv ==
  ASSUME Inv, TraverseReadsInput
  PROVE  Inv'
<1>1. /\ At("scan_input") /\ pc = "scan_input" /\ moved' = FALSE
      /\ UNCHANGED <<direction, op, axis, origin, target, motion, power, reached, attained,
                     error, status, actual, source, following, intended>>
      /\ "scan_input" \in Pcs \ (StopPcs \cup {"idle"})
  BY DEF TraverseReadsInput, At, driveVars, motionVars, bitVars, Pcs, StopPcs
<1>2. UNCHANGED driveVars
  BY DEF TraverseReadsInput
<1>3. CASE Lost /\ Raises /\ UNCHANGED <<seen, second>>
  <2>1. /\ actual' \in Int /\ second' \in Int /\ source' \in Int
        /\ seen' \in BOOLEAN /\ following' \in BOOLEAN /\ status' \in Statuses
    BY <1>1, <1>3, Zenon DEF Inv, VarsOK
  <2> QED BY <1>1, <1>2, <1>3, <2>1, FailUnchangedInv
<1>4. ASSUME Delivered, NEW active \in InputReads,
             \/ /\ status.fault \/ status.error
                /\ Raises /\ UNCHANGED <<seen, second>>
             \/ /\ ~status.fault /\ ~status.error /\ ExitFound(active)
                /\ second' = actual
                /\ Continues("halt") /\ UNCHANGED <<seen, motion_active>>
             \/ /\ ~status.fault /\ ~status.error /\ ~ExitFound(active)
                /\ seen' = (seen \/ active)
                /\ IF status.reached THEN Raises
                   ELSE Continues("scan") /\ UNCHANGED motion_active
                /\ UNCHANGED second
      PROVE  Inv'
  <2>1. active \in BOOLEAN
    BY InputFacts DEF Inv
  <2>2. /\ stop_losses = 0 /\ ~guarded /\ result = "none" /\ op = "home"
        /\ intended = direction * Width
    BY <1>1 DEF Inv, StopOK, ControlOK, StopPcs
  <2>3. /\ Depth(axis) \in Int /\ Depth(actual) \in Int /\ actual \in Int /\ origin = 0
        /\ Depth(actual) \in -1 .. MaxTravel /\ Depth(axis) \in -1 .. MaxTravel
        /\ Depth(actual) <= Depth(axis) /\ Depth(axis) <= Depth(actual) + Step
        /\ seen => 0 <= Depth(actual) /\ Depth(actual) <= Width + Step
    <3>1. /\ Depth(axis) \in Int /\ Depth(actual) \in Int /\ actual \in Int /\ axis \in Int
          /\ MovedBy \in Int /\ MovedBy <= Step
      BY DepthFacts, Constants DEF Inv, VarsOK, MovedBy
    <3> QED BY <1>1, <3>1, Constants DEF Inv, ScanOK, EntryOK
  <2>4. CASE Raises /\ second' = second /\ seen' \in BOOLEAN
    <3>1. /\ actual' \in Int /\ second' \in Int /\ source' \in Int
          /\ following' \in BOOLEAN /\ status' \in Statuses
      BY <1>1, <2>4, Zenon DEF Inv, VarsOK
    <3> QED BY <1>1, <1>2, <1>4, <2>4, <3>1, FailUnchangedInv
  <2>5. CASE /\ ExitFound(active) /\ second' = actual
             /\ Continues("halt") /\ UNCHANGED <<seen, motion_active>>
    <3>1. /\ pc' = "halt"
          /\ UNCHANGED <<result, guarded, losses, stop_losses, motion_active, seen>>
          /\ ~active /\ seen /\ actual # 0
      BY <1>4, <2>5 DEF Continues, Delivered, ExitFound
    <3>2. VarsOK'
      <4>1. /\ reached' \in BOOLEAN /\ attained' \in BOOLEAN /\ error' \in BOOLEAN
            /\ guarded' \in BOOLEAN /\ motion_active' \in BOOLEAN
            /\ seen' \in BOOLEAN /\ following' \in BOOLEAN /\ status' \in Statuses
        BY <1>1, <3>1, Zenon DEF Inv, VarsOK
      <4>2. /\ motion' \in Motions /\ power' \in {"off", "enabled", "fault"} /\ pc' \in Pcs
            /\ axis' \in -Reach .. Reach /\ origin' = origin /\ target' \in Int
            /\ result' \in {"none", "ok", "failed"}
            /\ actual' \in Int /\ second' \in Int /\ source' \in Int /\ intended' \in Int
        BY <1>1, <2>3, <2>5, <3>1 DEF Inv, VarsOK, Pcs
      <4> QED BY <1>1, <1>4, <4>1, <4>2, BridgeTypes
    <3>3. ControlOK' /\ StopOK'
      BY <1>1, <2>2, <3>1 DEF ControlOK, StopOK, StopPcs, GuardedFailureStops,
                              FailedReferenceReleases
    <3>4. DriveOK' /\ EntryOK'
      BY <1>1, <3>1 DEF Inv, DriveOK, EntryOK, AtRestAt, MovingAt
    <3>5. EdgeOK'
      <4>1. Depth(actual) # 0
        BY <2>3, <3>1, DepthFacts DEF Depth, Inv, VarsOK
      <4>2. Depth(axis) <= 0 \/ Width <= Depth(axis)
        BY <2>1, <3>1, InputFacts DEF Inv
      <4>3. 1 <= Depth(actual) /\ Width <= Depth(axis)
        BY <2>3, <3>1, <4>1, <4>2
      <4>4. Depth(actual) \in 1 .. MaxTravel /\ Distance(Depth(actual), Width) <= Step
        BY <2>3, <3>1, <4>3, Constants DEF Distance
      <4>5. Depth(second)' = Depth(actual)
        BY <1>1, <2>5 DEF Depth
      <4> QED BY <4>4, <4>5 DEF EdgeOK
    <3>6. ScanOK' /\ NearOK'
      BY <2>2, <3>1 DEF ScanOK, NearOK, ZeroWhereIntended, LeavesAxisAtZero
    <3> QED BY <3>2, <3>3, <3>4, <3>5, <3>6 DEF Inv
  <2>6. CASE /\ ~ExitFound(active) /\ seen' = (seen \/ active)
             /\ Continues("scan") /\ UNCHANGED <<motion_active, second>>
    <3>1. /\ pc' = "scan"
          /\ UNCHANGED <<result, guarded, losses, stop_losses, motion_active, second>>
      BY <1>4, <2>6 DEF Continues, Delivered
    <3>2. VarsOK'
      <4>1. /\ reached' \in BOOLEAN /\ attained' \in BOOLEAN /\ error' \in BOOLEAN
            /\ guarded' \in BOOLEAN /\ motion_active' \in BOOLEAN
            /\ following' \in BOOLEAN /\ status' \in Statuses
        BY <1>1, <3>1, Zenon DEF Inv, VarsOK
      <4>2. seen' \in BOOLEAN
        BY <2>6, Zenon
      <4>3. /\ motion' \in Motions /\ power' \in {"off", "enabled", "fault"} /\ pc' \in Pcs
            /\ axis' \in -Reach .. Reach /\ origin' = origin /\ target' \in Int
            /\ result' \in {"none", "ok", "failed"}
            /\ actual' \in Int /\ second' \in Int /\ source' \in Int /\ intended' \in Int
        BY <1>1, <3>1 DEF Inv, VarsOK, Pcs
      <4> QED BY <1>1, <1>4, <4>1, <4>2, <4>3, BridgeTypes
    <3>3. ControlOK' /\ StopOK'
      BY <1>1, <2>2, <3>1 DEF ControlOK, StopOK, StopPcs, GuardedFailureStops,
                              FailedReferenceReleases
    <3>4. DriveOK' /\ EntryOK'
      BY <1>1, <3>1 DEF Inv, DriveOK, EntryOK, AtRestAt, MovingAt
    <3>5. ScanOK'
      <4>1. seen' => Depth(axis) \in 0 .. Width
        <5>1. CASE active
          BY <1>4, <2>1, <5>1, InputFacts DEF Inv
        <5>2. CASE ~active
          <6>1. seen' => seen /\ actual = 0
            BY <2>6, <5>2 DEF ExitFound
          <6>2. actual = 0 => Depth(actual) = 0
            BY <2>3, DepthFacts DEF Inv, VarsOK
          <6> QED BY <2>3, <6>1, <6>2, Constants
        <5> QED BY <5>1, <5>2
      <4>2. Depth(axis)' = Depth(axis) /\ MovedBy' = 0
        BY <1>1 DEF Depth, MovedBy
      <4> QED BY <2>3, <3>1, <4>1, <4>2, Constants DEF ScanOK
    <3>6. EdgeOK' /\ NearOK'
      BY <2>2, <3>1 DEF EdgeOK, NearOK, ZeroWhereIntended, LeavesAxisAtZero
    <3> QED BY <3>2, <3>3, <3>4, <3>5, <3>6 DEF Inv
  <2>7. \/ Raises /\ second' = second /\ seen' \in BOOLEAN
        \/ /\ ExitFound(active) /\ second' = actual
           /\ Continues("halt") /\ UNCHANGED <<seen, motion_active>>
        \/ /\ ~ExitFound(active) /\ seen' = (seen \/ active)
           /\ Continues("scan") /\ UNCHANGED <<motion_active, second>>
    <3>1. seen \in BOOLEAN /\ (seen \/ active) \in BOOLEAN
      BY Zenon DEF Inv, VarsOK
    <3> QED BY <1>4, <3>1, Zenon
  <2> QED BY <2>4, <2>5, <2>6, <2>7
<1> QED BY <1>3, <1>4 DEF TraverseReadsInput

-----------------------------------------------------------------------------
(* The bridge: the halt, and the except clauses.                           *)

\* A step of an except clause keeps all but what it may do to the drive.
LEMMA StopFrame ==
  ASSUME Inv, NEW p \in StopPcs, At(p), Delivered \/ Lost, StopOK',
         UNCHANGED <<axis, origin, target, reached, attained, error, localVars, intended,
                     motion_active, guarded>>,
         power' \in {"off", "enabled", "fault"}, motion' \in {motion, "rest", "halting"},
         \/ pc' \in {"stop_wait", "stop_voltage"} /\ result' = result /\ p # "release"
         \/ pc' = "idle" /\ result' = "failed"
  PROVE  Inv'
<1>1. /\ pc = p /\ moved' = FALSE /\ UNCHANGED <<direction, op>>
      /\ result = "none" /\ (p # "release" => op = "home")
      /\ op = "home" => intended = direction * Width
      /\ op # "home" => ~motion_active
  BY DEF At, Inv, ControlOK, StopPcs
<1>2. VarsOK'
  <2>1. /\ reached' \in BOOLEAN /\ attained' \in BOOLEAN /\ error' \in BOOLEAN
        /\ guarded' \in BOOLEAN /\ motion_active' \in BOOLEAN /\ moved' \in BOOLEAN
        /\ seen' \in BOOLEAN /\ following' \in BOOLEAN /\ status' \in Statuses
    BY <1>1, Zenon DEF Inv, VarsOK, localVars
  <2>2. losses' \in 0 .. MaxLosses /\ stop_losses' \in 0 .. losses'
    BY Constants DEF Inv, VarsOK, Delivered, Lost
  <2>3. /\ motion' \in Motions /\ pc' \in Pcs /\ direction' \in {1, -1}
        /\ axis' \in -Reach .. Reach /\ origin' \in -Reach .. Reach /\ target' \in Int
        /\ result' \in {"none", "ok", "failed"} /\ op' \in {"home", "spur", "adjust"}
        /\ actual' \in Int /\ second' \in Int /\ source' \in Int /\ intended' \in Int
    BY <1>1 DEF Inv, VarsOK, Pcs, Motions, localVars
  <2> QED BY <2>1, <2>2, <2>3 DEF VarsOK
<1>3. ControlOK'
  BY <1>1 DEF ControlOK
<1>4. DriveOK' /\ EntryOK' /\ ScanOK' /\ EdgeOK' /\ NearOK'
  BY <1>1 DEF Inv, DriveOK, AtRestAt, MovingAt, EntryOK, ScanOK, EdgeOK, NearOK,
              ZeroWhereIntended, LeavesAxisAtZero
<1> QED BY <1>2, <1>3, <1>4 DEF Inv

\* The halt of the procedure has been requested.
LEMMA HaltStartsInv ==
  ASSUME Inv, HaltStarts("halt", "halt_wait")
  PROVE  Inv'
<1> DEFINE taken == IF power = "enabled" /\ motion \in {"pending", "moving"}
                    THEN "halting" ELSE motion
<1>1. /\ At("halt") /\ pc = "halt" /\ moved' = FALSE /\ UNCHANGED <<direction, op>>
      /\ "halt" \in Pcs \ (StopPcs \cup {"idle"})
      /\ UNCHANGED <<axis, origin, target, power, reached, attained, error, localVars, intended>>
      /\ motion \in {"rest", "pending", "moving", "halting"}
  BY DEF HaltStarts, At, bitVars, Pcs, StopPcs, Inv, DriveOK
<1>2. /\ actual' \in Int /\ second' \in Int /\ source' \in Int /\ intended' \in Int
      /\ seen' \in BOOLEAN /\ following' \in BOOLEAN /\ status' \in Statuses
  BY <1>1, Zenon DEF localVars, Inv, VarsOK
<1>3. CASE motion' \in {taken, motion} /\ Lost /\ HaltRaises
  <2>1. Raises
    BY <1>1, <1>3 DEF HaltRaises, StopPcs
  <2>2. /\ motion' \in Motions /\ power' \in {"off", "enabled", "fault"} /\ target' \in Int
        /\ motion' \in {"pending", "moving"} => Distance(target' + origin, 0) <= Reach
        /\ op = "home" => intended' = intended
    BY <1>1, <1>3 DEF Inv, VarsOK, DriveOK, Motions
  <2> QED BY <1>1, <1>2, <1>3, <2>1, <2>2, FailInv
<1>4. CASE motion' = taken /\ Delivered /\ Continues("halt_wait") /\ UNCHANGED motion_active
  <2>1. /\ pc' = "halt_wait"
        /\ UNCHANGED <<result, guarded, losses, stop_losses, motion_active>>
        /\ motion' \in {"rest", "pending", "moving", "halting"}
        /\ motion' \in {"pending", "moving"} => motion' = motion
    BY <1>1, <1>4 DEF Continues, Delivered
  <2>2. VarsOK'
    <3>1. /\ reached' \in BOOLEAN /\ attained' \in BOOLEAN /\ error' \in BOOLEAN
          /\ motion_active' \in BOOLEAN
      BY <1>1, <2>1, Zenon DEF Inv, VarsOK
    <3>2. /\ motion' \in Motions /\ power' \in {"off", "enabled", "fault"} /\ pc' \in Pcs
          /\ axis' \in -Reach .. Reach /\ origin' = origin /\ target' \in Int
      BY <1>1, <2>1 DEF Inv, VarsOK, Pcs, Motions
    <3> QED BY <1>1, <1>4, <2>1, <3>1, <3>2, BridgeTypesKept
  <2>3. /\ stop_losses = 0 /\ ~guarded /\ result = "none" /\ op = "home"
        /\ intended = direction * Width
    BY <1>1 DEF Inv, StopOK, ControlOK, StopPcs
  <2>4. ControlOK' /\ StopOK'
    BY <1>1, <2>1, <2>3 DEF ControlOK, StopOK, StopPcs, GuardedFailureStops,
                            FailedReferenceReleases
  <2>5. DriveOK' /\ EntryOK' /\ ScanOK'
    BY <1>1, <2>1 DEF Inv, DriveOK, EntryOK, ScanOK, AtRestAt, MovingAt
  <2>6. EdgeOK' /\ NearOK'
    BY <1>1, <2>1, <2>3 DEF Inv, EdgeOK, NearOK, ZeroWhereIntended, LeavesAxisAtZero, Depth,
                            localVars
  <2> QED BY <2>2, <2>4, <2>5, <2>6 DEF Inv
<1> QED BY <1>3, <1>4 DEF HaltStarts

LEMMA StopHaltStartsInv ==
  ASSUME Inv, HaltStarts("stop_halt", "stop_wait")
  PROVE  Inv'
<1>1. /\ At("stop_halt") /\ pc = "stop_halt" /\ "stop_halt" \in StopPcs
      /\ UNCHANGED <<direction, op>> /\ op = "home"
      /\ UNCHANGED <<axis, origin, target, power, reached, attained, error, localVars, intended,
                     motion_active, result, guarded>>
      /\ motion' \in {motion, "rest", "halting"}
      /\ \/ pc' = "stop_wait" /\ Delivered
         \/ pc' = "stop_voltage" /\ Lost
  BY DEF HaltStarts, HaltRaises, Continues, At, bitVars, StopPcs, Inv, ControlOK
<1>2. power' \in {"off", "enabled", "fault"} /\ (Delivered \/ Lost)
  BY <1>1 DEF Inv, VarsOK
<1>3. StopOK'
  <2>1. stop_losses = 0
    BY <1>1 DEF Inv, StopOK
  <2> QED BY <1>1, <2>1 DEF StopOK, StopPcs, Delivered, Lost, GuardedFailureStops,
                            FailedReferenceReleases
<1> QED BY <1>1, <1>2, <1>3, StopFrame

LEMMA HaltPollsInv ==
  ASSUME Inv, HaltPolls("halt_wait")
  PROVE  Inv'
<1>1. /\ At("halt_wait") /\ pc = "halt_wait" /\ moved' = FALSE /\ UNCHANGED <<direction, op>>
      /\ "halt_wait" \in Pcs \ (StopPcs \cup {"idle"})
      /\ UNCHANGED <<localVars, intended>>
  BY DEF HaltPolls, At, Pcs, StopPcs
<1>2. /\ actual' \in Int /\ second' \in Int /\ source' \in Int /\ intended' \in Int
      /\ seen' \in BOOLEAN /\ following' \in BOOLEAN /\ status' \in Statuses
  BY <1>1, Zenon DEF localVars, Inv, VarsOK
<1>3. CASE (VoltageDisabled \/ UNCHANGED driveVars) /\ (Delivered \/ Lost) /\ HaltRaises
  <2>1. Raises
    BY <1>1, <1>3 DEF HaltRaises, StopPcs
  <2> QED BY <1>1, <1>2, <1>3, <2>1, FailUnchangedInv
<1>4. CASE /\ power # "fault" /\ Delivered /\ UNCHANGED driveVars
           /\ \/ motion = "rest" /\ Continues("midpoint") /\ motion_active' = FALSE
              \/ motion # "rest" /\ Continues("halt_wait") /\ UNCHANGED motion_active
  <2>1. /\ pc' = "halt_wait" \/ (pc' = "midpoint" /\ motion = "rest")
        /\ UNCHANGED <<result, guarded, losses, stop_losses, axis, origin, target, motion,
                       power, reached, attained, error>>
    BY <1>4 DEF Continues, Delivered, driveVars, motionVars, bitVars
  <2>2. motion_active' \in BOOLEAN
    BY <1>4, Zenon DEF Inv, VarsOK
  <2>3. VarsOK'
    <3>1. reached' \in BOOLEAN /\ attained' \in BOOLEAN /\ error' \in BOOLEAN
      BY <2>1, Zenon DEF Inv, VarsOK
    <3>2. /\ motion' \in Motions /\ power' \in {"off", "enabled", "fault"} /\ pc' \in Pcs
          /\ axis' \in -Reach .. Reach /\ origin' = origin /\ target' \in Int
      BY <2>1 DEF Inv, VarsOK, Pcs
    <3> QED BY <1>1, <1>4, <2>1, <2>2, <3>1, <3>2, BridgeTypesKept
  <2>4. /\ stop_losses = 0 /\ ~guarded /\ result = "none" /\ op = "home"
        /\ intended = direction * Width
    BY <1>1 DEF Inv, StopOK, ControlOK, StopPcs
  <2>5. ControlOK' /\ StopOK'
    BY <1>1, <2>1, <2>4 DEF ControlOK, StopOK, StopPcs, GuardedFailureStops,
                            FailedReferenceReleases
  <2>6. DriveOK' /\ EntryOK' /\ ScanOK'
    BY <1>1, <2>1 DEF Inv, DriveOK, EntryOK, ScanOK, AtRestAt, MovingAt
  <2>7. EdgeOK' /\ NearOK'
    BY <1>1, <2>1, <2>4 DEF Inv, EdgeOK, NearOK, ZeroWhereIntended, LeavesAxisAtZero, Depth,
                            localVars
  <2> QED BY <2>3, <2>5, <2>6, <2>7 DEF Inv
<1> QED BY <1>1, <1>3, <1>4 DEF HaltPolls

LEMMA StopHaltPollsInv ==
  ASSUME Inv, HaltPolls("stop_wait")
  PROVE  Inv'
<1>1. /\ At("stop_wait") /\ pc = "stop_wait" /\ "stop_wait" \in StopPcs
      /\ UNCHANGED <<direction, op, localVars, intended>> /\ op = "home" /\ stop_losses = 0
  BY DEF HaltPolls, At, StopPcs, Inv, ControlOK, StopOK
<1>2. /\ UNCHANGED <<axis, origin, target, reached, attained, error, motion_active, guarded>>
      /\ motion' \in {motion, "rest"} /\ power' \in {"off", "enabled", "fault"}
      /\ \/ pc' = "idle" /\ result' = "failed" /\ motion' = "rest" /\ Delivered
         \/ pc' = "stop_wait" /\ result' = result /\ Delivered
         \/ pc' = "stop_voltage" /\ result' = result /\ motion' = "rest" /\ Delivered
         \/ pc' = "stop_voltage" /\ result' = result /\ Lost
  <2>1. CASE power # "fault" /\ UNCHANGED driveVars /\ Delivered
             /\ \/ motion = "rest" /\ Returns("failed") /\ UNCHANGED <<guarded, motion_active>>
                \/ Continues("stop_wait") /\ UNCHANGED motion_active
    BY <2>1 DEF driveVars, motionVars, bitVars, Returns, Continues, Inv, VarsOK
  <2>2. CASE /\ Continues("stop_voltage") /\ UNCHANGED motion_active
             /\ \/ VoltageDisabled /\ Delivered
                \/ Lost /\ (VoltageDisabled \/ UNCHANGED driveVars)
    BY <2>2 DEF driveVars, motionVars, bitVars, VoltageDisabled, Continues, Inv, VarsOK
  <2> QED BY <1>1, <2>1, <2>2 DEF HaltPolls, HaltRaises
<1>3. StopOK'
  BY <1>1, <1>2 DEF StopOK, StopPcs, Delivered, Lost, GuardedFailureStops,
                    FailedReferenceReleases
<1>4. /\ Delivered \/ Lost
      /\ \/ pc' \in {"stop_wait", "stop_voltage"} /\ result' = result /\ "stop_wait" # "release"
         \/ pc' = "idle" /\ result' = "failed"
  BY <1>2
<1> QED BY <1>1, <1>2, <1>3, <1>4, StopFrame

\* The last resort of the Homing's except clause, and the spur gear's.
LEMMA DisableInv ==
  ASSUME Inv, StopsByVoltage \/ ReleasesSpurGear
  PROVE  Inv'
<1>1. PICK p \in {"stop_voltage", "release"} :
        /\ At(p) /\ p \in StopPcs /\ pc = p
        /\ pc' = "idle" /\ result' = "failed"
        /\ UNCHANGED <<guarded, motion_active, localVars, intended, op>>
        /\ \/ VoltageDisabled /\ Delivered
           \/ Lost /\ (VoltageDisabled \/ UNCHANGED driveVars)
        /\ p = "stop_voltage" => op = "home"
        /\ p = "release" => op = "spur"
  BY DEF StopsByVoltage, ReleasesSpurGear, LastResort, DisablesOperation, At, Returns, StopPcs,
         Inv, ControlOK
<1>2. /\ UNCHANGED <<axis, origin, target, reached, attained, error>>
      /\ motion' \in {motion, "rest"} /\ power' \in {"off", "enabled", "fault"}
      /\ \/ Delivered /\ motion' = "rest" /\ power' # "enabled"
         \/ Lost /\ (motion = "rest" => motion' = "rest")
  BY <1>1 DEF driveVars, motionVars, bitVars, VoltageDisabled, Inv, VarsOK
<1>3. StopOK'
  <2>1. stop_losses \in Int /\ stop_losses >= 0
    BY Constants DEF Inv, VarsOK
  <2>2. CASE Delivered /\ motion' = "rest" /\ power' # "enabled"
    BY <1>1, <2>2 DEF StopOK, StopPcs, GuardedFailureStops, FailedReferenceReleases
  <2>3. CASE Lost /\ (motion = "rest" => motion' = "rest")
    <3>1. stop_losses' = stop_losses + 1
      BY <1>1, <2>3 DEF Lost
    <3>2. pc = "stop_voltage" => stop_losses <= 1 /\ (stop_losses = 0 => motion' = "rest")
      BY <2>3 DEF Inv, StopOK
    <3> QED BY <1>1, <2>1, <3>1, <3>2
        DEF StopOK, StopPcs, GuardedFailureStops, FailedReferenceReleases
  <2> QED BY <1>2, <2>2, <2>3
<1> QED BY <1>1, <1>2, <1>3, StopFrame

-----------------------------------------------------------------------------
(* The bridge: the return to the midpoint.                                 *)

LEMMA ComputeMidpointInv ==
  ASSUME Inv, ComputeMidpoint
  PROVE  Inv'
<1>1. /\ At("midpoint") /\ pc = "midpoint" /\ moved' = FALSE /\ UNCHANGED <<direction, op>>
      /\ "midpoint" \in Pcs \ (StopPcs \cup {"idle"})
      /\ UNCHANGED <<driveVars, localVars, intended>> /\ Delivered
  BY DEF ComputeMidpoint, At, Pcs, StopPcs
<1>2. CASE Raises
  <2>1. /\ actual' \in Int /\ second' \in Int /\ source' \in Int
        /\ seen' \in BOOLEAN /\ following' \in BOOLEAN /\ status' \in Statuses
    BY <1>1, Zenon DEF localVars, Inv, VarsOK
  <2> QED BY <1>1, <1>2, <2>1, FailUnchangedInv
<1>3. CASE Continues("mid_start") /\ motion_active' = TRUE
  <2>1. /\ pc' = "mid_start"
        /\ UNCHANGED <<result, guarded, losses, stop_losses, axis, origin, target, motion,
                       power, reached, attained, error, seen, status, actual, second, source,
                       following>>
    BY <1>1, <1>3 DEF Continues, Delivered, driveVars, motionVars, bitVars, localVars
  <2>2. VarsOK'
    <3>1. /\ reached' \in BOOLEAN /\ attained' \in BOOLEAN /\ error' \in BOOLEAN
          /\ motion_active' \in BOOLEAN
      BY <1>3, <2>1, Zenon DEF Inv, VarsOK
    <3>2. /\ motion' \in Motions /\ power' \in {"off", "enabled", "fault"} /\ pc' \in Pcs
          /\ axis' \in -Reach .. Reach /\ origin' = origin /\ target' \in Int
      BY <2>1 DEF Inv, VarsOK, Pcs
    <3>3. UNCHANGED <<localVars, intended, result, guarded>>
      BY <1>1, <2>1
    <3> QED BY <1>1, <3>1, <3>2, <3>3, BridgeTypesKept
  <2>3. /\ stop_losses = 0 /\ ~guarded /\ result = "none" /\ op = "home"
        /\ intended = direction * Width
    BY <1>1 DEF Inv, StopOK, ControlOK, StopPcs
  <2>4. ControlOK' /\ StopOK'
    BY <1>1, <2>1, <2>3 DEF ControlOK, StopOK, StopPcs, GuardedFailureStops,
                            FailedReferenceReleases
  <2>5. DriveOK' /\ EntryOK' /\ ScanOK'
    BY <1>1, <2>1 DEF Inv, DriveOK, EntryOK, ScanOK, AtRestAt, MovingAt
  <2>6. EdgeOK' /\ NearOK'
    BY <1>1, <2>1, <2>3 DEF Inv, EdgeOK, NearOK, ZeroWhereIntended, LeavesAxisAtZero, Depth
  <2> QED BY <2>2, <2>4, <2>5, <2>6 DEF Inv
<1> QED BY <1>1, <1>2, <1>3 DEF ComputeMidpoint

\* Halving an edge in the direction of the search rounds by at most a half.
LEMMA MidpointFacts ==
  ASSUME VarsOK, Depth(second) \in 1 .. MaxTravel
  PROVE  /\ Midpoint \in Int /\ Distance(Midpoint, 0) <= MaxTravel
         /\ Distance(2 * Midpoint, second) <= 1
<1>1. second \in Int /\ -MaxTravel <= second /\ second <= MaxTravel /\ MaxTravel \in Int
  BY DepthFacts, Constants DEF VarsOK
<1>2. /\ second \div 2 \in Int
      /\ 2 * (second \div 2) <= second /\ second <= 2 * (second \div 2) + 1
  BY <1>1
<1> QED BY <1>1, <1>2, Constants DEF Midpoint, Distance

LEMMA MidpointStartsInv ==
  ASSUME Inv, MidpointStarts
  PROVE  Inv'
<1>1. /\ At("mid_start") /\ pc = "mid_start" /\ moved' = FALSE /\ UNCHANGED <<direction, op>>
      /\ "mid_start" \in Pcs \ (StopPcs \cup {"idle"})
      /\ UNCHANGED <<localVars, intended>>
      /\ motion = "rest" /\ origin = 0 /\ op = "home"
      /\ Depth(second) \in 1 .. MaxTravel
  BY DEF MidpointStarts, At, Pcs, StopPcs, Inv, DriveOK, EntryOK, EdgeOK, ControlOK, AtRestAt
<1>2. /\ actual' \in Int /\ second' \in Int /\ source' \in Int /\ intended' \in Int
      /\ seen' \in BOOLEAN /\ following' \in BOOLEAN /\ status' \in Statuses
  BY <1>1, Zenon DEF localVars, Inv, VarsOK
<1>3. Midpoint \in Int /\ Distance(Midpoint + origin, 0) <= Reach
  <2>1. Midpoint \in Int /\ Distance(Midpoint, 0) <= MaxTravel
    BY <1>1, MidpointFacts DEF Inv
  <2>2. Midpoint + origin = Midpoint
    BY <1>1, <2>1
  <2> QED BY <2>1, <2>2, Constants DEF Distance
<1>4. CASE MoveStartFails(Midpoint)
  BY <1>1, <1>2, <1>3, <1>4, FailMoveInv
<1>5. CASE MoveStarts(Midpoint) /\ Delivered /\ Continues("mid_wait") /\ UNCHANGED motion_active
  <2>1. /\ pc' = "mid_wait"
        /\ UNCHANGED <<result, guarded, losses, stop_losses, axis, origin, power, reached,
                       attained, error, motion_active, second>>
        /\ \/ motion' = "pending" /\ target' = Midpoint
           \/ motion' = "rest" /\ target' = target
    BY <1>1, <1>5 DEF Continues, Delivered, MoveStarts, bitVars, localVars
  <2>2. VarsOK'
    <3>1. /\ reached' \in BOOLEAN /\ attained' \in BOOLEAN /\ error' \in BOOLEAN
          /\ motion_active' \in BOOLEAN
      BY <2>1, Zenon DEF Inv, VarsOK
    <3>2. /\ motion' \in Motions /\ power' \in {"off", "enabled", "fault"} /\ pc' \in Pcs
          /\ axis' \in -Reach .. Reach /\ origin' = origin /\ target' \in Int
      BY <1>3, <2>1 DEF Inv, VarsOK, Pcs, Motions
    <3>3. UNCHANGED <<localVars, intended, result, guarded>>
      BY <1>1, <2>1
    <3> QED BY <1>1, <1>5, <3>1, <3>2, <3>3, BridgeTypesKept
  <2>3. /\ stop_losses = 0 /\ ~guarded /\ result = "none"
        /\ intended = direction * Width
    BY <1>1 DEF Inv, StopOK, ControlOK, StopPcs
  <2>4. ControlOK' /\ StopOK'
    BY <1>1, <2>1, <2>3 DEF ControlOK, StopOK, StopPcs, GuardedFailureStops,
                            FailedReferenceReleases
  <2>5. DriveOK'
    BY <1>1, <1>3, <2>1 DEF Inv, DriveOK, AtRestAt, MovingAt, ZeroGoal, Midpoint
  <2>6. EntryOK' /\ ScanOK'
    BY <1>1, <2>1 DEF EntryOK, ScanOK
  <2>7. EdgeOK' /\ NearOK'
    BY <1>1, <2>1, <2>3 DEF Inv, EdgeOK, NearOK, ZeroWhereIntended, LeavesAxisAtZero, Depth
  <2> QED BY <2>2, <2>4, <2>5, <2>6, <2>7 DEF Inv
<1> QED BY <1>4, <1>5 DEF MidpointStarts

LEMMA MidpointPollsInv ==
  ASSUME Inv, MidpointPolls
  PROVE  Inv'
<1>1. /\ At("mid_wait") /\ pc = "mid_wait" /\ moved' = FALSE /\ UNCHANGED <<direction, op>>
      /\ "mid_wait" \in Pcs \ (StopPcs \cup {"idle"})
      /\ UNCHANGED <<driveVars, seen, status, second, source, following, intended>>
      /\ UNCHANGED <<axis, origin, target, motion, power, reached, attained, error>>
      /\ op = "home" /\ origin = 0
  BY DEF MidpointPolls, At, Pcs, StopPcs, driveVars, motionVars, bitVars, Inv, EntryOK, ControlOK
<1>2. /\ second' \in Int /\ source' \in Int /\ intended' \in Int
      /\ seen' \in BOOLEAN /\ following' \in BOOLEAN /\ status' \in Statuses
      /\ reached' \in BOOLEAN /\ attained' \in BOOLEAN /\ error' \in BOOLEAN
  BY <1>1, Zenon DEF Inv, VarsOK
<1>3. /\ stop_losses = 0 /\ ~guarded /\ result = "none"
      /\ intended = direction * Width
  BY <1>1 DEF Inv, StopOK, ControlOK, StopPcs
<1>4. CASE (Delivered \/ Lost) /\ Raises /\ UNCHANGED actual
  <2>1. actual' \in Int
    BY <1>4 DEF Inv, VarsOK
  <2> QED BY <1>1, <1>2, <1>4, <2>1, FailUnchangedInv
<1>5. CASE /\ Delivered /\ UNCHANGED guarded /\ actual' \in {actual, Counts}
           /\ \/ /\ actual' = Counts /\ AtMidpoint(actual')
                 /\ pc' = "zero" /\ result' = result /\ motion_active' = FALSE
              \/ pc' = "idle" /\ result' = "failed" /\ motion_active' = FALSE
              \/ pc' = "mid_wait" /\ result' = result /\ motion_active' = motion_active
  <2>1. motion_active' \in BOOLEAN /\ guarded' \in BOOLEAN
    BY <1>5, Zenon DEF Inv, VarsOK
  <2>2. Counts \in Int
    BY Constants DEF Counts, Inv, VarsOK
  <2>3. VarsOK'
    <3>1. /\ motion' \in Motions /\ power' \in {"off", "enabled", "fault"} /\ pc' \in Pcs
          /\ axis' \in -Reach .. Reach /\ origin' = origin /\ target' \in Int
          /\ actual' \in Int /\ result' \in {"none", "ok", "failed"}
      BY <1>1, <1>5, <2>2 DEF Inv, VarsOK, Pcs
    <3> QED BY <1>1, <1>2, <1>5, <2>1, <3>1, BridgeTypes
  <2>4. stop_losses' = 0 /\ guarded' = guarded
    BY <1>3, <1>5 DEF Delivered
  <2>5. ControlOK' /\ StopOK'
    BY <1>1, <1>3, <1>5, <2>4 DEF ControlOK, StopOK, StopPcs, GuardedFailureStops,
                                  FailedReferenceReleases
  <2>6. ZeroGoal = Midpoint /\ ZeroGoal' = ZeroGoal
    BY <1>1 DEF ZeroGoal, Midpoint
  <2>7. DriveOK'
    BY <1>1, <1>5, <2>6 DEF Inv, DriveOK, AtRestAt, MovingAt
  <2>8. EntryOK' /\ ScanOK' /\ EdgeOK'
    BY <1>1, <1>5 DEF Inv, EntryOK, ScanOK, EdgeOK, Depth
  <2>9. pc' = "zero" => Distance(Counts', ZeroGoal') <= Tolerance
    BY <1>1, <1>5, <2>6 DEF AtMidpoint, Counts
  <2>10. NearOK'
    BY <1>1, <1>3, <1>5, <2>9 DEF NearOK, ZeroWhereIntended, LeavesAxisAtZero
  <2> QED BY <2>3, <2>5, <2>7, <2>8, <2>10 DEF Inv
<1>6. \/ (Delivered \/ Lost) /\ Raises /\ UNCHANGED actual
      \/ /\ Delivered /\ UNCHANGED guarded /\ actual' \in {actual, Counts}
         /\ \/ /\ actual' = Counts /\ AtMidpoint(actual')
               /\ pc' = "zero" /\ result' = result /\ motion_active' = FALSE
            \/ pc' = "idle" /\ result' = "failed" /\ motion_active' = FALSE
            \/ pc' = "mid_wait" /\ result' = result /\ motion_active' = motion_active
  BY DEF MidpointPolls, Continues, Returns
<1> QED BY <1>4, <1>5, <1>6

-----------------------------------------------------------------------------
(* The bridge: Method 37.                                                  *)

\* At the goal, the axis is as near to the intended position as Slack without the sag.
LEMMA GoalIsIntended ==
  ASSUME Inv, pc = "zero"
  PROVE  /\ axis \in Int /\ intended \in Int
         /\ Distance(2 * axis, intended) <= 2 * Tolerance + GoalSlack
<1>1. /\ axis \in Int /\ origin \in Int /\ intended \in Int /\ second \in Int /\ source \in Int
      /\ direction \in {1, -1} /\ op \in {"home", "spur"}
      /\ Distance(axis - origin, ZeroGoal) <= Tolerance
  BY Constants DEF Inv, VarsOK, ControlOK, NearOK, Counts
<1>2. CASE op = "spur"
  <2>1. intended = 2 * (source + Delta + origin) /\ ZeroGoal = source + Delta /\ GoalSlack = 0
    BY <1>2 DEF Inv, NearOK, ZeroGoal, GoalSlack
  <2> QED BY <1>1, <2>1, Constants DEF Distance
<1>3. CASE op = "home"
  <2>1. /\ Depth(second) \in 1 .. MaxTravel /\ Distance(Depth(second), Width) <= Step
        /\ origin = 0 /\ ZeroGoal = Midpoint /\ GoalSlack = Step + 1
        /\ intended = direction * Width
    BY <1>3 DEF Inv, EdgeOK, EntryOK, ZeroGoal, GoalSlack, ControlOK
  <2>2. /\ Midpoint \in Int /\ Distance(2 * Midpoint, second) <= 1
    BY <2>1, MidpointFacts DEF Inv
  <2>3. Distance(second, intended) <= Step
    <3>1. CASE direction = 1
      BY <1>1, <2>1, <3>1, Constants DEF Depth, Distance
    <3>2. CASE direction = -1
      <4>1. intended = -Width /\ Depth(second) = -second
        BY <2>1, <3>2, Constants DEF Depth
      <4>2. Distance(-second, Width) <= Step
        BY <2>1, <4>1
      <4> QED BY <1>1, <4>1, <4>2, Constants DEF Distance
    <3> QED BY <1>1, <3>1, <3>2
  <2>4. Distance(axis, Midpoint) <= Tolerance
    BY <1>1, <2>1
  <2> HIDE DEF Midpoint
  <2>5. Distance(2 * axis, 2 * Midpoint) <= 2 * Tolerance
    BY <1>1, <2>2, <2>4, Constants DEF Distance
  <2> QED BY <1>1, <2>1, <2>2, <2>3, <2>5, Constants DEF Distance
<1> QED BY <1>1, <1>2, <1>3

LEMMA SagWidens ==
  ASSUME NEW a \in Int, NEW b \in Int, NEW c \in Int, NEW s \in Int, NEW t \in Int,
         NEW g \in Int, a - s <= b, b <= a + s, Distance(2 * a, c) <= 2 * t + g
  PROVE  Distance(2 * b, c) <= 2 * t + 2 * s + g
BY DEF Distance

LEMMA ZeroStartsInv ==
  ASSUME Inv, ZeroStarts
  PROVE  Inv'
<1>1. /\ At("zero") /\ pc = "zero" /\ moved' = FALSE /\ UNCHANGED <<direction, op>>
      /\ "zero" \in Pcs \ (StopPcs \cup {"idle"})
      /\ UNCHANGED <<localVars, intended>>
      /\ op \in {"home", "spur"}
  BY DEF ZeroStarts, At, Pcs, StopPcs, Inv, VarsOK, ControlOK
<1>2. CASE PowerUpFails("zeroing")
  BY <1>1, <1>2, FailPowerUpInv
<1>3. CASE /\ PoweredUp("zeroing") /\ Delivered
           /\ axis' \in Within(axis, Sag)
           /\ Continues("zero_wait")
           /\ UNCHANGED <<origin, target, motion_active>>
  <2>1. /\ pc' = "zero_wait" /\ motion' = "zeroing" /\ power' = "enabled"
        /\ reached' = FALSE /\ attained' = FALSE /\ error' = FALSE
        /\ UNCHANGED <<result, guarded, losses, stop_losses, origin, target, motion_active,
                       intended>>
    BY <1>1, <1>3 DEF Continues, Delivered, PoweredUp
  <2>2. axis' \in -Reach .. Reach /\ axis - Sag <= axis' /\ axis' <= axis + Sag /\ axis' \in Int
    BY <1>3, Constants DEF Within, Inv, VarsOK
  <2>3. VarsOK'
    <3>1. /\ reached' \in BOOLEAN /\ attained' \in BOOLEAN /\ error' \in BOOLEAN
          /\ motion_active' \in BOOLEAN
      BY <2>1, Zenon DEF Inv, VarsOK
    <3>2. /\ motion' \in Motions /\ power' \in {"off", "enabled", "fault"} /\ pc' \in Pcs
          /\ origin' = origin /\ target' \in Int
      BY <2>1 DEF Inv, VarsOK, Pcs, Motions
    <3>3. UNCHANGED <<localVars, intended, result, guarded>>
      BY <1>1, <2>1
    <3> QED BY <1>1, <1>3, <2>2, <3>1, <3>2, <3>3, BridgeTypesKept
  <2>4. /\ stop_losses = 0 /\ ~guarded /\ result = "none"
        /\ op = "home" => intended = direction * Width
        /\ op # "home" => ~motion_active
    BY <1>1 DEF Inv, StopOK, ControlOK, StopPcs
  <2>5. ControlOK' /\ StopOK'
    BY <1>1, <2>1, <2>4 DEF ControlOK, StopOK, StopPcs, GuardedFailureStops,
                            FailedReferenceReleases
  <2>6. DriveOK' /\ EntryOK' /\ ScanOK' /\ EdgeOK'
    BY <2>1 DEF DriveOK, AtRestAt, MovingAt, EntryOK, ScanOK, EdgeOK
  <2>7. Distance(2 * axis', intended) <= Slack /\ Slack' = Slack
    <3>1. /\ axis \in Int /\ intended \in Int
          /\ Distance(2 * axis, intended) <= 2 * Tolerance + GoalSlack
      BY <1>1, GoalIsIntended
    <3>2. Slack = 2 * Tolerance + 2 * Sag + GoalSlack /\ GoalSlack \in Int
      BY Constants DEF Slack, GoalSlack
    <3>3. Slack' = Slack
      BY <1>1 DEF Slack
    <3>4. Distance(2 * axis', intended) <= 2 * Tolerance + 2 * Sag + GoalSlack
      BY <2>2, <3>1, <3>2, SagWidens, Constants
    <3> QED BY <3>2, <3>3, <3>4
  <2>8. NearOK'
    BY <2>1, <2>4, <2>7 DEF NearOK, ZeroWhereIntended, LeavesAxisAtZero
  <2> QED BY <2>3, <2>5, <2>6, <2>8 DEF Inv
<1> QED BY <1>2, <1>3 DEF ZeroStarts

LEMMA ZeroPollsInv ==
  ASSUME Inv, ZeroPolls
  PROVE  Inv'
<1>1. /\ At("zero_wait") /\ pc = "zero_wait" /\ moved' = FALSE /\ UNCHANGED <<direction, op>>
      /\ "zero_wait" \in Pcs \ (StopPcs \cup {"idle"})
      /\ UNCHANGED <<seen, status, second, source, following, intended>>
      /\ op # "adjust"
  BY DEF ZeroPolls, At, Pcs, StopPcs, Inv, ControlOK
<1>2. /\ second' \in Int /\ source' \in Int /\ intended' \in Int
      /\ seen' \in BOOLEAN /\ following' \in BOOLEAN /\ status' \in Statuses
  BY <1>1, Zenon DEF Inv, VarsOK
<1>3. /\ stop_losses = 0 /\ ~guarded /\ result = "none"
      /\ op = "home" => intended = direction * Width
      /\ op # "home" => ~motion_active
  BY <1>1 DEF Inv, StopOK, ControlOK, StopPcs
<1>4. Counts \in Int /\ actual \in Int
  BY Constants DEF Counts, Inv, VarsOK
<1>5. CASE /\ Raises /\ (Delivered \/ Lost) /\ (VoltageDisabled \/ UNCHANGED driveVars)
           /\ actual' \in {actual, Counts}
  <2>1. actual' \in Int
    BY <1>4, <1>5
  <2> QED BY <1>1, <1>2, <1>5, <2>1, FailUnchangedInv
<1>6. CASE /\ Delivered /\ UNCHANGED <<driveVars, guarded, motion_active>>
           /\ actual' \in {actual, Counts}
           /\ \/ attained /\ ReadsZero(Counts) /\ pc' = "idle" /\ result' = "ok"
              \/ pc' = "zero_wait" /\ result' = result
  <2>1. /\ UNCHANGED <<axis, origin, target, motion, power, reached, attained, error, losses,
                       stop_losses, guarded, motion_active>>
    BY <1>6 DEF driveVars, motionVars, bitVars, Delivered
  <2>2. VarsOK'
    <3>1. /\ reached' \in BOOLEAN /\ attained' \in BOOLEAN /\ error' \in BOOLEAN
          /\ motion_active' \in BOOLEAN /\ guarded' \in BOOLEAN
      BY <2>1, Zenon DEF Inv, VarsOK
    <3>2. /\ motion' \in Motions /\ power' \in {"off", "enabled", "fault"} /\ pc' \in Pcs
          /\ axis' \in -Reach .. Reach /\ origin' = origin /\ target' \in Int
          /\ actual' \in Int /\ result' \in {"none", "ok", "failed"}
      BY <1>4, <1>6, <2>1 DEF Inv, VarsOK, Pcs
    <3> QED BY <1>1, <1>2, <1>6, <3>1, <3>2, BridgeTypes
  <2>3. ControlOK' /\ StopOK'
    BY <1>1, <1>3, <1>6, <2>1 DEF ControlOK, StopOK, StopPcs, GuardedFailureStops,
                                  FailedReferenceReleases
  <2>4. DriveOK' /\ EntryOK' /\ ScanOK' /\ EdgeOK'
    BY <1>6, <2>1 DEF Inv, DriveOK, AtRestAt, MovingAt, EntryOK, ScanOK, EdgeOK
  <2>5. Slack' = Slack /\ Counts' = Counts
    BY <1>1, <2>1 DEF Slack, Counts
  <2>6. /\ motion \in {"zeroing", "rest"}
        /\ motion = "zeroing" => ~attained /\ Distance(2 * axis, intended) <= Slack
        /\ attained => Distance(2 * origin, intended) <= Slack
    BY <1>1 DEF Inv, NearOK
  <2>7. ASSUME attained, ReadsZero(Counts), pc' = "idle", result' = "ok"
        PROVE  NearOK'
    <3>1. motion' = "rest"
      BY <2>1, <2>6, <2>7
    <3>2. Distance(2 * origin', intended') <= Slack'
      <4>1. Distance(2 * origin, intended) <= Slack
        BY <2>6, <2>7, Zenon
      <4>2. 2 * origin' = 2 * origin /\ intended' = intended
        BY <1>1, <2>1
      <4> QED BY <2>5, <4>1, <4>2
    <3>3. Distance(Counts', 0) <= Tolerance
      BY <2>5, <2>7 DEF ReadsZero
    <3> QED BY <2>7, <3>1, <3>2, <3>3 DEF NearOK, ZeroWhereIntended, LeavesAxisAtZero
  <2>8. ASSUME pc' = "zero_wait", result' = result
        PROVE  NearOK'
    <3>1. NearOK!3'
      <4>1. /\ motion' = motion /\ attained' = attained
            /\ 2 * origin' = 2 * origin /\ 2 * axis' = 2 * axis /\ intended' = intended
        BY <1>1, <2>1
      <4> QED BY <2>5, <2>6, <4>1
    <3> QED BY <1>3, <2>8, <3>1 DEF NearOK, ZeroWhereIntended, LeavesAxisAtZero
  <2> QED BY <1>6, <2>2, <2>3, <2>4, <2>7, <2>8 DEF Inv
<1>7. \/ /\ Raises /\ (Delivered \/ Lost) /\ (VoltageDisabled \/ UNCHANGED driveVars)
         /\ actual' \in {actual, Counts}
      \/ /\ Delivered /\ UNCHANGED <<driveVars, guarded, motion_active>>
         /\ actual' \in {actual, Counts}
         /\ \/ attained /\ ReadsZero(Counts) /\ pc' = "idle" /\ result' = "ok"
            \/ pc' = "zero_wait" /\ result' = result
  BY DEF ZeroPolls, DisablesAndRaises, Continues, Returns
<1> QED BY <1>5, <1>6, <1>7

-----------------------------------------------------------------------------
(* The bridge: relative moves.                                             *)

LEMMA EnablesInv ==
  ASSUME Inv, Enables
  PROVE  Inv'
<1>1. /\ At("enable") /\ pc = "enable" /\ moved' = FALSE /\ UNCHANGED <<direction, op>>
      /\ "enable" \in Pcs \ (StopPcs \cup {"idle"})
      /\ UNCHANGED <<localVars, intended>>
      /\ op # "home"
  BY DEF Enables, At, Pcs, StopPcs, Inv, ControlOK
<1>2. CASE PowerUpFails("rest")
  BY <1>1, <1>2, FailPowerUpInv
<1>3. CASE /\ power' = "enabled" /\ motion' = "rest"
           /\ UNCHANGED <<axis, origin, target, reached, attained, error, motion_active>>
           /\ Continues("rel_start") /\ Delivered
  <2>1. pc' = "rel_start" /\ UNCHANGED <<result, guarded, losses, stop_losses>>
    BY <1>3 DEF Continues, Delivered
  <2>2. VarsOK'
    <3>1. /\ reached' \in BOOLEAN /\ attained' \in BOOLEAN /\ error' \in BOOLEAN
          /\ motion_active' \in BOOLEAN
      BY <1>3, Zenon DEF Inv, VarsOK
    <3>2. /\ motion' \in Motions /\ power' \in {"off", "enabled", "fault"} /\ pc' \in Pcs
          /\ axis' \in -Reach .. Reach /\ origin' = origin /\ target' \in Int
      BY <1>3, <2>1 DEF Inv, VarsOK, Pcs, Motions
    <3>3. UNCHANGED <<localVars, intended, result, guarded>>
      BY <1>1, <2>1
    <3> QED BY <1>1, <1>3, <3>1, <3>2, <3>3, BridgeTypesKept
  <2>3. stop_losses = 0 /\ ~guarded /\ result = "none" /\ ~motion_active
    BY <1>1 DEF Inv, StopOK, ControlOK, StopPcs
  <2>4. ControlOK' /\ StopOK'
    BY <1>1, <1>3, <2>1, <2>3 DEF ControlOK, StopOK, StopPcs, GuardedFailureStops,
                                  FailedReferenceReleases
  <2>5. DriveOK'
    BY <1>1, <1>3, <2>1 DEF Inv, DriveOK, AtRestAt, MovingAt
  <2>6. EntryOK' /\ ScanOK' /\ EdgeOK' /\ NearOK'
    BY <1>1, <2>1, <2>3 DEF EntryOK, ScanOK, EdgeOK, NearOK, ZeroWhereIntended,
                            LeavesAxisAtZero
  <2> QED BY <2>2, <2>4, <2>5, <2>6 DEF Inv
<1> QED BY <1>2, <1>3 DEF Enables

LEMMA RelativeStartsInv ==
  ASSUME Inv, RelativeStarts
  PROVE  Inv'
<1>1. /\ At("rel_start") /\ pc = "rel_start" /\ moved' = FALSE /\ UNCHANGED <<direction, op>>
      /\ "rel_start" \in Pcs \ (StopPcs \cup {"idle"})
      /\ UNCHANGED <<seen, status, actual, second, following>>
      /\ source' = Counts /\ intended' = 2 * (axis + Delta)
      /\ op # "home" /\ motion = "rest"
  BY DEF RelativeStarts, At, Pcs, StopPcs, Inv, ControlOK, DriveOK, AtRestAt
<1>2. /\ axis \in Int /\ origin \in Int /\ Counts = axis - origin /\ Delta \in Int
      /\ Distance(axis + Delta, 0) <= Reach
  BY <1>1, Constants DEF Counts, Inv, VarsOK, DriveOK
<1>3. /\ source' \in Int /\ intended' \in Int /\ Counts + Delta \in Int
      /\ Counts + Delta + origin = axis + Delta
      /\ intended' = 2 * (source' + Delta + origin)
  BY <1>1, <1>2
<1>4. Distance(Counts + Delta + origin, 0) <= Reach
  BY <1>2, <1>3, Zenon
<1>5. /\ actual' \in Int /\ second' \in Int
      /\ seen' \in BOOLEAN /\ following' \in BOOLEAN /\ status' \in Statuses
  BY <1>1, Zenon DEF Inv, VarsOK
<1>6. CASE MoveStartFails(Counts + Delta)
  BY <1>1, <1>3, <1>4, <1>5, <1>6, FailMoveInv
<1>7. CASE /\ MoveStarts(Counts + Delta) /\ Delivered
           /\ Continues("rel_wait") /\ UNCHANGED motion_active
  <2>1. /\ pc' = "rel_wait"
        /\ UNCHANGED <<result, guarded, losses, stop_losses, axis, origin, power, reached,
                       attained, error, motion_active>>
        /\ \/ motion' = "pending" /\ target' = Counts + Delta
           \/ motion' = "rest" /\ target' = target
    BY <1>1, <1>7 DEF Continues, Delivered, MoveStarts, bitVars
  <2>2. VarsOK'
    <3>1. /\ reached' \in BOOLEAN /\ attained' \in BOOLEAN /\ error' \in BOOLEAN
          /\ motion_active' \in BOOLEAN /\ guarded' \in BOOLEAN
      BY <2>1, Zenon DEF Inv, VarsOK
    <3>2. /\ motion' \in Motions /\ power' \in {"off", "enabled", "fault"} /\ pc' \in Pcs
          /\ axis' \in -Reach .. Reach /\ origin' = origin /\ target' \in Int
          /\ result' \in {"none", "ok", "failed"}
      BY <1>3, <2>1 DEF Inv, VarsOK, Pcs, Motions
    <3> QED BY <1>1, <1>3, <1>5, <1>7, <3>1, <3>2, BridgeTypes
  <2>3. stop_losses = 0 /\ ~guarded /\ result = "none" /\ ~motion_active
    BY <1>1 DEF Inv, StopOK, ControlOK, StopPcs
  <2>4. ControlOK' /\ StopOK'
    BY <1>1, <2>1, <2>3 DEF ControlOK, StopOK, StopPcs, GuardedFailureStops,
                            FailedReferenceReleases
  <2>5. DriveOK'
    <3>1. motion' # "rest" => target' = Counts + Delta /\ target' + origin' = Counts + Delta + origin
      BY <2>1
    <3>2. ZeroGoal' = Counts + Delta
      BY <1>1 DEF ZeroGoal
    <3>3. motion' # "rest" => Distance(target' + origin', 0) <= Reach /\ target' = ZeroGoal'
      BY <1>4, <3>1, <3>2, Zenon
    <3> QED BY <2>1, <3>3 DEF DriveOK, AtRestAt, MovingAt
  <2>6. EntryOK' /\ ScanOK' /\ EdgeOK'
    BY <1>1, <2>1 DEF EntryOK, ScanOK, EdgeOK
  <2>7. NearOK'
    <3>1. intended' = 2 * (source' + Delta + origin')
      BY <1>3, <2>1
    <3> QED BY <2>1, <2>3, <3>1 DEF NearOK, ZeroWhereIntended, LeavesAxisAtZero
  <2> QED BY <2>2, <2>4, <2>5, <2>6, <2>7 DEF Inv
<1> QED BY <1>6, <1>7 DEF RelativeStarts

LEMMA RelativePollsInv ==
  ASSUME Inv, RelativePolls
  PROVE  Inv'
<1>1. /\ At("rel_wait") /\ pc = "rel_wait" /\ moved' = FALSE /\ UNCHANGED <<direction, op>>
      /\ "rel_wait" \in Pcs \ (StopPcs \cup {"idle"})
      /\ UNCHANGED <<driveVars, seen, status, second, source, intended>>
      /\ UNCHANGED <<axis, origin, target, motion, power, reached, attained, error>>
      /\ op \in {"spur", "adjust"} /\ actual' = Counts
  BY DEF RelativePolls, At, Pcs, StopPcs, driveVars, motionVars, bitVars, Inv, VarsOK, ControlOK
<1>2. /\ second' \in Int /\ source' \in Int /\ intended' \in Int
      /\ seen' \in BOOLEAN /\ status' \in Statuses
      /\ reached' \in BOOLEAN /\ attained' \in BOOLEAN /\ error' \in BOOLEAN
  BY <1>1, Zenon DEF Inv, VarsOK
<1>3. actual' \in Int
  BY <1>1, Constants DEF Counts, Inv, VarsOK
<1>4. stop_losses = 0 /\ ~guarded /\ result = "none" /\ ~motion_active
  BY <1>1 DEF Inv, StopOK, ControlOK, StopPcs
<1>5. CASE Raises /\ (Delivered \/ Lost) /\ UNCHANGED following
  <2>1. following' \in BOOLEAN
    BY <1>5, Zenon DEF Inv, VarsOK
  <2> QED BY <1>1, <1>2, <1>3, <1>5, <2>1, FailUnchangedInv
<1>6. CASE /\ Delivered /\ UNCHANGED <<motion_active, guarded>> /\ following' \in BOOLEAN
           /\ \/ op = "spur" /\ Arrived(Counts) /\ pc' = "zero" /\ result' = result
              \/ op = "adjust" /\ pc' = "idle" /\ result' = "ok"
              \/ pc' = "rel_wait" /\ result' = result
  <2>1. motion_active' \in BOOLEAN /\ guarded' \in BOOLEAN
    BY <1>6, Zenon DEF Inv, VarsOK
  <2>2. VarsOK'
    <3>1. /\ motion' \in Motions /\ power' \in {"off", "enabled", "fault"} /\ pc' \in Pcs
          /\ axis' \in -Reach .. Reach /\ origin' = origin /\ target' \in Int
          /\ result' \in {"none", "ok", "failed"}
      BY <1>1, <1>6 DEF Inv, VarsOK, Pcs
    <3> QED BY <1>1, <1>2, <1>3, <1>6, <2>1, <3>1, BridgeTypes
  <2>3. stop_losses' = 0 /\ ~guarded' /\ ~motion_active'
    BY <1>4, <1>6 DEF Delivered
  <2>4. ControlOK' /\ StopOK'
    BY <1>1, <1>4, <1>6, <2>3 DEF ControlOK, StopOK, StopPcs, GuardedFailureStops,
                                  FailedReferenceReleases
  <2>5. ZeroGoal = source + Delta /\ ZeroGoal' = ZeroGoal /\ Counts' = Counts
    BY <1>1 DEF ZeroGoal, Counts
  <2>6. DriveOK'
    BY <1>1, <1>6, <2>5 DEF Inv, DriveOK, AtRestAt, MovingAt
  <2>7. EntryOK' /\ ScanOK' /\ EdgeOK'
    BY <1>1, <1>6 DEF EntryOK, ScanOK, EdgeOK
  <2>8. NearOK'
    <3>1. pc' = "zero" => Distance(Counts', ZeroGoal') <= Tolerance
      BY <1>6, <2>5 DEF Arrived
    <3>2. op' = "spur" => intended' = 2 * (source' + Delta + origin')
      <4>1. op = "spur" => intended = 2 * (source + Delta + origin)
        BY <1>1 DEF Inv, NearOK
      <4> QED BY <1>1, <4>1
    <3> QED BY <1>1, <1>4, <1>6, <3>1, <3>2 DEF NearOK, ZeroWhereIntended, LeavesAxisAtZero
  <2> QED BY <2>2, <2>4, <2>6, <2>7, <2>8 DEF Inv
<1>7. \/ Raises /\ (Delivered \/ Lost) /\ UNCHANGED following
      \/ /\ Delivered /\ UNCHANGED <<motion_active, guarded>> /\ following' \in BOOLEAN
         /\ \/ op = "spur" /\ Arrived(Counts) /\ pc' = "zero" /\ result' = result
            \/ op = "adjust" /\ pc' = "idle" /\ result' = "ok"
            \/ pc' = "rel_wait" /\ result' = result
  <2>1. CASE /\ power # "fault" /\ ~error /\ following' = FALSE
             /\ IF Arrived(actual')
                THEN IF op = "spur" THEN Continues("zero")
                     ELSE Returns("ok") /\ UNCHANGED guarded
                ELSE Continues("rel_wait")
             /\ Delivered /\ UNCHANGED motion_active
    BY <1>1, <2>1 DEF Continues, Returns
  <2>2. CASE /\ following' = TRUE
             /\ Continues("rel_wait") /\ Delivered /\ UNCHANGED motion_active
    BY <2>2 DEF Continues
  <2>3. CASE UNCHANGED following /\ Raises /\ (Delivered \/ Lost)
    BY <2>3, Zenon
  <2> QED BY <2>1, <2>2, <2>3, Zenon DEF RelativePolls
<1> QED BY <1>5, <1>6, <1>7

-----------------------------------------------------------------------------
(* Theorems.                                                               *)

LEMMA StepInv ==
  ASSUME Inv, [Next]_vars
  PROVE  Inv'
<1>1. CASE UNCHANGED vars
  BY <1>1 DEF vars, driveVars, motionVars, bitVars, localVars, historyVars, Inv, VarsOK,
              ControlOK, StopOK, GuardedFailureStops, FailedReferenceReleases, DriveOK,
              ZeroGoal, Midpoint, EntryOK, Depth, MovedBy, ScanOK, EdgeOK, NearOK, Slack,
              Counts, ZeroWhereIntended, LeavesAxisAtZero
<1>2. CASE Drive
  BY <1>2, FindsEdgeInv, AcknowledgesInv, MovesInv, HaltsInv, ZeroesInv, FaultsInv DEF Drive
<1>3. CASE HomeDrive \/ ReferenceSpurGear \/ AdjustHomedDrive
  BY <1>3, BeginInv DEF HomeDrive, ReferenceSpurGear, AdjustHomedDrive
<1>4. CASE Halt
  BY <1>4, HaltStartsInv, StopHaltStartsInv, HaltPollsInv, StopHaltPollsInv DEF Halt
<1>5. CASE StopsByVoltage \/ ReleasesSpurGear
  BY <1>5, DisableInv
<1> QED BY <1>1, <1>2, <1>3, <1>4, <1>5, NativeStartsInv, NativePollsInv, TraverseStartsInv,
           TraversePollsInv, TraverseReadsInputInv, ComputeMidpointInv, MidpointStartsInv,
           MidpointPollsInv, ZeroStartsInv, ZeroPollsInv, EnablesInv, RelativeStartsInv,
           RelativePollsInv DEF Next, Bridge

\* Whatever the drive does between two transfers, and whichever transfers are lost, a
\* procedure and its except clauses keep to the invariant
\* (home_to_reference_interval_midpoint, move_relative_counts_and_wait).
THEOREM HomingInvariant == Spec => []Inv
<1> QED BY InitInv, StepInv, PTL DEF Spec

\* The types, and that no Homing commands a motion further from the entry edge than it
\* may search (homing_interval_max_travel_counts).
THEOREM TypeCorrect == Spec => []TypeOK
<1>1. ASSUME Inv PROVE TypeOK
  <2>1. /\ {target, actual, second, source, intended} \subseteq Int
        /\ {reached, attained, error, moved, seen, following, motion_active, guarded}
             \subseteq BOOLEAN
    <3>1. {target, actual, second, source, intended} \subseteq Int
      BY <1>1 DEF Inv, VarsOK
    <3>2. {reached, attained, error, moved, seen, following, motion_active, guarded}
            \subseteq BOOLEAN
      BY <1>1, Zenon DEF Inv, VarsOK
    <3> QED BY <3>1, <3>2
  <2>2. pc \in {"scan", "scan_input", "mid_wait"} /\ motion # "rest"
          => Distance(target, 0) <= MaxTravel
    <3>1. CASE pc \in {"scan", "scan_input"} /\ motion # "rest"
      <4>1. target = direction * MaxTravel /\ direction \in {1, -1}
        BY <1>1, <3>1 DEF Inv, VarsOK, DriveOK
      <4>2. target = MaxTravel \/ target = -MaxTravel
        BY <4>1, Constants
      <4> QED BY <4>2, Constants DEF Distance
    <3>2. CASE pc = "mid_wait" /\ motion # "rest"
      <4>1. target = Midpoint /\ Depth(second) \in 1 .. MaxTravel /\ VarsOK
        BY <1>1, <3>2 DEF Inv, DriveOK, EdgeOK, ControlOK, ZeroGoal
      <4> QED BY <4>1, MidpointFacts
    <3> QED BY <3>1, <3>2
  <2> QED BY <1>1, <2>1, <2>2, Zenon DEF Inv, VarsOK, TypeOK
<1> QED BY <1>1, HomingInvariant, PTL

\* A procedure that succeeds has made the intended position zero: for every interval, step,
\* tolerance and sag, the new zero is within Slack of the middle of the true interval or of
\* the spur gear's source plus its increment.
THEOREM ZeroIsWhereIntended == Spec => []ZeroWhereIntended
<1>1. Inv => ZeroWhereIntended
  BY DEF Inv, NearOK
<1> QED BY <1>1, HomingInvariant, PTL

\* A procedure that succeeds leaves an axis at rest that reads zero within the tolerance:
\* the fact mark_drive_homed records.
THEOREM SuccessLeavesAxisAtZero == Spec => []LeavesAxisAtZero
<1>1. Inv => LeavesAxisAtZero
  BY DEF Inv, NearOK
<1> QED BY <1>1, HomingInvariant, PTL

\* An exception raised while motion_active leaves the procedure with the drive at rest,
\* even if one transfer of the halt is lost.
THEOREM FailureStops == Spec => []GuardedFailureStops
<1>1. Inv => GuardedFailureStops
  BY DEF Inv, StopOK
<1> QED BY <1>1, HomingInvariant, PTL

\* A failed reference of the spur gear leaves it without voltage unless the disable was
\* lost.
THEOREM FailureReleases == Spec => []FailedReferenceReleases
<1>1. Inv => FailedReferenceReleases
  BY DEF Inv, StopOK
<1> QED BY <1>1, HomingInvariant, PTL

=============================================================================
