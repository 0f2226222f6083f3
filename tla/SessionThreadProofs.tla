------------------------ MODULE SessionThreadProofs --------------------------
(***************************************************************************)
(* Theorems about BridgeSession that rest on its type and handoff          *)
(* invariants: what Homing leaves behind, what a session may still do to   *)
(* the drives, and whose session csp_active stands for.                    *)
(***************************************************************************)
EXTENDS BridgeSessionProofs

-----------------------------------------------------------------------------
(* Coordinates.                                                            *)

\* The steps that count an axis as homed or not, or touch its coordinate.
LEMMA ZeroSteps ==
  ASSUME [Next]_vars
  PROVE  \/ UNCHANGED <<homed, zero>>
         \/ \E id \in Ids : HomeDrive(id)
         \/ \E d \in Drives : RezeroDrive(d)
         \/ ReferenceSpurGear
<1> DEFINE Same == UNCHANGED <<homed, zero>>
<1> USE DEF sessionVars, driveVars
<1>1. ASSUME Requests PROVE Same
  BY <1>1 DEF Requests, EnableAll, DisableAll, GotoHome, MoveDrives, AdjustHomeCounts,
     HomeOne, HomeAll, HomeTcp, HomeMissingDrive, SetCurrentArmHome, EnterGate,
     SetCspTargets, ExitCsp, Begin
<1>2. ASSUME NEW d \in Drives,
             \/ EnableDrive(d) \/ DisableDrive(d) \/ GotoHomeDrive(d)
             \/ EnterEnableDrive(d) \/ EnterSelectDrive(d)
      PROVE  Same
  BY <1>2 DEF EnableDrive, DisableDrive, GotoHomeDrive, EnterEnableDrive, EnterSelectDrive
<1>3. ASSUME \/ EnterRaises \/ EnterConfigure \/ EnterPrepare \/ EnterMapPdos \/ EnterArm
             \/ EnterActivateRaises \/ ExitJoined \/ ExitFinish
             \/ \E t \in Threads : EnterActivate(t)
      PROVE  Same
  BY <1>3 DEF EnterRaises, EnterConfigure, EnterPrepare, EnterMapPdos, EnterArm,
     EnterActivateRaises, ExitJoined, ExitFinish, EnterActivate
<1>4. ASSUME NEW t \in Threads, LoopSteps(t) PROVE Same
  BY <1>4 DEF LoopSteps, LoopCycle, LoopRaises, LoopHandles, LoopStops, LoopFinally
<1>5. ASSUME DriveSteps PROVE Same
  BY <1>5 DEF DriveSteps, DriveArrives, DriveDrops, DriveSags, BusFallsBack
<1>6. ASSUME UNCHANGED vars PROVE Same
  BY <1>6 DEF vars
<1>7. QED
  BY <1>1, <1>2, <1>3, <1>4, <1>5, <1>6 DEF Next, HandlerSteps

\* The steps that change the drives a handler has still to visit.
LEMMA VisitSteps ==
  ASSUME [Next]_vars
  PROVE  \/ UNCHANGED <<pc, todo>>
         \/ HomeTcp
         \/ pc # "home_tcp" /\ todo' \subseteq todo \cup Drives
         \/ \E id \in todo : todo' \subseteq todo \ {id}
<1> DEFINE Visits == \/ UNCHANGED <<pc, todo>>
                     \/ HomeTcp
                     \/ pc # "home_tcp" /\ todo' \subseteq todo \cup Drives
                     \/ \E id \in todo : todo' \subseteq todo \ {id}
<1>1. ASSUME Requests PROVE Visits
  BY <1>1, DriveSets DEF Requests, EnableAll, DisableAll, GotoHome, MoveDrives,
     AdjustHomeCounts, HomeOne, HomeAll, HomeMissingDrive, SetCurrentArmHome, EnterGate,
     SetCspTargets, ExitCsp, Begin
<1>2. ASSUME NEW d \in Drives,
             \/ EnableDrive(d) \/ DisableDrive(d) \/ GotoHomeDrive(d) \/ RezeroDrive(d)
             \/ EnterEnableDrive(d) \/ EnterSelectDrive(d)
      PROVE  Visits
  BY <1>2 DEF EnableDrive, DisableDrive, GotoHomeDrive, RezeroDrive, EnterEnableDrive,
     EnterSelectDrive, IsNext, Advance, LeaveEnter, Abandon
<1>3. ASSUME NEW id \in Ids, HomeDrive(id) PROVE Visits
  BY <1>3 DEF HomeDrive, IsNext, Abandon
<1>4. ASSUME \/ ReferenceSpurGear
             \/ EnterRaises \/ EnterConfigure \/ EnterPrepare \/ EnterMapPdos \/ EnterArm
             \/ EnterActivateRaises \/ ExitJoined \/ ExitFinish
             \/ \E t \in Threads : EnterActivate(t)
      PROVE  Visits
  BY <1>4, DriveSets DEF ReferenceSpurGear, EnterRaises, EnterConfigure, EnterPrepare,
     EnterMapPdos, EnterArm, EnterActivateRaises, ExitJoined, ExitFinish, EnterActivate,
     EnterPcs, LeaveEnter, Abandon
<1>5. ASSUME NEW t \in Threads, LoopSteps(t) PROVE Visits
  BY <1>5 DEF LoopSteps, LoopCycle, LoopRaises, LoopHandles, LoopStops, LoopFinally
<1>6. ASSUME DriveSteps PROVE Visits
  BY <1>6 DEF DriveSteps, DriveArrives, DriveDrops, DriveSags, BusFallsBack
<1>7. ASSUME UNCHANGED vars PROVE Visits
  BY <1>7 DEF vars
<1>8. QED
  BY <1>1, <1>2, <1>3, <1>4, <1>5, <1>6, <1>7 DEF Next, HandlerSteps

\* An index below zero is visited by TCP HOME only, and alone.
AliasAlone == \A id \in todo : id < 0 => pc = "home_tcp" /\ todo = {id}

LEMMA AliasStep == AliasAlone /\ [Next]_vars => AliasAlone'
<1> SUFFICES ASSUME AliasAlone, [Next]_vars PROVE AliasAlone'
  OBVIOUS
<1>1. \A d \in Drives : ~(d < 0)
  BY SessionAssumption DEF Drives
<1>2. CASE UNCHANGED <<pc, todo>>
  BY <1>2 DEF AliasAlone
<1>3. CASE HomeTcp
  BY <1>3 DEF AliasAlone, HomeTcp, Begin
<1>4. CASE pc # "home_tcp" /\ todo' \subseteq todo \cup Drives
  BY <1>1, <1>4 DEF AliasAlone
<1>5. ASSUME NEW id \in todo, todo' \subseteq todo \ {id} PROVE AliasAlone'
  BY <1>5 DEF AliasAlone
<1>6. QED
  BY <1>2, <1>3, <1>4, <1>5, VisitSteps

\* What a Homing of the drive that id names does to the axes counted as homed.
LEMMA HomeKeepsZero ==
  ASSUME TypeInv, AliasAlone, NEW id \in Ids, HomeDrive(id),
         NEW d \in homed', zero'[d] # "set"
  PROVE  \/ d \in homed /\ zero'[d] = zero[d]
         \/ pc = "home_tcp" /\ todo = {d - NumDrives}
<1>1. /\ zero \in [Drives -> ZeroStates] /\ homed \in SUBSET Drives
      /\ Axis(id) \in Drives /\ id \in todo
  BY IdSets DEF TypeInv, TypeOK, HomeDrive, IsNext
<1>2. id \in Drives => Axis(id) = id
  BY SessionAssumption DEF Drives, Axis
<1>3. CASE /\ MarkHomed((homed \cup {id}) \cap Drives)
           /\ zero' = [zero EXCEPT ![Axis(id)] = "set"]
  <2>1. d \in Drives /\ (d \in homed \/ d = id)
    BY <1>3 DEF MarkHomed
  <2>2. d # Axis(id)
    BY <1>1, <1>3, <2>1
  <2>3. zero'[d] = zero[d]
    BY <1>1, <1>3, <2>1, <2>2
  <2>4. QED
    BY <1>2, <2>1, <2>2, <2>3
<1>4. CASE /\ MarkHomed(homed \ {id})
           /\ \E z \in {zero[Axis(id)], "unknown"} : zero' = [zero EXCEPT ![Axis(id)] = z]
  <2>1. d \in homed /\ d \in Drives /\ d # id
    BY <1>1, <1>4 DEF MarkHomed
  <2>2. CASE d = Axis(id)
    <3>1. id < 0 /\ id = d - NumDrives
      BY <2>1, <2>2, SessionAssumption DEF Axis, Ids
    <3>2. pc = "home_tcp" /\ todo = {id}
      BY <1>1, <3>1 DEF AliasAlone
    <3>3. QED
      BY <3>1, <3>2
  <2>3. CASE d # Axis(id)
    BY <1>1, <1>4, <2>1, <2>3
  <2>4. QED
    BY <2>2, <2>3
<1>5. QED
  BY <1>3, <1>4 DEF HomeDrive

\* No axis loses the zero that a procedure has given to it and stays counted as homed,
\* except by the HOME that names it by an index counted from the end, and by a
\* set_current_arm_home that raises.
THEOREM HomedAxesKeepZero == Spec => HomedKeepZero
<1>1. Init => AliasAlone
  BY DEF Init, AliasAlone
<1>2. Spec => []TypeInv
  BY TypeInit, TypeStep, PTL DEF Spec
<1>3. TypeInv /\ AliasAlone /\ [Next]_vars =>
        [\A d \in homed' \cap RequiredHoming : zero'[d] # "set" =>
           \/ d \in homed /\ zero'[d] = zero[d]
           \/ pc = "home_tcp" /\ todo = {d - NumDrives}
           \/ pc = "rezero" /\ pc' = "idle"]_vars
  <2> SUFFICES ASSUME TypeInv, AliasAlone, [Next]_vars,
                      NEW d \in homed' \cap RequiredHoming, zero'[d] # "set"
               PROVE  \/ d \in homed /\ zero'[d] = zero[d]
                      \/ pc = "home_tcp" /\ todo = {d - NumDrives}
                      \/ pc = "rezero" /\ pc' = "idle"
    OBVIOUS
  <2>0. /\ zero \in [Drives -> ZeroStates] /\ homed \in SUBSET Drives
        /\ Spur \in Drives /\ RequiredHoming \subseteq Drives
    BY DriveSets DEF TypeInv, TypeOK
  <2>1. CASE UNCHANGED <<homed, zero>>
    BY <2>1
  <2>2. CASE \E id \in Ids : HomeDrive(id)
    BY <2>2, HomeKeepsZero
  <2>3. ASSUME NEW e \in Drives, RezeroDrive(e)
        PROVE  \/ d \in homed /\ zero'[d] = zero[d]
               \/ pc = "rezero" /\ pc' = "idle"
    <3>1. homed' = homed /\ pc = "rezero"
      BY <2>3 DEF RezeroDrive, sessionVars
    <3>2. CASE zero' = [zero EXCEPT ![e] = "set"]
      BY <2>0, <3>1, <3>2
    <3>3. CASE Abandon
      BY <3>1, <3>3 DEF Abandon
    <3>4. QED
      BY <2>3, <3>2, <3>3 DEF RezeroDrive
  <2>4. CASE ReferenceSpurGear
    <3>1. d \in homed /\ (SkipSpurHoming => d # Spur)
      BY <2>0, <2>4, SessionAssumption
         DEF ReferenceSpurGear, RequiredHoming, ArmDrives, Spur, Drives
    <3>2. QED
      BY <2>0, <2>4, <3>1 DEF ReferenceSpurGear, driveVars
  <2>5. QED
    BY <2>1, <2>2, <2>3, <2>4, ZeroSteps
<1>4. QED
  BY <1>1, <1>2, <1>3, AliasStep, PTL DEF Spec, HomedKeepZero

-----------------------------------------------------------------------------
(* What a prepared session may do to the drives.                           *)

\* In a session that is prepared or active no handler is at work on the drives' profile
\* or coordinates.
LEMMA NoSdoWork ==
  ASSUME HandoffInv, deferred_csp_prepared
  PROVE  /\ pc \notin SdoPcs
         /\ ~EnsureNonCspOperation
BY DEF HandoffInv, SdoBeforePrepared, EnsureNonCspOperation

LEMMA ProfileStep ==
  ASSUME HandoffInv, [Next]_vars, deferred_csp_prepared
  PROVE  zero' = zero /\ \A e \in Drives : goal'[e] \in {goal[e], NoGoal}
<1> DEFINE Same == zero' = zero /\ \A e \in Drives : goal'[e] \in {goal[e], NoGoal}
<1> USE DEF driveVars
<1>0. goal \in [Drives -> Counts \cup {NoGoal}] /\ pc \notin SdoPcs /\ ~EnsureNonCspOperation
  BY NoSdoWork DEF HandoffInv, TypeInv, TypeOK
<1>1. ASSUME Requests PROVE Same
  BY <1>0, <1>1 DEF Requests, EnableAll, DisableAll, GotoHome, MoveDrives, AdjustHomeCounts,
     HomeOne, HomeAll, HomeTcp, HomeMissingDrive, SetCurrentArmHome, EnterGate,
     SetCspTargets, ExitCsp, Begin
<1>2. ASSUME NEW d \in Drives,
             EnableDrive(d) \/ GotoHomeDrive(d) \/ RezeroDrive(d)
      PROVE  FALSE
  BY <1>0, <1>2 DEF EnableDrive, GotoHomeDrive, RezeroDrive, SdoPcs
<1>3. ASSUME NEW d \in Drives, DisableDrive(d) PROVE Same
  BY <1>0, <1>3 DEF DisableDrive, LeaveDrive
<1>4. ASSUME NEW d \in Drives, EnterEnableDrive(d) PROVE Same
  BY <1>0, <1>4 DEF EnterEnableDrive, LeaveDrive, SequenceFails
<1>5. ASSUME NEW d \in Drives, EnterSelectDrive(d) PROVE Same
  BY <1>0, <1>5 DEF EnterSelectDrive, LeaveDrive
<1>6. ASSUME \/ ReferenceSpurGear \/ \E id \in Ids : HomeDrive(id)
             \/ EnterRaises \/ EnterConfigure \/ EnterPrepare \/ EnterMapPdos \/ EnterArm
             \/ ExitJoined
      PROVE  Same
  BY <1>0, <1>6 DEF HomeDrive, ReferenceSpurGear, EnterRaises, EnterConfigure, EnterPrepare,
     EnterMapPdos, EnterArm, ExitJoined, SdoPcs
<1>7. ASSUME EnterActivateRaises \/ \E t \in Threads : EnterActivate(t) PROVE Same
  BY <1>0, <1>7 DEF EnterActivate, EnterActivateRaises
<1>8. ASSUME ExitFinish PROVE Same
  BY <1>0, <1>8 DEF ExitFinish, SafeOp
<1>9. ASSUME NEW t \in Threads, LoopSteps(t) PROVE Same
  BY <1>0, <1>9 DEF LoopSteps, LoopCycle, LoopRaises, LoopHandles, LoopStops, LoopFinally,
     SafeOp
<1>10. ASSUME DriveSteps PROVE Same
  BY <1>0, <1>10 DEF DriveSteps, DriveArrives, DriveDrops, DriveSags, BusFallsBack, LeaveDrive
<1>11. CASE UNCHANGED vars
  BY <1>0, <1>11 DEF vars
<1>12. QED
  BY <1>1, <1>2, <1>3, <1>4, <1>5, <1>6, <1>7, <1>8, <1>9, <1>10, <1>11
     DEF Next, HandlerSteps

\* Once preparation has completed no Profile motion starts and no coordinate is redefined.
THEOREM PreparedMeansNoProfileMotion == Spec => NoProfileMotionOncePrepared
<1>1. HandoffInv /\ [Next]_vars =>
        [deferred_csp_prepared
           => zero' = zero /\ \A d \in Drives : goal'[d] \in {goal[d], NoGoal}]_vars
  BY ProfileStep
<1>2. QED
  BY <1>1, HandoffInvariant, PTL DEF Spec, NoProfileMotionOncePrepared

\* The steps that change the target image.
LEMMA TargetSteps ==
  ASSUME [Next]_vars
  PROVE  UNCHANGED target_counts \/ SetCspTargets \/ EnterArm \/ ExitFinish
<1> USE DEF busVars
<1>1. ASSUME Requests PROVE UNCHANGED target_counts \/ SetCspTargets
  BY <1>1 DEF Requests, EnableAll, DisableAll, GotoHome, MoveDrives, AdjustHomeCounts,
     HomeOne, HomeAll, HomeTcp, HomeMissingDrive, SetCurrentArmHome, EnterGate, ExitCsp, Begin
<1>2. ASSUME NEW d \in Drives,
             \/ EnableDrive(d) \/ DisableDrive(d) \/ GotoHomeDrive(d)
             \/ RezeroDrive(d)
             \/ EnterEnableDrive(d) \/ EnterSelectDrive(d)
      PROVE  UNCHANGED target_counts
  BY <1>2 DEF EnableDrive, DisableDrive, GotoHomeDrive, RezeroDrive, EnterEnableDrive,
     EnterSelectDrive
<1>3. ASSUME \/ ReferenceSpurGear \/ \E id \in Ids : HomeDrive(id)
             \/ EnterRaises \/ EnterConfigure \/ EnterPrepare \/ EnterMapPdos
             \/ EnterActivateRaises \/ ExitJoined
             \/ \E t \in Threads : EnterActivate(t)
      PROVE  UNCHANGED target_counts
  BY <1>3 DEF HomeDrive, ReferenceSpurGear, EnterRaises, EnterConfigure, EnterPrepare,
     EnterMapPdos, EnterActivateRaises, ExitJoined, EnterActivate
<1>4. ASSUME NEW t \in Threads, LoopSteps(t) PROVE UNCHANGED target_counts
  BY <1>4 DEF LoopSteps, LoopCycle, LoopRaises, LoopHandles, LoopStops, LoopFinally
<1>5. ASSUME DriveSteps PROVE UNCHANGED target_counts
  BY <1>5 DEF DriveSteps, DriveArrives, DriveDrops, DriveSags, BusFallsBack
<1>6. ASSUME UNCHANGED vars PROVE UNCHANGED target_counts
  BY <1>6 DEF vars
<1>7. QED
  BY <1>1, <1>2, <1>3, <1>4, <1>5, <1>6 DEF Next, HandlerSteps

\* Once a session has recorded an error no step changes its targets, up to exit_csp.
THEOREM FailedSessionKeepsTargets == Spec => NoTargetsAfterError
<1>1. HandoffInv /\ [Next]_vars =>
        [csp_active /\ pdo_error /\ pdo_error' => target_counts' = target_counts]_vars
  <2> SUFFICES ASSUME HandoffInv, [Next]_vars, csp_active, pdo_error, pdo_error'
               PROVE  target_counts' = target_counts
    OBVIOUS
  <2>1. ~SetCspTargets
    BY DEF SetCspTargets, AcceptsTargets
  <2>2. ~EnterArm
    BY DEF EnterArm, HandoffInv, EnterKeepsHold, EnterPcs
  <2>3. ~ExitFinish
    BY DEF ExitFinish, ResetsSession
  <2>4. QED
    BY <2>1, <2>2, <2>3, TargetSteps
<1>2. QED
  BY <1>1, HandoffInvariant, PTL DEF Spec, NoTargetsAfterError

-----------------------------------------------------------------------------
(* The spur gear that a session ignores.                                   *)

LEMMA IgnoredStep ==
  HandoffInv /\ IgnoredDriveUnpowered /\ [Next]_vars => IgnoredDriveUnpowered'
<1> SUFFICES ASSUME HandoffInv, IgnoredDriveUnpowered, [Next]_vars, csp_active',
                    NEW e \in IgnoredCsp
             PROVE  power'[e] # "enabled"
  BY DEF IgnoredDriveUnpowered
<1> USE DEF driveVars, busVars
<1>0. /\ power \in [Drives -> PowerStates] /\ e \in Drives
      /\ csp_active => pc \notin SdoPcs /\ pc \notin EnterPcs /\ power[e] # "enabled"
  BY DriveSets DEF HandoffInv, TypeInv, TypeOK, SdoBeforePrepared, EnterKeepsHold,
     IgnoredDriveUnpowered
<1>1. CASE \E t \in Threads : EnterActivate(t)
  BY <1>0, <1>1 DEF EnterActivate, IgnoredReleased, Released
<1>2. CASE csp_active
  <2>1. power[e] # "enabled" /\ pc \notin SdoPcs /\ pc \notin EnterPcs
    BY <1>0, <1>2
  <2>2. ASSUME Requests PROVE power'[e] # "enabled"
    BY <1>2, <2>1, <2>2 DEF Requests, EnableAll, DisableAll, GotoHome, MoveDrives,
       AdjustHomeCounts, HomeOne, HomeAll, HomeTcp, HomeMissingDrive, SetCurrentArmHome,
       EnterGate, SetCspTargets, ExitCsp, Begin, EnsureNonCspOperation
  <2>3. ASSUME NEW d \in Drives,
               \/ EnableDrive(d) \/ GotoHomeDrive(d) \/ RezeroDrive(d)
               \/ EnterEnableDrive(d) \/ EnterSelectDrive(d)
        PROVE  FALSE
    BY <2>1, <2>3 DEF EnableDrive, GotoHomeDrive, RezeroDrive, EnterEnableDrive,
       EnterSelectDrive, SdoPcs, EnterPcs
  <2>4. ASSUME NEW d \in Drives, DisableDrive(d) PROVE power'[e] # "enabled"
    BY <1>0, <2>1, <2>4 DEF DisableDrive, LeaveDrive, Released
  <2>5. ASSUME \/ ReferenceSpurGear \/ \E id \in Ids : HomeDrive(id)
               \/ EnterRaises \/ EnterConfigure \/ EnterPrepare \/ EnterMapPdos \/ EnterArm
               \/ EnterActivateRaises
        PROVE  FALSE
    BY <2>1, <2>5 DEF HomeDrive, ReferenceSpurGear, EnterRaises, EnterConfigure, EnterPrepare,
       EnterMapPdos, EnterArm, EnterActivateRaises, SdoPcs, EnterPcs
  <2>6. ASSUME ExitJoined \/ ExitFinish PROVE power'[e] # "enabled"
    BY <2>1, <2>6 DEF ExitJoined, ExitFinish, ResetsSession
  <2>7. ASSUME NEW t \in Threads, LoopSteps(t) PROVE power'[e] # "enabled"
    BY <1>0, <2>1, <2>7 DEF LoopSteps, LoopCycle, LoopRaises, LoopHandles, LoopStops,
       LoopFinally, SafeOp, IgnoredReleased, Released
  <2>8. ASSUME DriveSteps PROVE power'[e] # "enabled"
    BY <1>0, <2>1, <2>8 DEF DriveSteps, DriveArrives, DriveDrops, DriveSags, BusFallsBack,
       LeaveDrive
  <2>9. ASSUME UNCHANGED vars PROVE power'[e] # "enabled"
    BY <2>1, <2>9 DEF vars
  <2>10. QED
    BY <1>1, <2>2, <2>3, <2>4, <2>5, <2>6, <2>7, <2>8, <2>9 DEF Next, HandlerSteps
<1>3. QED
  BY <1>1, <1>2, PhaseSteps

\* A spur gear that the session ignores is never energised while the session is active.
THEOREM IgnoredDriveStaysUnpowered == Spec => []IgnoredDriveUnpowered
<1>1. Init => IgnoredDriveUnpowered
  BY DEF Init, IgnoredDriveUnpowered
<1>2. QED
  BY <1>1, IgnoredStep, HandoffInvariant, PTL DEF Spec

-----------------------------------------------------------------------------
(* Sessions and their threads.                                             *)

\* A PDO thread between the start of its loop and the end of its finally block.
Live(t) == thread[t] \notin {"unborn", "done"}

\* How a step changes the threads, the bus's reference to one, and csp_active.
LEMMA ThreadSteps ==
  ASSUME TypeInv, [Next]_vars
  PROVE  \/ UNCHANGED <<csp_active, threadVars>>
         \/ ExitCsp
         \/ \E t \in Threads : EnterActivate(t)
         \/ ExitJoined
         \/ ExitFinish
         \/ \E t \in Threads :
              /\ Live(t)
              /\ UNCHANGED <<pdo_thread, outlived, pc>>
              /\ \/ /\ thread' = [thread EXCEPT ![t] = "done"]
                    /\ csp_active' = FALSE
                 \/ /\ \E s \in {"failed", "handled", "stopping"} :
                         thread' = [thread EXCEPT ![t] = s]
                    /\ UNCHANGED csp_active
<1> DEFINE Same == UNCHANGED <<csp_active, threadVars>>
<1> USE DEF busVars
<1>1. ASSUME Requests PROVE Same \/ ExitCsp
  BY <1>1 DEF Requests, EnableAll, DisableAll, GotoHome, MoveDrives, AdjustHomeCounts,
     HomeOne, HomeAll, HomeTcp, HomeMissingDrive, SetCurrentArmHome, EnterGate,
     SetCspTargets, Begin
<1>2. ASSUME NEW d \in Drives,
             \/ EnableDrive(d) \/ DisableDrive(d) \/ GotoHomeDrive(d)
             \/ RezeroDrive(d)
             \/ EnterEnableDrive(d) \/ EnterSelectDrive(d)
      PROVE  Same
  BY <1>2 DEF EnableDrive, DisableDrive, GotoHomeDrive, RezeroDrive, EnterEnableDrive,
     EnterSelectDrive
<1>3. ASSUME \/ ReferenceSpurGear \/ \E id \in Ids : HomeDrive(id)
             \/ EnterRaises \/ EnterConfigure \/ EnterPrepare \/ EnterMapPdos \/ EnterArm
             \/ EnterActivateRaises
      PROVE  Same
  BY <1>3 DEF HomeDrive, ReferenceSpurGear, EnterRaises, EnterConfigure, EnterPrepare,
     EnterMapPdos, EnterArm, EnterActivateRaises
<1>4. ASSUME NEW t \in Threads, LoopCycle(t) PROVE Same
  BY <1>4 DEF LoopCycle
<1>5. ASSUME NEW t \in Threads, LoopRaises(t) \/ LoopHandles(t) \/ LoopStops(t)
      PROVE  /\ Live(t)
             /\ UNCHANGED <<pdo_thread, outlived, pc, csp_active>>
             /\ \E s \in {"failed", "handled", "stopping"} : thread' = [thread EXCEPT ![t] = s]
  BY <1>5 DEF LoopRaises, LoopHandles, LoopStops, SeesStop, Live
<1>6. ASSUME NEW t \in Threads, LoopFinally(t)
      PROVE  /\ Live(t)
             /\ UNCHANGED <<pdo_thread, outlived, pc>>
             /\ thread' = [thread EXCEPT ![t] = "done"]
             /\ csp_active' = FALSE
  BY <1>6 DEF LoopFinally, FinallyClears, Live
<1>7. ASSUME DriveSteps PROVE Same
  BY <1>7 DEF DriveSteps, DriveArrives, DriveDrops, DriveSags, BusFallsBack
<1>8. ASSUME UNCHANGED vars PROVE Same
  BY <1>8 DEF vars
<1>9. QED
  BY <1>1, <1>2, <1>3, <1>4, <1>5, <1>6, <1>7, <1>8 DEF Next, HandlerSteps, LoopSteps

LEMMA TypeInvariant == Spec => []TypeInv
BY TypeInit, TypeStep, PTL DEF Spec

\* csp_active is never left set without a thread that can clear it, even if an exit
\* gives up waiting for one.
THEOREM ActiveSessionHasThread == Spec => []ActiveHasThread
<1>1. Init => ActiveHasThread
  BY DEF Init, ActiveHasThread
<1>2. TypeInv /\ ActiveHasThread /\ [Next]_vars => ActiveHasThread'
  <2> SUFFICES ASSUME TypeInv, ActiveHasThread, [Next]_vars, csp_active'
               PROVE  ThreadAlive'
    BY DEF ActiveHasThread
  <2> USE DEF ThreadAlive, threadVars
  <2>0. thread \in [Threads -> ThreadStates] /\ pdo_thread \in Threads \cup {NoThread}
    BY DEF TypeInv, TypeOK
  <2>1. CASE UNCHANGED <<csp_active, threadVars>>
    BY <2>1 DEF ActiveHasThread
  <2>2. CASE ExitCsp
    BY <2>2 DEF ExitCsp, ActiveHasThread, busVars
  <2>3. ASSUME NEW t \in Threads, EnterActivate(t) PROVE ThreadAlive'
    BY <2>0, <2>3, SessionAssumption DEF EnterActivate
  <2>4. CASE ExitFinish
    BY <2>4 DEF ExitFinish, ResetsSession
  <2>5. ASSUME NEW t \in Threads, NEW s \in {"failed", "handled", "stopping"},
               UNCHANGED <<pdo_thread, csp_active>>,
               thread' = [thread EXCEPT ![t] = s]
        PROVE  ThreadAlive'
    BY <2>0, <2>5 DEF ActiveHasThread
  <2>6. CASE ExitJoined
    BY <2>6 DEF ExitJoined, ActiveHasThread, busVars
  <2>7. QED
    BY <2>1, <2>2, <2>3, <2>4, <2>5, <2>6, ThreadSteps
<1>3. QED
  BY <1>1, <1>2, TypeInvariant, PTL DEF Spec

\* A thread whose join timed out has ended since.
LateEnd == \E t \in outlived : thread[t] = "done"

\* Until then every live thread is the session's own or one whose join timed out, the
\* session's own has csp_active set, and exit_csp passes its join with a live thread
\* only if that join timed out.
SessionInv ==
  /\ \A t \in Threads : Live(t) => t = pdo_thread \/ t \in outlived \/ LateEnd
  /\ pdo_thread # NoThread /\ Live(pdo_thread) => csp_active \/ LateEnd
  /\ pc = "exit_finish" /\ ThreadAlive => pdo_thread \in outlived

\* exit_csp goes on to its end only from its join.
LEMMA JoinedSteps ==
  ASSUME [Next]_vars, pc' = "exit_finish"
  PROVE  ExitJoined \/ pc = "exit_finish"
<1> DEFINE Goal == ExitJoined \/ pc = "exit_finish"
<1>1. ASSUME Requests PROVE Goal
  BY <1>1 DEF Requests, EnableAll, DisableAll, GotoHome, MoveDrives, AdjustHomeCounts,
     HomeOne, HomeAll, HomeTcp, HomeMissingDrive, SetCurrentArmHome, EnterGate,
     SetCspTargets, ExitCsp, Begin
<1>2. ASSUME NEW d \in Drives,
             \/ EnableDrive(d) \/ DisableDrive(d) \/ GotoHomeDrive(d) \/ RezeroDrive(d)
             \/ EnterEnableDrive(d) \/ EnterSelectDrive(d)
      PROVE  Goal
  BY <1>2 DEF EnableDrive, DisableDrive, GotoHomeDrive, RezeroDrive, EnterEnableDrive,
     EnterSelectDrive, Advance, LeaveEnter, Abandon
<1>3. ASSUME NEW id \in Ids, HomeDrive(id) PROVE Goal
  BY <1>3 DEF HomeDrive, AfterHoming, HomePcs, Abandon
<1>4. ASSUME \/ ReferenceSpurGear
             \/ EnterRaises \/ EnterConfigure \/ EnterPrepare \/ EnterMapPdos \/ EnterArm
             \/ EnterActivateRaises \/ ExitFinish
             \/ \E t \in Threads : EnterActivate(t)
      PROVE  Goal
  BY <1>4 DEF ReferenceSpurGear, EnterRaises, EnterConfigure, EnterPrepare, EnterMapPdos,
     EnterArm, EnterActivateRaises, ExitFinish, EnterActivate, LeaveEnter, Abandon
<1>5. ASSUME NEW t \in Threads, LoopSteps(t) PROVE Goal
  BY <1>5 DEF LoopSteps, LoopCycle, LoopRaises, LoopHandles, LoopStops, LoopFinally
<1>6. ASSUME DriveSteps PROVE Goal
  BY <1>6 DEF DriveSteps, DriveArrives, DriveDrops, DriveSags, BusFallsBack
<1>7. ASSUME UNCHANGED vars PROVE Goal
  BY <1>7 DEF vars
<1>8. QED
  BY <1>1, <1>2, <1>3, <1>4, <1>5, <1>6, <1>7 DEF Next, HandlerSteps

LEMMA SessionStep ==
  ASSUME HandoffInv, SessionInv, [Next]_vars
  PROVE  SessionInv'
<1> USE DEF Live, LateEnd, threadVars, busVars
<1>0. /\ TypeInv
      /\ thread \in [Threads -> ThreadStates] /\ outlived \in SUBSET Threads
      /\ pdo_thread \in Threads \cup {NoThread}
      /\ pc \in EnterPcs => ~csp_active
  BY DEF HandoffInv, EnterKeepsHold, TypeInv, TypeOK
<1>1. CASE UNCHANGED <<csp_active, threadVars>>
  <2>1. pc' = "exit_finish" /\ ThreadAlive => pdo_thread \in outlived
    <3>1. ASSUME ExitJoined, ThreadAlive PROVE pdo_thread \in outlived
      BY <1>1, <3>1 DEF ExitJoined, JoinReturns
    <3>2. QED
      BY <3>1, JoinedSteps DEF SessionInv
  <2>2. QED
    BY <1>1, <2>1 DEF SessionInv, ThreadAlive
<1>2. CASE ExitCsp
  BY <1>2 DEF ExitCsp, SessionInv
<1>3. ASSUME NEW t \in Threads, EnterActivate(t) PROVE SessionInv'
  <2>1. /\ thread[t] = "unborn" /\ thread' = [thread EXCEPT ![t] = "running"]
        /\ outlived' = outlived /\ pdo_thread' = t /\ csp_active' /\ pc' = "idle"
        /\ ~csp_active
    BY <1>0, <1>3 DEF EnterActivate, EnterPcs, LeaveEnter, Abandon
  <2>2. LateEnd => LateEnd'
    BY <1>0, <2>1
  <2>3. ASSUME NEW u \in Threads, u # t, Live(u)' PROVE u \in outlived \/ LateEnd
    <3>1. Live(u)
      BY <1>0, <2>1, <2>3
    <3>2. u = pdo_thread => LateEnd
      BY <2>1, <3>1, SessionAssumption DEF SessionInv
    <3>3. QED
      BY <3>1, <3>2 DEF SessionInv
  <2>4. QED
    BY <2>1, <2>2, <2>3 DEF SessionInv
<1>4. CASE ExitFinish
  <2>1. \A u \in Threads : Live(u) => u \in outlived \/ LateEnd
    BY <1>4, SessionAssumption DEF ExitFinish, SessionInv, ThreadAlive
  <2>2. QED
    BY <1>4, <2>1 DEF ExitFinish, SessionInv
<1>5. CASE ExitJoined
  <2>1. /\ UNCHANGED <<pdo_thread, thread, csp_active>>
        /\ outlived \subseteq outlived'
        /\ ThreadAlive => pdo_thread \in outlived'
    BY <1>5 DEF ExitJoined, JoinReturns, JoinGivesUp
  <2>2. LateEnd => LateEnd'
    BY <2>1
  <2>3. QED
    BY <2>1, <2>2 DEF SessionInv, ThreadAlive
<1>6. ASSUME NEW t \in Threads, Live(t), UNCHANGED <<pdo_thread, outlived, pc>>,
             \/ /\ thread' = [thread EXCEPT ![t] = "done"]
                /\ csp_active' = FALSE
             \/ /\ \E s \in {"failed", "handled", "stopping"} :
                     thread' = [thread EXCEPT ![t] = s]
                /\ UNCHANGED csp_active
      PROVE  SessionInv'
  <2>1. /\ LateEnd => LateEnd'
        /\ \A u \in Threads : Live(u)' => Live(u)
        /\ ThreadAlive' => ThreadAlive
    BY <1>0, <1>6 DEF ThreadAlive
  <2>2. thread' = [thread EXCEPT ![t] = "done"] /\ pdo_thread # t => LateEnd'
    BY <1>0, <1>6, <2>1 DEF SessionInv
  <2>3. pdo_thread # NoThread /\ Live(pdo_thread)' => csp_active' \/ LateEnd'
    BY <1>0, <1>6, <2>1, <2>2 DEF SessionInv
  <2>4. QED
    BY <1>0, <1>6, <2>1, <2>3 DEF SessionInv
<1>7. QED
  BY <1>0, <1>1, <1>2, <1>3, <1>4, <1>5, <1>6, ThreadSteps

\* A thread that cycles for the bus has csp_active set until a thread that exit_csp gave
\* up waiting for has ended, for any number of threads and any joins that time out.
THEOREM CyclingThreadIsActive == Spec => []CyclingIsActive
<1>1. Init => SessionInv
  BY DEF Init, SessionInv, Live
<1>2. HandoffInv /\ SessionInv /\ [Next]_vars => SessionInv'
  BY SessionStep
<1>3. SessionInv => CyclingIsActive
  BY DEF SessionInv, CyclingIsActive, Live, LateEnd
<1>4. QED
  BY <1>1, <1>2, <1>3, HandoffInvariant, PTL DEF Spec

=============================================================================
