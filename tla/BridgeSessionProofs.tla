------------------------ MODULE BridgeSessionProofs -------------------------
(***************************************************************************)
(* Theorems about BridgeSession for any number of drives, any set of       *)
(* counts, any number of PDO threads and every choice of the parameters.   *)
(***************************************************************************)
EXTENDS HandoffRefinement, TLAPS

-----------------------------------------------------------------------------
(* Lemmas about the operators the actions are built from.                  *)

LEMMA DriveSets ==
  /\ Spur \in Drives
  /\ ArmDrives \subseteq Drives
  /\ RequiredHoming \subseteq Drives
  /\ RequiredCsp \subseteq Drives
  /\ NonHomingCsp \subseteq Drives
  /\ IgnoredCsp \subseteq Drives
  /\ RequiredHoming # {}
BY SessionAssumption DEF Drives, Spur, ArmDrives, RequiredHoming, RequiredCsp,
   NonHomingCsp, IgnoredCsp

\* Every drive has its own index, and an index below zero names a drive.
LEMMA IdSets ==
  /\ Drives \subseteq Ids
  /\ \A id \in Ids : Axis(id) \in Drives
BY SessionAssumption DEF Drives, Ids, Axis

\* A drive left in a power state with a goal leaves both functions well typed.
LEMMA LeaveDriveType ==
  ASSUME power \in [Drives -> PowerStates],
         goal \in [Drives -> Counts \cup {NoGoal}],
         NEW d \in Drives, NEW p \in PowerStates, NEW g \in Counts \cup {NoGoal},
         LeaveDrive(d, p, g)
  PROVE  /\ power' \in [Drives -> PowerStates]
         /\ goal' \in [Drives -> Counts \cup {NoGoal}]
BY DEF LeaveDrive

LEMMA SequenceFailsType ==
  ASSUME power \in [Drives -> PowerStates],
         goal \in [Drives -> Counts \cup {NoGoal}],
         NEW d \in Drives, SequenceFails(d)
  PROVE  /\ power' \in [Drives -> PowerStates]
         /\ goal' \in [Drives -> Counts \cup {NoGoal}]
<1>1. PICK p \in PowerStates, g \in {goal[d], NoGoal} : LeaveDrive(d, p, g)
  BY DEF SequenceFails
<1>2. g \in Counts \cup {NoGoal}
  OBVIOUS
<1>3. QED
  BY <1>1, <1>2, LeaveDriveType

\* Exchanges leave the positions well typed.
LEMMA FollowTargetsType ==
  ASSUME pos \in [Drives -> Counts], target_counts \in [Drives -> Counts],
         NEW S, FollowTargets(S)
  PROVE  pos' \in [Drives -> Counts]
BY DEF FollowTargets

\* A complete target image is not the empty one.
LEMMA ImageNotEmpty == \A f \in [Drives -> Counts] : f # <<>>
<1> SUFFICES ASSUME NEW f \in [Drives -> Counts] PROVE f # <<>>
  OBVIOUS
<1>1. DOMAIN f # {}
  BY DriveSets
<1>2. DOMAIN <<>> = {}
  OBVIOUS
<1>3. QED
  BY <1>1, <1>2

-----------------------------------------------------------------------------
(* Type correctness.                                                       *)

\* enter_csp builds a complete target image before its first exchange, so that no
\* exchange of the activation finds the target cache uninitialized.
TargetsReady == pc = "enter_activate" => target_counts # <<>>

TypeInv == TypeOK /\ TargetsReady

LEMMA TypeInit == Init => TypeInv
<1> SUFFICES ASSUME Init PROVE TypeInv
  OBVIOUS
<1>1. /\ homing_complete \in BOOLEAN /\ spur_gear_reference_complete \in BOOLEAN
      /\ deferred_csp_prepared \in BOOLEAN /\ csp_active \in BOOLEAN
      /\ pdo_error \in BOOLEAN /\ pdo_stop_event \in BOOLEAN /\ measured \in BOOLEAN
  BY Zenon DEF Init
<1>2. /\ thread \in [Threads -> ThreadStates]
      /\ power \in [Drives -> PowerStates]
      /\ goal \in [Drives -> Counts \cup {NoGoal}]
      /\ zero \in [Drives -> ZeroStates]
      /\ initial_targets \in [Drives -> Counts]
  BY SessionAssumption DEF Init, ThreadStates, PowerStates, ZeroStates
<1>3. QED
  BY <1>1, <1>2 DEF Init, TypeInv, TypeOK, TargetsReady, Pcs, HomePcs, EnterPcs

LEMMA TypeStep == TypeInv /\ [Next]_vars => TypeInv'
<1> SUFFICES ASSUME TypeInv, [Next]_vars PROVE TypeInv'
  OBVIOUS
<1> USE DEF TypeInv, TypeOK, TargetsReady, sessionVars, busVars, threadVars, driveVars,
            enterVars, Pcs, HomePcs, EnterPcs, PowerStates, ZeroStates, ThreadStates
<1>0. Drives \subseteq Ids
  BY IdSets
<1>1. CASE EnableAll
  BY <1>0, <1>1, DriveSets DEF EnableAll, Begin
<1>2. CASE DisableAll
  BY <1>0, <1>2 DEF DisableAll, Begin
<1>3. CASE GotoHome
  BY <1>0, <1>3, DriveSets DEF GotoHome, Begin
<1>4. CASE MoveDrives
  BY <1>4 DEF MoveDrives, Energised
<1>5. ASSUME NEW d \in Drives, AdjustHomeCounts(d) PROVE TypeInv'
  BY <1>5, LeaveDriveType DEF AdjustHomeCounts
<1>6. CASE HomeOne
  BY <1>0, <1>6, DriveSets DEF HomeOne, Begin
<1>7. CASE HomeAll
  BY <1>0, <1>7, DriveSets DEF HomeAll, Begin
<1>8. CASE HomeTcp
  BY <1>8 DEF HomeTcp, Begin
<1>9. CASE SetCurrentArmHome
  BY <1>0, <1>9, DriveSets DEF SetCurrentArmHome, Begin
<1>10. CASE EnterGate
  <2>1. measured' \in BOOLEAN
    BY <1>10, Zenon DEF EnterGate
  <2>2. QED
    BY <1>10, <2>1, SessionAssumption DEF EnterGate, DefaultTargets
<1>11. CASE SetCspTargets
  BY <1>11 DEF SetCspTargets
<1>12. CASE ExitCsp
  BY <1>12 DEF ExitCsp
<1>13. ASSUME NEW d \in Drives, EnableDrive(d) PROVE TypeInv'
  BY <1>13, LeaveDriveType, SequenceFailsType DEF EnableDrive, Advance, Abandon
<1>14. ASSUME NEW d \in Drives, DisableDrive(d) PROVE TypeInv'
  BY <1>14, LeaveDriveType DEF DisableDrive, Advance, Abandon, Released
<1>15. ASSUME NEW d \in Drives, GotoHomeDrive(d) PROVE TypeInv'
  BY <1>15, LeaveDriveType, SessionAssumption DEF GotoHomeDrive, Advance, Abandon, Energised
<1>16. ASSUME NEW id \in Ids, HomeDrive(id) PROVE TypeInv'
  <2>1. spur_gear_reference_complete' \in BOOLEAN /\ homing_complete' \in BOOLEAN
    BY <1>16, Zenon DEF HomeDrive, MarkHomed
  <2>2. Axis(id) \in Drives
    BY IdSets
  <2>3. power' \in [Drives -> PowerStates] /\ goal' \in [Drives -> Counts \cup {NoGoal}]
    BY <1>16, <2>2, LeaveDriveType DEF HomeDrive
  <2>4. /\ homed' \in SUBSET Drives /\ pos' \in [Drives -> Counts]
        /\ zero' \in [Drives -> ZeroStates]
    BY <1>16, <2>2, SessionAssumption DEF HomeDrive, MarkHomed
  <2>5. pc' \in Pcs /\ todo' \in SUBSET Ids
    BY <1>16 DEF HomeDrive, AfterHoming, Abandon
  <2>6. QED
    BY <1>16, <2>1, <2>3, <2>4, <2>5 DEF HomeDrive, AfterHoming, Abandon
<1>17. ASSUME NEW d \in Drives, RezeroDrive(d) PROVE TypeInv'
  BY <1>17, LeaveDriveType, SequenceFailsType, SessionAssumption
     DEF RezeroDrive, Advance, Abandon
<1>18. ASSUME NEW d \in Drives, EnterEnableDrive(d) PROVE TypeInv'
  <2>1. measured' \in BOOLEAN
    BY <1>18, Zenon DEF EnterEnableDrive, TypeInv, TypeOK, LeaveEnter, enterVars
  <2>2. QED
    BY <1>18, <2>1, LeaveDriveType, SequenceFailsType, SessionAssumption
       DEF EnterEnableDrive, LeaveEnter, Abandon
<1>19. ASSUME NEW d \in Drives, EnterSelectDrive(d) PROVE TypeInv'
  BY <1>19, LeaveDriveType DEF EnterSelectDrive
<1>20. CASE ReferenceSpurGear
  <2>1. spur_gear_reference_complete' \in BOOLEAN
    BY <1>20, Zenon DEF ReferenceSpurGear
  <2>2. QED
    BY <1>20, <2>1, LeaveDriveType, DriveSets, SessionAssumption DEF ReferenceSpurGear
<1>21. CASE EnterRaises
  <2>1. measured' \in BOOLEAN
    BY <1>21, Zenon DEF EnterRaises, LeaveEnter
  <2>2. QED
    BY <1>21, <2>1, SessionAssumption DEF EnterRaises, LeaveEnter, Abandon
<1>22. CASE EnterConfigure
  BY <1>0, <1>22, DriveSets DEF EnterConfigure
<1>23. CASE EnterPrepare
  <2>1. measured' \in BOOLEAN
    BY <1>23, Zenon DEF EnterPrepare, TypeInv, TypeOK, LeaveEnter, enterVars
  <2>2. QED
    BY <1>0, <1>23, <2>1, DriveSets, SessionAssumption DEF EnterPrepare, LeaveEnter, Abandon
<1>24. CASE EnterMapPdos
  BY <1>0, <1>24, DriveSets DEF EnterMapPdos
<1>25. CASE EnterArm
  <2>1. pdo_error' \in BOOLEAN /\ measured' \in BOOLEAN
    BY <1>25, Zenon DEF EnterArm, TypeInv, TypeOK, LeaveEnter, enterVars
  <2>2. QED
    BY <1>25, <2>1, ImageNotEmpty, SessionAssumption DEF EnterArm, LeaveEnter, Abandon
<1>26. ASSUME NEW t \in Threads, EnterActivate(t) PROVE TypeInv'
  BY <1>26, FollowTargetsType, SessionAssumption
     DEF EnterActivate, IgnoredReleased, Released, LeaveEnter, Abandon
<1>27. CASE EnterActivateRaises
  BY <1>27, FollowTargetsType, SessionAssumption
     DEF EnterActivateRaises, LeaveEnter, Abandon
<1>28. CASE ExitJoined
  BY <1>28 DEF ExitJoined, JoinGivesUp, ThreadAlive
<1>29. CASE ExitFinish
  BY <1>29 DEF ExitFinish, SafeOp, ResetsSession, Released
<1>30. ASSUME NEW t \in Threads, LoopCycle(t) PROVE TypeInv'
  BY <1>30, FollowTargetsType DEF LoopCycle, IgnoredReleased, Released
<1>31. ASSUME NEW t \in Threads, LoopRaises(t) PROVE TypeInv'
  BY <1>31, FollowTargetsType DEF LoopRaises
<1>32. ASSUME NEW t \in Threads, LoopHandles(t) PROVE TypeInv'
  BY <1>32 DEF LoopHandles, SafeOp
<1>33. ASSUME NEW t \in Threads, LoopStops(t) PROVE TypeInv'
  BY <1>33 DEF LoopStops
<1>34. ASSUME NEW t \in Threads, LoopFinally(t) PROVE TypeInv'
  <2>1. csp_active' \in BOOLEAN
    BY <1>34, Zenon DEF LoopFinally, FinallyClears
  <2>2. QED
    BY <1>34, <2>1 DEF LoopFinally, FinallyClears
<1>35. ASSUME NEW d \in Drives, DriveArrives(d) PROVE TypeInv'
  BY <1>35 DEF DriveArrives
<1>36. ASSUME NEW d \in Drives, DriveDrops(d) PROVE TypeInv'
  BY <1>36, LeaveDriveType DEF DriveDrops
<1>37. ASSUME NEW d \in Drives, DriveSags(d) PROVE TypeInv'
  BY <1>37 DEF DriveSags
<1>38. CASE BusFallsBack
  BY <1>38 DEF BusFallsBack
<1>39. CASE HomeMissingDrive
  <2>1. spur_gear_reference_complete' \in BOOLEAN
    BY <1>39, Zenon DEF HomeMissingDrive
  <2>2. QED
    BY <1>39, <2>1 DEF HomeMissingDrive
<1>40. CASE UNCHANGED vars
  BY <1>40 DEF vars
<1>41. QED
  BY <1>1, <1>2, <1>3, <1>4, <1>5, <1>6, <1>7, <1>8, <1>9, <1>10, <1>11, <1>12, <1>13,
     <1>14, <1>15, <1>16, <1>17, <1>18, <1>19, <1>20, <1>21, <1>22, <1>23, <1>24, <1>25,
     <1>26, <1>27, <1>28, <1>29, <1>30, <1>31, <1>32, <1>33, <1>34, <1>35, <1>36, <1>37,
     <1>38, <1>39, <1>40
     DEF Next, Requests, HandlerSteps, LoopSteps, DriveSteps

\* Every variable of the session keeps its type.
THEOREM TypeCorrect == Spec => []TypeOK
<1>1. TypeInv => TypeOK
  BY DEF TypeInv
<1>2. QED
  BY <1>1, TypeInit, TypeStep, PTL DEF Spec

-----------------------------------------------------------------------------
(* The handoff.                                                            *)

\* The handlers that do SDO work on drives under _ensure_non_csp_operation.
SdoPcs == {"enable", "goto", "spur", "rezero"} \cup HomePcs

\* The guard of an SDO handler is checked once, when it begins: it still holds at
\* every later step of the handler.
SdoBeforePrepared == pc \in SdoPcs => ~deferred_csp_prepared /\ ~csp_active

\* Inside enter_csp no session is active, and only drives that Homing does not
\* reference are enabled there.
EnterKeepsHold ==
  /\ pc \in EnterPcs => ~csp_active
  /\ pc = "enter_hold" => todo \subseteq NonHomingCsp

\* homing_complete is the aggregate of homed_drive_ids.
HomingAggregate == homing_complete <=> RequiredHoming \subseteq homed

\* A homing_csp session is prepared before it is active, and armed before it is prepared.
PreparedInOrder ==
  ControlMode = "homing_csp" =>
    /\ deferred_csp_prepared \/ csp_active \/ pc \in EnterPcs => Armed
    /\ csp_active \/ pc \in {"enter_select", "enter_activate"} => deferred_csp_prepared

\* The strengthening of HandoffArmed that every step preserves.
HandoffInv ==
  /\ TypeInv
  /\ SdoBeforePrepared
  /\ EnterKeepsHold
  /\ HomingAggregate
  /\ PreparedInOrder

LEMMA HandoffInit == Init => HandoffInv
BY TypeInit, DriveSets DEF Init, HandoffInv, SdoBeforePrepared, EnterKeepsHold, HomingAggregate,
   PreparedInOrder, SdoPcs, HomePcs, EnterPcs

LEMMA HandoffStep == HandoffInv /\ [Next]_vars => HandoffInv'
<1> SUFFICES ASSUME HandoffInv, [Next]_vars PROVE HandoffInv'
  OBVIOUS
<1>0. TypeInv /\ TypeInv'
  BY TypeStep DEF HandoffInv
<1> DEFINE Rest == SdoBeforePrepared /\ EnterKeepsHold /\ HomingAggregate /\ PreparedInOrder
<1> SUFFICES Rest'
  BY <1>0 DEF HandoffInv
<1>a. Rest
  BY DEF HandoffInv
<1> USE <1>a DEF SdoBeforePrepared, EnterKeepsHold, HomingAggregate, PreparedInOrder, SdoPcs, HomePcs,
                 EnterPcs, Armed, sessionVars, busVars, threadVars
<1>1. CASE EnableAll
  BY <1>1 DEF EnableAll, Begin, EnsureNonCspOperation
<1>2. CASE DisableAll
  BY <1>2 DEF DisableAll, Begin
<1>3. CASE GotoHome
  BY <1>3 DEF GotoHome, Begin, EnsureNonCspOperation
<1>4. CASE MoveDrives
  BY <1>4 DEF MoveDrives
<1>5. ASSUME NEW d \in Drives, AdjustHomeCounts(d) PROVE Rest'
  BY <1>5 DEF AdjustHomeCounts
<1>6. CASE HomeOne
  BY <1>6 DEF HomeOne, Begin, EnsureNonCspOperation
<1>7. CASE HomeAll
  BY <1>7 DEF HomeAll, Begin, EnsureNonCspOperation
<1>8. CASE HomeTcp
  BY <1>8 DEF HomeTcp, Begin, EnsureNonCspOperation
<1>9. CASE SetCurrentArmHome
  BY <1>9 DEF SetCurrentArmHome, Begin, EnsureNonCspOperation
<1>10. CASE EnterGate
  BY <1>10 DEF EnterGate, SpurReferenceSatisfied
<1>11. CASE SetCspTargets
  BY <1>11 DEF SetCspTargets
<1>12. CASE ExitCsp
  BY <1>12 DEF ExitCsp
<1>13. ASSUME NEW d \in Drives, EnableDrive(d) PROVE Rest'
  BY <1>13 DEF EnableDrive, Advance, Abandon
<1>14. ASSUME NEW d \in Drives, DisableDrive(d) PROVE Rest'
  BY <1>14 DEF DisableDrive, Advance, Abandon
<1>15. ASSUME NEW d \in Drives, GotoHomeDrive(d) PROVE Rest'
  BY <1>15 DEF GotoHomeDrive, Advance, Abandon
<1>16. ASSUME NEW id \in Ids, HomeDrive(id) PROVE Rest'
  BY <1>16 DEF HomeDrive, MarkHomed, AfterHoming, Abandon
<1>17. ASSUME NEW d \in Drives, RezeroDrive(d) PROVE Rest'
  BY <1>17 DEF RezeroDrive, Advance, Abandon
<1>18. ASSUME NEW d \in Drives, EnterEnableDrive(d) PROVE Rest'
  BY <1>18 DEF EnterEnableDrive, LeaveEnter, Abandon
<1>19. ASSUME NEW d \in Drives, EnterSelectDrive(d) PROVE Rest'
  BY <1>19 DEF EnterSelectDrive
<1>20. CASE ReferenceSpurGear
  BY <1>20 DEF ReferenceSpurGear
<1>21. CASE EnterRaises
  BY <1>21 DEF EnterRaises, LeaveEnter, Abandon
<1>22. CASE EnterConfigure
  BY <1>22 DEF EnterConfigure
<1>23. CASE EnterPrepare
  BY <1>23 DEF EnterPrepare, LeaveEnter, Abandon
<1>24. CASE EnterMapPdos
  BY <1>24 DEF EnterMapPdos
<1>25. CASE EnterArm
  BY <1>25 DEF EnterArm, LeaveEnter, Abandon
<1>26. ASSUME NEW t \in Threads, EnterActivate(t) PROVE Rest'
  BY <1>26 DEF EnterActivate, LeaveEnter, Abandon
<1>27. CASE EnterActivateRaises
  BY <1>27 DEF EnterActivateRaises, LeaveEnter, Abandon
<1>28. CASE ExitJoined
  BY <1>28 DEF ExitJoined
<1>29. CASE ExitFinish
  BY <1>29 DEF ExitFinish, ResetsSession
<1>30. ASSUME NEW t \in Threads, LoopCycle(t) PROVE Rest'
  BY <1>30 DEF LoopCycle
<1>31. ASSUME NEW t \in Threads, LoopRaises(t) PROVE Rest'
  BY <1>31 DEF LoopRaises
<1>32. ASSUME NEW t \in Threads, LoopHandles(t) PROVE Rest'
  BY <1>32 DEF LoopHandles
<1>33. ASSUME NEW t \in Threads, LoopStops(t) PROVE Rest'
  BY <1>33 DEF LoopStops
<1>34. ASSUME NEW t \in Threads, LoopFinally(t) PROVE Rest'
  BY <1>34 DEF LoopFinally, FinallyClears
<1>35. ASSUME NEW d \in Drives, DriveArrives(d) PROVE Rest'
  BY <1>35 DEF DriveArrives
<1>36. ASSUME NEW d \in Drives, DriveDrops(d) PROVE Rest'
  BY <1>36 DEF DriveDrops
<1>37. ASSUME NEW d \in Drives, DriveSags(d) PROVE Rest'
  BY <1>37 DEF DriveSags
<1>38. CASE BusFallsBack
  BY <1>38 DEF BusFallsBack
<1>39. CASE HomeMissingDrive
  BY <1>39 DEF HomeMissingDrive, EnsureNonCspOperation
<1>40. CASE UNCHANGED vars
  BY <1>40 DEF vars
<1>41. QED
  BY <1>1, <1>2, <1>3, <1>4, <1>5, <1>6, <1>7, <1>8, <1>9, <1>10, <1>11, <1>12, <1>13,
     <1>14, <1>15, <1>16, <1>17, <1>18, <1>19, <1>20, <1>21, <1>22, <1>23, <1>24, <1>25,
     <1>26, <1>27, <1>28, <1>29, <1>30, <1>31, <1>32, <1>33, <1>34, <1>35, <1>36, <1>37,
     <1>38, <1>39, <1>40
     DEF Next, Requests, HandlerSteps, LoopSteps, DriveSteps

\* The strengthening holds in every reachable state.
THEOREM HandoffInvariant == Spec => []HandoffInv
BY HandoffInit, HandoffStep, PTL DEF Spec

\* No interleaving of home, re-home, failed activation, loop failure and exit reaches
\* enter_csp's work, a completed preparation or a CSP session without the references.
THEOREM HandoffIsArmed == Spec => []HandoffArmed
<1>1. HandoffInv => HandoffArmed
  BY DEF HandoffInv, HandoffArmed, PreparedInOrder, HomingAggregate, Armed
<1>2. QED
  BY <1>1, HandoffInvariant, PTL


-----------------------------------------------------------------------------
(* After preparation has completed.                                        *)

LEMMA HomingSets ==
  /\ RequiredHoming \subseteq RequiredCsp
  /\ RequiredHoming \cap NonHomingCsp = {}
BY SessionAssumption DEF RequiredHoming, RequiredCsp, NonHomingCsp, IgnoredCsp, ArmDrives,
   Drives, Spur

\* Only EnterMapPdos completes preparation, nothing undoes it, only EnterActivate activates.
LEMMA PhaseSteps ==
  ASSUME [Next]_vars
  PROVE  /\ deferred_csp_prepared' = deferred_csp_prepared \/ EnterMapPdos
         /\ csp_active' => csp_active \/ \E t \in Threads : EnterActivate(t)
<1> DEFINE Goal == /\ deferred_csp_prepared' = deferred_csp_prepared \/ EnterMapPdos
                   /\ csp_active' => csp_active \/ \E t \in Threads : EnterActivate(t)
<1> SUFFICES Goal
  OBVIOUS
<1>1. ASSUME Requests PROVE Goal
  BY <1>1 DEF Requests, EnableAll, DisableAll, GotoHome, MoveDrives, AdjustHomeCounts,
     HomeOne, HomeAll, HomeTcp, HomeMissingDrive, SetCurrentArmHome, EnterGate, SetCspTargets,
     ExitCsp, Begin,
     busVars
<1>2. ASSUME NEW d \in Drives,
             \/ EnableDrive(d) \/ DisableDrive(d) \/ GotoHomeDrive(d)
             \/ RezeroDrive(d)
             \/ EnterEnableDrive(d) \/ EnterSelectDrive(d)
      PROVE  Goal
  BY <1>2 DEF EnableDrive, DisableDrive, GotoHomeDrive, RezeroDrive, EnterEnableDrive,
     EnterSelectDrive, busVars
<1>3. ASSUME \/ ReferenceSpurGear
             \/ EnterRaises \/ EnterConfigure \/ EnterPrepare \/ EnterArm
             \/ EnterActivateRaises \/ ExitJoined \/ ExitFinish
      PROVE  Goal
  BY <1>3 DEF ReferenceSpurGear, EnterRaises, EnterConfigure, EnterPrepare, EnterArm,
     EnterActivateRaises, ExitJoined, ExitFinish, ResetsSession, busVars
<1>4. ASSUME EnterMapPdos PROVE Goal
  BY <1>4 DEF EnterMapPdos, busVars
<1>5. ASSUME NEW t \in Threads, EnterActivate(t) PROVE Goal
  BY <1>5 DEF EnterActivate
<1>6. ASSUME NEW t \in Threads, LoopSteps(t) PROVE Goal
  BY <1>6 DEF LoopSteps, LoopCycle, LoopRaises, LoopHandles, LoopStops, LoopFinally,
     FinallyClears, busVars
<1>7. ASSUME DriveSteps PROVE Goal
  BY <1>7 DEF DriveSteps, DriveArrives, DriveDrops, DriveSags, BusFallsBack, busVars
<1>8. ASSUME NEW id \in Ids, HomeDrive(id) PROVE Goal
  BY <1>8 DEF HomeDrive, busVars
<1>9. CASE UNCHANGED vars
  BY <1>9 DEF vars, busVars
<1>10. QED
  BY <1>1, <1>2, <1>3, <1>4, <1>5, <1>6, <1>7, <1>8, <1>9 DEF Next, HandlerSteps

\* A drive of Homing gains power only before preparation has completed.
LEMMA NoPowerGain ==
  ASSUME ControlMode = "homing_csp", HandoffInv, [Next]_vars, deferred_csp_prepared,
         NEW e \in RequiredHoming, power'[e] = "enabled"
  PROVE  power[e] = "enabled"
<1> USE DEF driveVars
<1>0. /\ power \in [Drives -> PowerStates]
      /\ e \in Drives
      /\ e \notin NonHomingCsp
      /\ pc \notin SdoPcs
      /\ pc = "enter_hold" => todo \subseteq NonHomingCsp
  BY HomingSets, DriveSets DEF HandoffInv, TypeInv, TypeOK, SdoBeforePrepared, EnterKeepsHold
<1>1. ASSUME Requests PROVE power[e] = "enabled"
  BY <1>0, <1>1 DEF Requests, EnableAll, DisableAll, GotoHome, MoveDrives, AdjustHomeCounts,
     HomeOne, HomeAll, HomeTcp, HomeMissingDrive, SetCurrentArmHome, EnterGate, SetCspTargets,
     ExitCsp, Begin,
     EnsureNonCspOperation
<1>2. ASSUME NEW d \in Drives,
             EnableDrive(d) \/ GotoHomeDrive(d) \/ RezeroDrive(d)
      PROVE  FALSE
  BY <1>0, <1>2 DEF EnableDrive, GotoHomeDrive, RezeroDrive, SdoPcs
<1>3. ASSUME NEW d \in Drives, DisableDrive(d) PROVE power[e] = "enabled"
  BY <1>0, <1>3 DEF DisableDrive, LeaveDrive, Released
<1>4. ASSUME NEW d \in Drives, EnterEnableDrive(d) PROVE power[e] = "enabled"
  <2>1. d # e
    BY <1>0, <1>4 DEF EnterEnableDrive, IsNext
  <2>2. QED
    BY <1>0, <1>4, <2>1 DEF EnterEnableDrive, LeaveDrive, SequenceFails
<1>5. ASSUME NEW d \in Drives, EnterSelectDrive(d) PROVE power[e] = "enabled"
  BY <1>0, <1>5 DEF EnterSelectDrive, LeaveDrive
<1>6. ASSUME \/ ReferenceSpurGear \/ \E id \in Ids : HomeDrive(id)
             \/ EnterRaises \/ EnterConfigure \/ EnterPrepare \/ EnterMapPdos \/ EnterArm
             \/ ExitJoined
      PROVE  power[e] = "enabled"
  BY <1>0, <1>6 DEF HomeDrive, ReferenceSpurGear, EnterRaises, EnterConfigure, EnterPrepare,
     EnterMapPdos, EnterArm, ExitJoined, SdoPcs
<1>7. ASSUME NEW t \in Threads, EnterActivate(t) PROVE power[e] = "enabled"
  BY <1>7, HomingSets DEF EnterActivate
<1>8. CASE EnterActivateRaises
  BY <1>0, <1>8 DEF EnterActivateRaises
<1>9. CASE ExitFinish
  BY <1>0, <1>9 DEF ExitFinish, SafeOp, Released
<1>10. ASSUME NEW t \in Threads, LoopSteps(t) PROVE power[e] = "enabled"
  BY <1>0, <1>10 DEF LoopSteps, LoopCycle, LoopRaises, LoopHandles, LoopStops, LoopFinally,
     SafeOp, IgnoredReleased, Released
<1>11. CASE DriveSteps
  BY <1>0, <1>11 DEF DriveSteps, DriveArrives, DriveDrops, DriveSags, BusFallsBack,
     LeaveDrive
<1>12. CASE UNCHANGED vars
  BY <1>12 DEF vars
<1>13. QED
  BY <1>1, <1>2, <1>3, <1>4, <1>5, <1>6, <1>7, <1>8, <1>9, <1>10, <1>11, <1>12
     DEF Next, HandlerSteps

\* Once preparation has completed, a homed axis that loses power is never energised again.
THEOREM NeverReenergised == Spec => NoReenergise
<1>1. HandoffInv /\ [Next]_vars =>
        [ControlMode = "homing_csp" /\ deferred_csp_prepared
           => \A d \in RequiredHoming : power'[d] = "enabled" => power[d] = "enabled"]_vars
  BY NoPowerGain
<1>2. QED
  BY <1>1, HandoffInvariant, PTL DEF Spec, NoReenergise

-----------------------------------------------------------------------------
(* The hold during the handoff.                                            *)

\* From the capture to the first PDO, a homed drive that was at rest and is still
\* enabled has no motion outstanding and has not left its captured position.
SettledInv ==
  ControlMode = "homing_csp" /\ pc \in EnterPcs
    => \A d \in settled \cap RequiredHoming :
         power[d] = "enabled" => initial_targets[d] = pos[d] /\ goal[d] = NoGoal

LEMMA SettledStep == HandoffInv /\ SettledInv /\ [Next]_vars => SettledInv'
<1> SUFFICES ASSUME HandoffInv, SettledInv, [Next]_vars, ControlMode = "homing_csp",
                    pc' \in EnterPcs, NEW e \in settled' \cap RequiredHoming,
                    power'[e] = "enabled"
             PROVE  initial_targets'[e] = pos'[e] /\ goal'[e] = NoGoal
  BY DEF SettledInv
<1> DEFINE Held == initial_targets'[e] = pos'[e] /\ goal'[e] = NoGoal
<1> SUFFICES Held
  OBVIOUS
<1> USE DEF EnterPcs, driveVars, enterVars
<1>0. /\ power \in [Drives -> PowerStates] /\ power' \in [Drives -> PowerStates]
      /\ goal \in [Drives -> Counts \cup {NoGoal}]
      /\ pos \in [Drives -> Counts]
      /\ pc = "enter_hold" => todo \subseteq NonHomingCsp
      /\ e \in Drives /\ e \notin NonHomingCsp
  BY TypeStep, HomingSets, DriveSets DEF HandoffInv, TypeInv, TypeOK, EnterKeepsHold
<1>1. ASSUME pc \in EnterPcs, UNCHANGED enterVars, power[e] = "enabled",
             pos'[e] = pos[e], goal'[e] \in {goal[e], NoGoal}
      PROVE  Held
  BY <1>1 DEF SettledInv
<1>2. ASSUME EnterGate PROVE Held
  BY <1>0, <1>2 DEF EnterGate, DefaultTargets
<1>3. ASSUME \/ EnableAll \/ DisableAll \/ GotoHome \/ MoveDrives
             \/ \E d \in Drives : AdjustHomeCounts(d)
             \/ HomeOne \/ HomeAll \/ HomeTcp \/ HomeMissingDrive \/ SetCurrentArmHome
             \/ SetCspTargets \/ ExitCsp
      PROVE  FALSE
  BY <1>3 DEF EnableAll, DisableAll, GotoHome, MoveDrives, AdjustHomeCounts, HomeOne, HomeAll,
     HomeTcp, HomeMissingDrive, SetCurrentArmHome, SetCspTargets, ExitCsp, Begin
<1>4. ASSUME NEW d \in Drives,
             EnableDrive(d) \/ DisableDrive(d) \/ GotoHomeDrive(d) \/ RezeroDrive(d)
      PROVE  FALSE
  BY <1>4 DEF EnableDrive, DisableDrive, GotoHomeDrive, RezeroDrive, Advance, Abandon
<1>5. ASSUME NEW id \in Ids, HomeDrive(id) PROVE FALSE
  BY <1>5 DEF HomeDrive, HomePcs, AfterHoming, Abandon
<1>6. ASSUME ReferenceSpurGear \/ EnterActivateRaises \/ ExitJoined \/ ExitFinish PROVE FALSE
  BY <1>6 DEF ReferenceSpurGear, EnterActivateRaises, LeaveEnter, Abandon, ExitJoined,
     ExitFinish
<1>7. ASSUME NEW t \in Threads, EnterActivate(t) PROVE FALSE
  BY <1>7 DEF EnterActivate, LeaveEnter, Abandon
<1>8. ASSUME NEW d \in Drives, EnterEnableDrive(d) PROVE Held
  <2>1. pc = "enter_hold" /\ d # e
    BY <1>0, <1>8 DEF EnterEnableDrive, IsNext
  <2>2. UNCHANGED enterVars /\ UNCHANGED pos
    BY <1>8 DEF EnterEnableDrive, LeaveEnter, Abandon
  <2>3. power'[e] = power[e] /\ goal'[e] = goal[e]
    BY <1>0, <1>8, <2>1 DEF EnterEnableDrive, SequenceFails, LeaveDrive
  <2>4. QED
    BY <1>1, <2>1, <2>2, <2>3
<1>9. ASSUME NEW d \in Drives, EnterSelectDrive(d) PROVE Held
  <2>1. pc \in EnterPcs /\ UNCHANGED enterVars
    BY <1>9 DEF EnterSelectDrive
  <2>2. power[e] = "enabled" /\ goal'[e] \in {goal[e], NoGoal}
    BY <1>0, <1>9 DEF EnterSelectDrive, LeaveDrive
  <2>3. goal[e] = NoGoal
    BY <2>1, <2>2 DEF SettledInv
  <2>4. pos'[e] = pos[e]
    BY <1>0, <1>9, <2>3 DEF EnterSelectDrive
  <2>5. QED
    BY <1>1, <2>1, <2>2, <2>4
<1>10. ASSUME EnterRaises \/ EnterConfigure \/ EnterPrepare \/ EnterMapPdos \/ EnterArm
       PROVE  Held
  <2>1. pc \in EnterPcs /\ UNCHANGED driveVars
    BY <1>10 DEF EnterRaises, EnterConfigure, EnterPrepare, EnterMapPdos, EnterArm
  <2>2. UNCHANGED enterVars
    BY <1>10 DEF EnterRaises, EnterConfigure, EnterPrepare, EnterMapPdos, EnterArm,
       LeaveEnter, Abandon
  <2>3. QED
    BY <1>1, <2>1, <2>2
<1>11. ASSUME NEW t \in Threads, LoopSteps(t) PROVE Held
  <2>1. pc \in EnterPcs /\ UNCHANGED enterVars
    BY <1>11 DEF LoopSteps, LoopCycle, LoopRaises, LoopHandles, LoopStops, LoopFinally
  <2>2. UNCHANGED driveVars
    BY <2>1, <1>11 DEF LoopSteps, LoopCycle, LoopRaises, LoopHandles, LoopStops,
       LoopFinally, PdoLockFree
  <2>3. QED
    BY <1>1, <2>1, <2>2
<1>12. ASSUME NEW d \in Drives, DriveArrives(d) \/ DriveDrops(d) \/ DriveSags(d) PROVE Held
  <2>1. pc \in EnterPcs /\ UNCHANGED enterVars
    BY <1>12 DEF DriveArrives, DriveDrops, DriveSags
  <2>2. power[e] = "enabled" /\ goal'[e] \in {goal[e], NoGoal}
    BY <1>0, <1>12 DEF DriveArrives, DriveDrops, DriveSags, LeaveDrive
  <2>3. goal[e] = NoGoal
    BY <2>1, <2>2 DEF SettledInv
  <2>4. pos'[e] = pos[e]
    BY <1>0, <1>12, <2>2, <2>3 DEF DriveArrives, DriveDrops, DriveSags
  <2>5. QED
    BY <1>1, <2>1, <2>2, <2>4
<1>13. CASE BusFallsBack
  BY <1>1, <1>13 DEF BusFallsBack
<1>14. CASE UNCHANGED vars
  BY <1>1, <1>14 DEF vars
<1>15. QED
  BY <1>2, <1>3, <1>4, <1>5, <1>6, <1>7, <1>8, <1>9, <1>10, <1>11, <1>12, <1>13, <1>14
     DEF Next, Requests, HandlerSteps, DriveSteps

\* A drive at rest when enter_csp measured it is commanded no jump by the first PDO.
THEOREM SettledDrivesAreHeld == Spec => []SettledDrivesHeld
<1>1. Init => SettledInv
  BY DEF Init, SettledInv, EnterPcs
<1>2. SettledInv => SettledDrivesHeld
  BY DEF SettledInv, SettledDrivesHeld, EnterPcs
<1>3. QED
  BY <1>1, <1>2, SettledStep, HandoffInvariant, PTL DEF Spec

-----------------------------------------------------------------------------
(* BridgeSession implements CspHandoff.                                    *)

LEMMA ActivatesHeld ==
  ASSUME ControlMode = "homing_csp", HandoffInv, NEW t \in Threads, EnterActivate(t)
  PROVE  HeldAxes = RequiredHoming /\ HeldAxes' = RequiredHoming
<1>1. RequiredHoming \subseteq RequiredCsp /\ RequiredHoming \subseteq Drives
  BY HomingSets, DriveSets
<1>2. \A d \in RequiredHoming : power[d] = "enabled"
  BY <1>1 DEF EnterActivate
<1>3. \A d \in RequiredHoming : power'[d] = "enabled"
  BY <1>1 DEF EnterActivate, IgnoredReleased, RequiredCsp
<1>4. QED
  BY <1>2, <1>3 DEF HeldAxes

LEMMA HandoffRefinedInit == Init => Handoff!Init
<1> SUFFICES ASSUME Init PROVE Handoff!Init
  OBVIOUS
<1>1. sessionPhase = "homing"
  BY DEF Init, sessionPhase
<1>2. Armed = FALSE
  BY DriveSets DEF Init, Armed
<1>3. HeldAxes = {}
  BY DriveSets DEF Init, HeldAxes
<1>4. QED
  BY <1>1, <1>2, <1>3 DEF Handoff!Init

LEMMA HandoffRefinedStep ==
  ASSUME ControlMode = "homing_csp", HandoffInv, HandoffInv', [Next]_vars
  PROVE  [Handoff!Next]_Handoff!vars
<1>1. /\ deferred_csp_prepared \in BOOLEAN /\ deferred_csp_prepared' \in BOOLEAN
      /\ csp_active \in BOOLEAN /\ csp_active' \in BOOLEAN
  BY DEF HandoffInv, TypeInv, TypeOK
<1>2. /\ Armed \in BOOLEAN /\ Armed' \in BOOLEAN
      /\ HeldAxes \in SUBSET RequiredHoming /\ HeldAxes' \in SUBSET RequiredHoming
  BY DEF Armed, HeldAxes
<1>3. /\ csp_active => deferred_csp_prepared
      /\ deferred_csp_prepared => Armed
      /\ csp_active' => deferred_csp_prepared'
      /\ deferred_csp_prepared' => Armed'
  BY DEF HandoffInv, PreparedInOrder
<1>4. deferred_csp_prepared => HeldAxes' \subseteq HeldAxes
  BY NoPowerGain DEF HeldAxes
<1>5. CASE deferred_csp_prepared' # deferred_csp_prepared
  <2>1. EnterMapPdos
    BY <1>5, PhaseSteps
  <2>2. /\ ~deferred_csp_prepared /\ deferred_csp_prepared' /\ ~csp_active /\ ~csp_active'
        /\ pc = "enter_hold"
    BY <1>1, <1>3, <1>5, <2>1 DEF EnterMapPdos, busVars
  <2>3. Armed /\ Armed'
    BY <1>3, <2>2 DEF HandoffInv, PreparedInOrder, EnterPcs
  <2>4. HeldAxes' = HeldAxes
    BY <2>1 DEF EnterMapPdos, driveVars, HeldAxes
  <2>5. sessionPhase = "homing" /\ sessionPhase' = "prepared"
    BY <2>2 DEF sessionPhase
  <2>6. Handoff!CompletePreparation
    BY <1>2, <2>3, <2>4, <2>5 DEF Handoff!CompletePreparation
  <2>7. QED
    BY <2>6 DEF Handoff!Next
<1>6. CASE ~deferred_csp_prepared /\ ~deferred_csp_prepared'
  <2>1. sessionPhase = "homing" /\ sessionPhase' = "homing"
    BY <1>1, <1>3, <1>6 DEF sessionPhase
  <2>2. Handoff!SdoWork
    BY <1>2, <2>1 DEF Handoff!SdoWork
  <2>3. QED
    BY <2>2 DEF Handoff!Next
<1>7. CASE deferred_csp_prepared /\ deferred_csp_prepared'
  <2>1. Armed' = Armed /\ HeldAxes' \in SUBSET HeldAxes
    BY <1>2, <1>3, <1>4, <1>7
  <2>2. CASE ~csp_active /\ csp_active'
    <3>1. PICK t \in Threads : EnterActivate(t)
      BY <2>2, PhaseSteps
    <3>2. HeldAxes = RequiredHoming /\ HeldAxes' = RequiredHoming
      BY <3>1, ActivatesHeld
    <3>3. sessionPhase = "prepared" /\ sessionPhase' = "csp"
      BY <1>7, <2>2 DEF sessionPhase
    <3>4. Handoff!Activate
      BY <2>1, <3>2, <3>3 DEF Handoff!Activate
    <3>5. QED
      BY <3>4 DEF Handoff!Next
  <2>3. CASE csp_active /\ ~csp_active'
    <3>1. sessionPhase = "csp" /\ sessionPhase' = "prepared"
      BY <1>7, <2>3 DEF sessionPhase
    <3>2. Handoff!Deactivate
      BY <2>1, <3>1 DEF Handoff!Deactivate
    <3>3. QED
      BY <3>2 DEF Handoff!Next
  <2>4. CASE csp_active' = csp_active
    <3>1. sessionPhase # "homing" /\ sessionPhase' = sessionPhase
      BY <1>7, <2>4 DEF sessionPhase
    <3>2. Handoff!LoseHold
      BY <2>1, <3>1 DEF Handoff!LoseHold
    <3>3. QED
      BY <3>2 DEF Handoff!Next
  <2>5. QED
    BY <1>1, <2>2, <2>3, <2>4
<1>8. QED
  BY <1>1, <1>5, <1>6, <1>7

\* A homing_csp bridge implements the one-way handoff of CspHandoff.
THEOREM BridgeImplementsHandoff == ControlMode = "homing_csp" => (Spec => ImplementsHandoff)
<1> SUFFICES ASSUME ControlMode = "homing_csp" PROVE Spec => ImplementsHandoff
  OBVIOUS
<1>1. Init => Handoff!Init
  BY HandoffRefinedInit
<1>2. HandoffInv /\ HandoffInv' /\ [Next]_vars => [Handoff!Next]_Handoff!vars
  BY HandoffRefinedStep
<1>3. QED
  BY <1>1, <1>2, HandoffInvariant, PTL DEF Spec, ImplementsHandoff, Handoff!Spec

=============================================================================
