SPECIFICATION Spec
CONSTANTS
  NumDrives = 2
  ControlMode = "homing_csp"
  IgnoreSpur = TRUE
  SkipSpurHoming = TRUE
  Counts = {0}
  NoGoal = NoGoal
  Threads = {t1, t2}
  NoThread = NoThread
  JoinMayTimeOut = TRUE
SYMMETRY ThreadSymmetry
INVARIANTS
  HandoffArmed
  IgnoredDriveUnpowered
  ActiveHasThread
  CyclingIsActive
