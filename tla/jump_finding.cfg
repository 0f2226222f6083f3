SPECIFICATION Spec
CONSTANTS
  NumDrives = 2
  ControlMode = "homing_csp"
  IgnoreSpur = FALSE
  SkipSpurHoming = TRUE
  Counts = {0, 1}
  NoGoal = NoGoal
  Threads = {t1}
  NoThread = NoThread
  JoinMayTimeOut = FALSE
INVARIANTS
  ActivationNeverJumps
