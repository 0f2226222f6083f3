SPECIFICATION FairSpec
CONSTANTS
  NumDrives = 2
  ControlMode = "homing_csp"
  IgnoreSpur = FALSE
  SkipSpurHoming = TRUE
  Counts = {0}
  NoGoal = NoGoal
  Threads = {t1, t2}
  NoThread = NoThread
  JoinMayTimeOut = FALSE
PROPERTIES
  HandlersReturn
  FailedLoopDeactivates
  ImplementsHandoff
