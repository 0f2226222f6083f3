SPECIFICATION FairSpec
CONSTANTS
  Positions <- ThreePositions
  Lower = 0
  Upper = 1
  MaxConns = 3
  MaxSessions = 2
  MaxFaults = 1
  NoConn = NoConn
  Dead = Dead
CHECK_DEADLOCK FALSE
INVARIANTS
  TypeOK
  RepliesAligned
PROPERTIES
  NoStaleSetpoint
  ActivationHolds
  CallReturns
  LossNoticed
