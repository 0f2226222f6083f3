SPECIFICATION FairSpec
CONSTANTS
  Positions <- ThreePositions
  Targets = {0, 2}
  Spans = {5}
  IkTol = 1
  JointTol = 1
  TcpTol = 1
  Hold = 2
  Depth = 2
  MaxDrops = 1
  MaxShells = 2
  NoFile = NoFile
  MaxKills = 2
INVARIANTS
  TypeOK
  CommandsApproachGoal
PROPERTIES
  ReachedMeansArrived
  
  
  NodeReturns
