SPECIFICATION Spec
CONSTANTS
  Drives = {d0}
  Positions <- FourPositions
  ErrorCounts = 2
  ProgressCounts = 2
  Timeout = 2
  MaxGap = 2
INVARIANTS StillIsReported
PROPERTIES ReportsAreStalls
