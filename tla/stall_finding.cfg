SPECIFICATION Spec
CONSTANTS
  Drives = {d0}
  Positions <- FivePositions
  ErrorCounts = 2
  ProgressCounts = 2
  Timeout = 2
  MaxGap = 1
INVARIANTS EveryStallIsEmitted
