SPECIFICATION Spec
CONSTANTS
  Width = 3
  MaxTravel = 8
  Delta <- NegativeDelta
  Tolerance = 1
  Step = 2
  Overshoot = 6
  Sag = 1
  Settle = 2
  Reach = 11
  MaxLosses = 2
INVARIANTS
  TypeOK ZeroWhereIntended LeavesAxisAtZero GuardedFailureStops FailedReferenceReleases
