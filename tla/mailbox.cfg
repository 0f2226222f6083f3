SPECIFICATION Spec
CONSTANTS
  Drives = {d3}
  Limits = {normal, guard, hold}
  Normal = normal
  NoValue = noValue
  Attempts = 3
  Reads = 2
INVARIANTS TypeOK WokenByOwnOutcome CachedIsApplied NoneStranded
