SPECIFICATION FairSpec
CONSTANTS
  Drives = {d2, d3}
  Limits = {normal}
  Normal = normal
  NoValue = noValue
  Attempts = 2
  Reads = 2
INVARIANTS
  StallReadsAccounted
PROPERTIES
  TorqueResolves
  ContactResolves
