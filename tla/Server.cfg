SPECIFICATION Spec
CONSTANTS
  IPs = {ip1}
  Calls = {p1, p2}
  Limit = 2
  Window = 2
  MaxTime = 2
  None = None
INVARIANTS
  TypeOK
  ConnectionInUse
  WithinLimit
PROPERTIES
  RefusedOnlyWhenFull
  ConnectionComesBack
  NobodyWaitsForEver
  ShutdownEnds
