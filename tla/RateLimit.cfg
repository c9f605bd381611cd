SPECIFICATION Spec
CONSTANTS
  bank1 = bank1
  bank2 = bank2
  r1 = r1
  r2 = r2
  r3 = r3
  Tenants = {bank1, bank2}
  Requests = {r1, r2}
  Limit <- LimitTwoOne
  Passes = {1, 2}
  WindowLen = 2
  Ttl = 3
  MaxClock = 5
SYMMETRY RequestSymmetry
INVARIANTS
  TypeOK
  WindowWithinLimit
  RefusedByOwnTraffic
  CallsWereGranted
CHECK_DEADLOCK FALSE
