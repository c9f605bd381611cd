SPECIFICATION Spec
CONSTANTS
  bank1 = bank1
  bank2 = bank2
  r1 = r1
  r2 = r2
  r3 = r3
  Tenants = {bank1}
  Requests = {r1, r2}
  Limit <- LimitTwo
  Passes = {2}
  WindowLen = 2
  Ttl = 3
  MaxClock = 2
SYMMETRY RequestSymmetry
INVARIANT OnlySurplusRefused
CHECK_DEADLOCK FALSE
