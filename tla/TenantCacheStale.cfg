SPECIFICATION Spec
CONSTANTS
  t1 = t1
  t2 = t2
  hdfc = hdfc
  icici = icici
  payments = payments
  l1 = l1
  Tenants = {t1}
  Slugs = {hdfc, icici}
  Domains = {payments}
  NoDomain = NoDomain
  Unborn = Unborn
  Gone = Gone
  Lookup = Lookup
  Empty = Empty
  Readers = {l1}
  MaxRev = 1
  MaxLookups = 1
  Failures = {}
INVARIANT NeverStale
CHECK_DEADLOCK FALSE
