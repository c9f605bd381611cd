SPECIFICATION Spec
CONSTANTS
  bank1 = bank1
  clerk = clerk
  root = root
  b1 = b1
  b2 = b2
  c1 = c1
  c2 = c2
  Platform = Platform
  NoTenant = NoTenant
  NoToken = NoToken
  Tenants = {bank1, Platform}
  Users = {clerk, root}
  Supers = {root}
  Leavers = {clerk}
  Tabs = {b1, b2}
  Calls = {c1, c2}
  TenantOf <- TenantOfUsers
  TabOf <- TabOfCalls
  Sites <- AllSites
  MaxSends = 3
  AccessLife = 1
  RefreshLife = 2
INVARIANTS
  TypeOK
  OneIdentity
  DeactivationBites
PROPERTIES
  SessionEndsForAReason
  LandsInOwnTenant
  AnsweredEventually
