SPECIFICATION Spec
CONSTANTS
  bank1 = bank1
  hdfc = hdfc
  bob = bob
  root = root
  d1 = d1
  r1 = r1
  r2 = r2
  Tenants = {bank1, hdfc}
  Names = {"platform", "bank1"}
  Slugs = {"platform", "bank1"}
  NoName = "localhost"
  Platform = "platform"
  Bare = "financeops.com"
  Hosts = {"bank1", "localhost", "financeops.com"}
  InitialDoc <- MCInitialDoc
  InitialPast <- MCInitialPast
  Users = {bob, root}
  TenantOf <- MCTenantOf
  Role <- MCRole
  SignedIn = {bob}
  NoToken = NoToken
  Records = {d1}
  Absent = Absent
  Requests = {r1, r2}
  Routes = {"login", "me", "change"}
  MaxEdits = 1
SYMMETRY RequestSymmetry
INVARIANTS
  TypeOK
  Isolation
  GateKept
  StrictOrder
CHECK_DEADLOCK FALSE
