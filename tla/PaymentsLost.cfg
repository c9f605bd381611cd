SPECIFICATION Spec
CONSTANTS
  alice = alice
  r1 = r1
  r2 = r2
  r3 = r3
  r4 = r4
  NoUser = NoUser
  Absent = Absent
  Users <- OneUser
  Requests <- ThreeRequests
  EntryIds <- ThreeRequests
  Currencies <- OneCurrency
  Upper <- OneUpper
  DefaultCurrency = "INR"
  Amounts = {1, 2}
  OpeningBalances = {0}
  CreateDtos <- PendingPayments
  UpdateDtos <- StatusChanges
  Quota = 0
  Months = 1
  MaxInFlight = 1
SYMMETRY RequestSymmetry
INVARIANT CompletedIsDeposited
CHECK_DEADLOCK FALSE
