SPECIFICATION Spec
CONSTANTS
  alice = alice
  r1 = r1
  r2 = r2
  r3 = r3
  r4 = r4
  NoUser = NoUser
  Absent = Absent
  Users <- OneUser
  Requests <- FourRequests
  EntryIds <- FourRequests
  Currencies <- OneCurrency
  Upper <- OneUpper
  DefaultCurrency = "INR"
  Amounts = {1, 2}
  OpeningBalances = {0}
  CreateDtos <- NewPayments
  UpdateDtos <- StatusChanges
  Quota = 1
  Months = 2
  MaxInFlight = 2
SYMMETRY RequestSymmetry
INVARIANTS
  TypeOK
  NoDepositWithoutCompletion
  DepositOncePerCompletion
  QuotaOvershoot
  CounterNeverOvercounts
PROPERTY DeletedIsFrozen
CHECK_DEADLOCK FALSE
