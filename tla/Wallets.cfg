SPECIFICATION FairSpec
CONSTANTS
  alice = alice
  bob = bob
  r1 = r1
  r2 = r2
  NoUser = NoUser
  Users <- TwoUsers
  Requests <- TwoRequests
  Currencies <- MCCurrencies
  Upper <- MCUpper
  DefaultCurrency = "INR"
  Amounts = {0, 1, 2, 3}
  OpeningBalances = {3}
  TransferAmounts = {2}
  DepositAmounts = {1, 2}
  LedgerMin = 2
  MaxTries = 1
  EntryIds <- MCEntryIds
INVARIANTS
  TypeOK
  LedgerExplainsBalances
  NoOverdraft
  LedgerCurrency
  OutcomeMatchesLedger
PROPERTIES
  AccountsSpec
  AnsweredEventually
CHECK_DEADLOCK FALSE
