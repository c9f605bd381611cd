SPECIFICATION Spec
CONSTANTS
  bank1 = bank1
  hdfc = hdfc
  NoTenant = NoTenant
  Home = bank1
  Tenants = {bank1, hdfc}
  MaxFlights = 3
INVARIANTS
  TypeOK
  ShownIsSelected
  ChosenWhereSent
  SpinnerHasRequest
  UrlFollows
