SPECIFICATION Spec
CONSTANTS
  u1 = u1
  house = house
  common = common
  a1 = a1
  a2 = a2
  c1 = c1
  c2 = c2
  User = {u1}
  FeeAccount = {house, common}
  Bank = Bank
  Unattributed = Unattributed
  Activity = {a1, a2}
  Amount <- MCAmount
  ValidOn <- MCValidOn
  Reference <- MCReference
  UserId <- MCUserId
  UserOf <- MCUserOf
  Team <- MCTeam
  Returnable = {a2}
  Payable = {u1}
  Fee <- MCFee
  Booking <- MCBooking
  Clerk = {c1, c2}
  Treasurer = {}
  None = None
  MaxTransaction = 3
  MonthLength = 6
  BookingBegin = 2
  BookingEnd = 4
SYMMETRY Clerks
INVARIANTS
  LedgerInv
  TyposAreCaught
  EstimateIsRight
PROPERTIES
  FreshBooksOnce
  ConfirmedIsFinal
  PaidIsUnblocked
CHECK_DEADLOCK FALSE
