SPECIFICATION Spec
CONSTANTS
  Hotels = {hotel}
  Requests = {r1, r2}
  Exclusive = TRUE
  Admin = admin
  Tours = {t1}
  Bookings = {b1}
  LineIds = {l1, l2, l3}
  Prices = {3}
  Extras = {4}
  Counts = {2}
  NoPrice = NoPrice
  NoGrant = NoGrant
  NoBooking = NoBooking
  Radix = 10
  RefLimit = 9
  Repricing = TRUE
  MaxLog = 5
SYMMETRY Symmetry
INVARIANTS
  TotalIsSum
  HistoryIsWhole
PROPERTIES
  InvoicedMoneyIsFrozen
  ImplementsLedger
CHECK_DEADLOCK FALSE
