SPECIFICATION Spec
CONSTANTS
  Hotels = {h1}
  Admin = admin
  Tours = {t1}
  Bookings = {b1}
  LineIds = {l1, l2, l3}
  Requests = {r1, r2}
  Prices = {3}
  Extras <- MCExtras
  Counts = {2}
  NoPrice = NoPrice
  NoGrant = NoGrant
  NoBooking = NoBooking
  Radix = 10
  RefLimit = 9
  Repricing = FALSE
  Exclusive = FALSE
  MaxLog = 4
SYMMETRY Symmetry
INVARIANTS
  TotalIsSum
CHECK_DEADLOCK FALSE
