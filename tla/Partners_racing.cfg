SPECIFICATION PartnersSpec
CONSTANTS
  Hotels = {hotel}
  Requests = {r1, r2}
  Exclusive = FALSE
  Admin = admin
  Tours = {t1}
  Bookings = {b1, b2, b3}
  Worked = {b1}
  LineIds = {l1, l2}
  Prices = {3}
  Extras <- MCExtras
  Counts = {2}
  NoPrice = NoPrice
  NoGrant = NoGrant
  NoBooking = NoBooking
  Radix = 10
  RefLimit = 1
  Repricing = TRUE
  MaxLog = 4
  HotelIds = {h1}
  Users = {u1}
  Identities = {i1, i2}
  Names <- TwoNames
  Taken = {1}
  Emails = {e1}
  Cvrs = {c1}
  NoRow = NoRow
  NoIdentity = NoIdentity
  Unused = Unused
  Gone = Gone
  Attempts = 2
  MaxFaults = 1
SYMMETRY Symmetry
INVARIANTS
  HistoryIsTrue
  MilestonesInOrder
  BillIsSound
  ReferencesInSequence
  
CHECK_DEADLOCK FALSE
