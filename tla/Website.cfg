SPECIFICATION FairSpec
CONSTANTS
  Requests = {r1, r2}
  NoRow = NoRow
  Emails = {e1, e2}
  MaxIssued = 4
  CalmEmails = {e1}
  Keys = {k1, k2}
  Limit = 2
  WindowMs = 3
  MaxTime = 5
  MaxAnswers = 4
  Offers = {p1, p2}
  Versions = {v1, v2}
  MaxOrder = 1
  CalmOffers = {p1}
INVARIANTS
  
  
  WindowIsHonoured
PROPERTIES
  LeavingSticks
  PendingIsMailed
  
  EmptyOfferWithdrawn
CHECK_DEADLOCK FALSE
