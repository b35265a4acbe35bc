SPECIFICATION Spec
CONSTANTS
  Hotels = {h1, h2}
  Users = {u1, u2}
  Identities = {i1, i2}
  Names <- TwoNames
  Emails = {e1}
  Cvrs = {c1}
  Requests = {r1, r2}
  NoRow = NoRow
  NoIdentity = NoIdentity
  Unused = Unused
  Gone = Gone
  Attempts = 2
  Exclusive = TRUE
  MaxFaults = 1
SYMMETRY Symmetry
INVARIANTS
  SystemsAgree
PROPERTIES
  ReleaseIsComplete
  DisabledStaysOut
CHECK_DEADLOCK FALSE
