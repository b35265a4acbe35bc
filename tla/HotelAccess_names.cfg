SPECIFICATION Spec
CONSTANTS
  Hotels = {h1}
  Users = {u1}
  Identities = {i1}
  Names <- ThreeNames
  Emails = {e1}
  Cvrs = {c1}
  Requests = {r1}
  NoRow = NoRow
  NoIdentity = NoIdentity
  Unused = Unused
  Gone = Gone
  Attempts = 3
  Exclusive = TRUE
  MaxFaults = 0
SYMMETRY Symmetry
INVARIANTS
  NamesMoveOn
CHECK_DEADLOCK FALSE
