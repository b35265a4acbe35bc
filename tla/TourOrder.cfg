SPECIFICATION Spec
CONSTANTS
  Tours = {t1, t2, t3}
  Contents = {c1, c2}
  LastPlace = 1
  Requests = {r1, r2}
  NoRow = NoRow
  NoPlace = NoPlace
SYMMETRY Symmetry
INVARIANTS
  OrderIsGapless
PROPERTIES
  EditsKeepPlaces
  SavesDoAsAsked
CHECK_DEADLOCK FALSE
