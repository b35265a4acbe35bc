SPECIFICATION Spec
CONSTANTS
  Languages = {en}
  s1 = s1
  s2 = s2
  title = title
  note = note
  Lists = lists
  Fields = {lists, title, note}
  Stops = {s1, s2}
  Schemas <- MCSchemas
  Conditions <- MCConditions
  Payloads <- MCPayloads
  Routes <- MCRoutes
  Requests = {r1, r2}
  MaxRows = 2
  NoSchema = NoSchema
  NoRow = NoRow
SYMMETRY Symmetry
INVARIANTS
  StopsAreOneList
  FlagsAreCurrent
CHECK_DEADLOCK FALSE
