SPECIFICATION Spec
CONSTANTS
  Locales = {en, it}
  Products = {p7}
  Sent <- SentDef
  Spaces = Spaces
  Null = Null
  Undefined = Undefined
  NoRow = NoRow
  Requests = {r1}
PROPERTIES
  OmittedFieldsAreKept
CHECK_DEADLOCK FALSE
