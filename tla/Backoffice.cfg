SPECIFICATION Spec
CONSTANTS
  Requests = {r1, r2}
  r1 = r1
  r2 = r2
  m1 = m1
  m2 = m2
  Media = {m1, m2}
  Videos = {m2}
  None = None
  Locales = {en, it}
  en = en
  it = it
  MaxIds = 2
  MaxViews = 1
  NoRow = NoRow
  Viewers = {v1, v2}
  v1 = v1
  v2 = v2
  Window = 1
  MaxClock = 2
  MaxPosts = 2
  e1 = e1
  e2 = e2
  i1 = i1
  h1 = h1
  Emails = {e1, e2}
  Identities = {i1, h1}
  HotelIdentities = {h1}
  Tokens <- TokensDef
  MaxAdmins = 2
  NoIdentity = NoIdentity
  Day = 4
  Minute = 2
  Second = 2
  FirstWeekday = 1
  MonthLengths <- MonthLengthsDef
  MaxExpanded = 20
  NoRule = NoRule
  NoEnd = NoEnd
  Events <- EventsDef
  Pages <- PagesDef
  NoEvent = NoEvent
  Keys = {k1, k2}
  k1 = k1
  k2 = k2
  Codes = {"en", "it"}
  Languages = {"en"}
  Slugs = {s1, s2}
  s1 = s1
  s2 = s2
  Stops = {square, harbour}
  square = square
  harbour = harbour
  Files <- FilesDef
  Found <- FoundDef
  Products = {p7}
  Sent <- SentDef
  account = account
  Spaces = Spaces
  Null = Null
  Undefined = Undefined
SYMMETRY Symmetry
INVARIANTS
  ShownHasContent
  CoverIsAttached
  NoObjectIsLost
  DateAgrees
  ViewsAreKept
  OncePerWindow
  EntryIsEarned
  PagingIsExact
  CatalogComesWhole
  WidgetIsSound
PROPERTIES
  DecisionsStand
  RemovalIsWhole
CHECK_DEADLOCK FALSE
