CONSTANTS
  c1 = c1
  c2 = c2
  c3 = c3
  w1 = w1
  w2 = w2
  A = A
  B = B
  NONE = NONE
  Users = {u1}
  Sessions = {s1, s2}
  Events = {e1, e2, e3}
  PatchIds = {}
  Requests = {r1, r2}
  Cards = {c1, c2}
  Words = {w1}
  Releases = {A}
  WordOf <- MCWordOf
  ReleaseWords <- MCReleaseWords
  ActiveCards <- MCActiveCards
  LocalKey <- SameNames
  CardOrder <- MCCardOrder
  WordOrder <- MCWordOrder
  GroupSize = 1
  DueLimit = 2
  MaxTime = 0
  TTL = 1
  Zones <- MCZones
  Clock <- MCClock
  ServedCards <- MCServedCards
  AliasEdges <- MCAliasEdges
  WordOfCard <- MCWordOfCard
  Interval <- MCInterval
  FORECAST_DAYS = 2
  STREAK_LOOKBACK_DAYS = 1
  DIFFICULT_LIMIT = 1
  MaxReviews = 2
SPECIFICATION LogSpec
SYMMETRY Interchangeable
INVARIANT OverviewOnTheCalendar
PROPERTY ImplementsHistory
