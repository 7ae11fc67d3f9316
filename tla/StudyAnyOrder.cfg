CONSTANTS
  c1 = c1
  c2 = c2
  c3 = c3
  w1 = w1
  w2 = w2
  A = A
  B = B
  NONE = NONE
  Users = {u1, u2}
  Sessions = {s1, s2}
  Events = {e1, e2}
  PatchIds = {p1}
  Requests = {r1, r2}
  Cards = {c1, c2, c3}
  Words = {w1, w2}
  Releases = {A}
  WordOf <- MCWordOf
  ReleaseWords <- MCReleaseWords
  ActiveCards <- MCActiveCards
  LocalKey <- SameNames
  CardOrder <- MCCardOrder
  WordOrder <- MCWordOrder
  GroupSize = 1
  DueLimit = 2
  MaxTime = 0
  TTL = 1
SPECIFICATION Spec
SYMMETRY UsersToo
INVARIANTS TypeOK AnswersMatchLog StateHasRow
PROPERTIES LogAppendOnly AdvancesWithRow IntroducedWhenComplete
