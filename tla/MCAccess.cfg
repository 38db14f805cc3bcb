SPECIFICATION MCSpec
CONSTANTS
  Null = Null
  Users = {u1}
  Tokens = {1, 2, 3}
  Clients = {c1, c2}
  People = {p1, p2}
  Emails = {e1, e2}
  Invites = {i1}
  Resets = {r1}
  Desks = {d1, d2}
  Visitors = {v1, v2}
  Services = {postgres}
  DailyJobs = {checkLowStock}
  MaxGeneral = 1
  MaxAuth = 1
  Ids = {"x"}
SYMMETRY Symmetry
INVARIANTS
  AccessTypes
  SignedOutIsClosed
  OneSessionPerLogin
  InviteMakesOneAccount
  ResetWorksOnce
  ServedAsDocumented
  CleanShutdown
CHECK_DEADLOCK FALSE
