SPECIFICATION MCSpec
CONSTANTS
  Null = Null
  Users = {u1}
  Managers = {u1}
  Tasks = {t1}
  Assets = {a1}
  Items = {i1}
  Assignee <- MCAssignee
  Dates = {d1, d2}
  Types = {"TASK_DUE_SOON", "WARRANTY_EXPIRING", "TASK_OVERDUE", "TASK_CANCELLED", "LOW_STOCK", "OUT_OF_STOCK"}
  Slots = {s1, s2}
  MaxNotices = 2
  Requests = {r1}
  Chores = {c1, c2}
  People = {p1}
  Entries = {s1, s2}
  Wares = {w1, w2}
  Machines = {1, 2}
  Technicians = {1, 2}
  LastTick = 3
  Widths = {1, 2}
  Month = 3
  Dues = {Null, 0, 1}
  Prices = {Null, 1, 2}
  Suppliers = {Null, "s1"}
  Categories = {"ELECTRICAL", "HVAC"}
  Quantities = {0, 1, 2}
  Levels <- MCLevels
  Limits = {1, 2}
SYMMETRY Symmetry
INVARIANTS
  OfficeTypes
  OneUnreadNotice
  MarkedWasTold
  RemindedOncePerDate
  PreferencesKept
  RequestMakesOneTask
  ActiveTasksKeepAsset
  NoneLeftInProgress
  FiguresAgree
CHECK_DEADLOCK FALSE
