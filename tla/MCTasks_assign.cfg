\* Two tasks are created for one technician at a time.
SPECIFICATION Spec
CONSTANTS
  Null = Null
  i1 = i1
  i2 = i2
  Tasks = {t1, t2}
  Items = {i1, i2}
  Technicians = {u1}
  Clients = {c1, c2}
  PartsLists <- MCNoPartsLists
  MaxStock = 0
  MaxCompletions = 1
INVARIANTS
  OneActiveTaskPerTechnician
CHECK_DEADLOCK FALSE
