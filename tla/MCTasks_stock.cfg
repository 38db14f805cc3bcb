\* One request names the same item twice.
SPECIFICATION Spec
CONSTANTS
  Null = Null
  i1 = i1
  i2 = i2
  Tasks = {t1}
  Items = {i1, i2}
  Technicians = {}
  Clients = {c1}
  PartsLists <- MCPartsLists
  MaxStock = 1
  MaxCompletions = 1
INVARIANTS
  StockNeverNegative
CHECK_DEADLOCK FALSE
