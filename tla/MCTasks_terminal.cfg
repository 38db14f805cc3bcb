\* A completed task is sent back to work.
SPECIFICATION Spec
CONSTANTS
  Null = Null
  i1 = i1
  i2 = i2
  Tasks = {t1}
  Items = {i1, i2}
  Technicians = {}
  Clients = {c1}
  PartsLists <- MCNoPartsLists
  MaxStock = 0
  MaxCompletions = 1
PROPERTIES
  TerminalStaysTerminal
CHECK_DEADLOCK FALSE
