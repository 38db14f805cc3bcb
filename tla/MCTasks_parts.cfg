\* Two completions compete for two items while the tasks are cancelled, edited and deleted.
SPECIFICATION FairSpec
CONSTANTS
  Null = Null
  i1 = i1
  i2 = i2
  Tasks = {t1}
  Items = {i1, i2}
  Technicians = {u1}
  Clients = {c1, c2}
  PartsLists <- MCPartsLists
  MaxStock = 1
  MaxCompletions = 1
INVARIANTS
  TypeOK
  PartsBalance
  ClosedByItsEndpoint
PROPERTIES
  CompletionsAnswered
CHECK_DEADLOCK FALSE
