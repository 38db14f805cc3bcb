\* Two requests and a cron run race over one item and two reorders.
SPECIFICATION Spec
CONSTANTS
  Null = Null
  t1 = t1
  t2 = t2
  Items = {i1}
  MaxReorders = 2
  Clerks = {c1, c2}
  Crons = {k1}
  MaxCrashes = 1
  Configs <- MCRaceConfigs
  Terms <- MCTerms
  Amounts <- MCAmounts
  IntMin <- MCMinInt
  IntMax = 2
INVARIANTS
  TypeOK
  OneOpenPerItem
  AcksMatchStatus
  StockBalances
PROPERTIES
  ClosedIsFinal
  ImplementsReplenishment
\* Once the only item is deleted nothing is left to do in this instance.
CHECK_DEADLOCK FALSE
