\* Two overlapping cron runs and a request over a batch of two items.
SPECIFICATION FairSpec
CONSTANTS
  Null = Null
  t1 = t1
  t2 = t2
  Items = {i1, i2}
  MaxReorders = 2
  Clerks = {c1}
  Crons = {k1, k2}
  MaxCrashes = 1
  Configs <- MCBatchConfigs
  Terms <- MCTerms
  Amounts <- MCOneUnit
  IntMin = 0
  IntMax = 1
INVARIANTS
  NoticedAtMostOnce
PROPERTIES
  LowStockGetsReordered
\* Once both items are deleted nothing is left to do in this instance.
CHECK_DEADLOCK FALSE
