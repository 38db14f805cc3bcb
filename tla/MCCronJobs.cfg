\* Three instances run the generation of due tasks each night.
SPECIFICATION FairSpec
CONSTANTS
  Null = Null
  Instances = {n1, n2, n3}
  Schedules = {s1}
  Intervals <- MCIntervals
  MaxDays = 4
  MaxOverruns = 1
  MaxFaults = 1
INVARIANTS
  TypeOK
  OneRunAtATime
  OneTaskPerDueDate
PROPERTIES
  DueDateServed
\* After the last night nothing is left to do.
CHECK_DEADLOCK FALSE
