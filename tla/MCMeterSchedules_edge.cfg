\* A schedule at the largest reading is resumed.
SPECIFICATION Spec
CONSTANTS
  Null = Null
  MaxFaults = 0
  MaxServed = 3
  Meters = {m1}
  Schedules = {s1}
  Tasks = {t1, t2}
  Handlers = {h1}
  Sweeps = {w1}
  Reminders = {}
  Readings <- MCEdgeReadings
  Intervals <- MCIntervals
  MaxReading = 10
  DueSoonPercent = 10
INVARIANTS
  NoTaskPastTheLastThreshold
\* Once the only meter or schedule is deleted little or nothing is left to do.
CHECK_DEADLOCK FALSE
