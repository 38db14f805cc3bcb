\* A request, the sweep and a due-soon run meet, and one of them may crash.
SPECIFICATION FairSpec
CONSTANTS
  Null = Null
  MaxFaults = 1
  MaxServed = 3
  Meters = {m1}
  Schedules = {s1}
  Tasks = {t1}
  Handlers = {h1}
  Sweeps = {w1}
  Reminders = {k1}
  Readings <- MCSoonReadings
  Intervals <- MCIntervals
  MaxReading = 30
  DueSoonPercent = 10
INVARIANTS
  MarkedWasAlerted
  AlertedOncePerThreshold
PROPERTIES
  DueGetsServed
\* Once the only meter or schedule is deleted little or nothing is left to do.
CHECK_DEADLOCK FALSE
