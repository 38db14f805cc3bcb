\* Two requests and the nightly sweep race to fire one schedule.
SPECIFICATION Spec
CONSTANTS
  Null = Null
  MaxFaults = 1
  MaxServed = 3
  Meters = {m1}
  Schedules = {s1}
  Tasks = {t1, t2}
  Handlers = {h1, h2}
  Sweeps = {w1}
  Reminders = {}
  Readings <- MCReadings
  Intervals <- MCIntervals
  MaxReading = 25
  DueSoonPercent = 10
INVARIANTS
  TypeOK
  OneOpenTaskPerSchedule
  ThresholdOnGrid
  OneTaskPerThreshold
PROPERTIES
  PausedNeverFires
\* Once the only meter or schedule is deleted little or nothing is left to do.
CHECK_DEADLOCK FALSE
