\* Under fairness: locks are released, disabled jobs stop, enabled ones get scheduled.
SPECIFICATION FairSpec
CONSTANTS
  Jobs = {j1}
  NoJob = NoJob
  Workers = {w1}
  Triggers = {t1}
  Slots = {1, 2}
  DispatchCap = 1
  TimedValues = {TRUE}
  MaxRuns = 2
  MaxFires = 1
  MaxManual = 1
  MaxEdits = 2
  MaxCrashes = 0
INVARIANTS
  OneScheduler
PROPERTIES
  LockReleased
  DisabledEventuallyStops
  TimedJobIsScheduled
