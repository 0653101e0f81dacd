\* One job: two workers and a manual run race for it while it is edited once and
\* the process may stop at any point.
SPECIFICATION Spec
CONSTANTS
  Jobs = {j1}
  NoJob = NoJob
  Workers = {w1, w2}
  Triggers = {t1}
  Slots = {1}
  DispatchCap = 1
  TimedValues = {TRUE}
  MaxRuns = 3
  MaxFires = 2
  MaxManual = 1
  MaxEdits = 1
  MaxCrashes = 1
SYMMETRY Symmetric
INVARIANTS
  TypeOK
  OneRunPerJob
  NoLeakedLock
  StopReachesOneRun
  CancelledWasStopped
  RunningRowIsLive
PROPERTIES
  RunHistory
