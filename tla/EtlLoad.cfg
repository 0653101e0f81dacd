\* Every kind of job: runs break, answers are lost, nothing is skipped or loaded twice.
SPECIFICATION FairSpec
CONSTANTS
  Rows = {1, 2, 3, 4}
  Wm <- Rising
  Key <- Versions
  Jobs <- AllKinds
  BatchSize = 2
  MaxFaults = 2
CHECK_DEADLOCK FALSE
INVARIANTS
  TypeOK
  LoadedOnce
PROPERTIES
  SuccessIsComplete
  EventuallyLoaded
  ImplementsLog
