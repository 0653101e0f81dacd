\* A manual-only job is given trigger times: it is never scheduled.
SPECIFICATION FairSpec
CONSTANTS
  Jobs = {j1}
  NoJob = NoJob
  Workers = {w1}
  Triggers = {}
  Slots = {1}
  DispatchCap = 1
  TimedValues = {TRUE, FALSE}
  MaxRuns = 1
  MaxFires = 0
  MaxManual = 0
  MaxEdits = 1
  MaxCrashes = 0
PROPERTIES
  TimedJobIsScheduled
