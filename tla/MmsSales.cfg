\* Two meters over two months of three days: both feeds, resyncs, and a procedure that breaks.
SPECIFICATION Spec
CONSTANTS
  Meters = {1, 2}
  Months = 2
  MonthLength = 3
  Values = {x, y}
  Absent = Absent
  OverlapDays = 1
  BatchSize = 2
  MaxArrivals = 4
SYMMETRY Swaps
INVARIANTS
  TypeOK
  LoadedUpToCheckpoint
  AccountingIsSummed
  SummaryCounts
  RecentActivity
