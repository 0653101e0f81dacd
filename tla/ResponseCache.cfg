\* Two requests at a time over a midnight, while readings land.
SPECIFICATION Spec
CONSTANTS
  Threads = {t1, t2}
  Requests <- MCRequests
  Places = {"a", "b"}
  Params = {"region", "district"}
  None = None
  DayLength = 2
  Short = 1
  Long = 3
  MaxNow = 3
  MaxLanded = 1
SYMMETRY Symmetric
INVARIANTS
  AnswersTheQuestion
  OverIsComplete
