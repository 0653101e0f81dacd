\* A paginated job and one that is not, whose runs break anywhere, while
\* readings come late and meters are added.
SPECIFICATION FairSpec
CONSTANTS
  Devices = {1, 2, 3}
  FirstMeters = {1, 2}
  Feed <- Regular
  Late <- OneLate
  Jobs <- Both
  FirstNow = 2
  MaxNow = 4
  MaxFaults = 2
CHECK_DEADLOCK FALSE
INVARIANTS
  TypeOK
  NothingSkipped
PROPERTIES
  CatchesUp
