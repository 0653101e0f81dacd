\* A page of two rows ends between two readings of one meter and one second.
SPECIFICATION Spec
CONSTANTS
  Devices = {1, 2, 3}
  FirstMeters = {1, 2}
  Feed <- Regular
  Late <- Nothing
  Jobs <- OnlyPages
  FirstNow = 2
  MaxNow = 4
  MaxFaults = 0
CHECK_DEADLOCK FALSE
INVARIANTS
  PagesLoadAll
