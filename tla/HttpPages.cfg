\* Lists of up to six records that may grow, and an API that may ignore the pages asked for.
SPECIFICATION FairSpec
CONSTANTS
  pageSize = 2
  maxHTTPPages = 4
  MaxRecords = 6
CHECK_DEADLOCK FALSE
INVARIANTS
  TypeOK
  EndMeansAll
PROPERTIES
  PagingEnds
