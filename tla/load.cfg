CONSTANTS
  None = None
  Threads = {t1, t2}
  Populars = 2
  MaxRequests = 3
SPECIFICATION FairSpec
INVARIANTS NumbersAreTakenOnce ReportAddsUp
PROPERTIES RunEnds
CHECK_DEADLOCK FALSE
