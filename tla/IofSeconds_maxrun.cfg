SPECIFICATION Spec
CONSTANTS
  Threads = {t1, t2}
  Sec = 2
  MaxTime = 4
  NSEC = 3
  NHeaders = 1
  StartTimes = {0, 5}
  MaxLat = 3
  MaxClock = 18
INVARIANTS TypeOK StopsInTime RowsInStep RowsExact
PROPERTY Terminates
