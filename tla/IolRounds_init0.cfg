SPECIFICATION FairSpec
CONSTANTS
  NFiles = 1
  InitThreads = 0
  MaxThreads = 2
  IncrThreads = 1
  IgnErrors = TRUE
  MaxStatus = 0
  MaxIos = 1
PROPERTY Terminates
CHECK_DEADLOCK FALSE
