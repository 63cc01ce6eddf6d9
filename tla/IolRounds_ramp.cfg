SPECIFICATION FairSpec
CONSTANTS
  NFiles = 1
  InitThreads = 1
  MaxThreads = 2
  IncrThreads = 1
  IgnErrors = FALSE
  MaxStatus = 2
  MaxIos = 2
INVARIANTS TypeOK SummaryExact HandShake RoundAccount
PROPERTIES StatusNoUnderflow ImplementsRamp Terminates
