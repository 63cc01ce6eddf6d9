SPECIFICATION FairSpec
CONSTANTS
  NFiles = 2
  NThreads = 2
  NIo = 1
  NRep = 1
  HasHeader = FALSE
  Word = 16
INVARIANTS TypeOK StartBarrier OutputQuiescent SemaphoreAccount
PROPERTY Terminates
