SPECIFICATION Spec
CONSTANTS
  NFiles = 1
  NThreads = 3
  NIo = 1
  NRep = 3
  HasHeader = TRUE
  Word = 32
INVARIANTS CompleteFill AbortOnlyOnError FillAccount
PROPERTIES StopIsFinal ImplementsPool
