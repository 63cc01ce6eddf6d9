SPECIFICATION Spec
CONSTANTS
  NFiles = 2
  NBuckets = 3
  LatDiv = 2
  Parts <- TwoParts
  HaltAt = 2
  MaxLatency = 3
  Verbose = TRUE
  Lats = {1, 3, 9}
  MaxIos = 3
  NRounds = 2
INVARIANTS TypeOK PercentileRight HaltsWhenSlow NoHaltWhenFast
