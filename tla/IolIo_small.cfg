SPECIFICATION Spec
CONSTANTS
  Sector = 2
  Kb = 4
  Mb = 8
  Word = 128
  Uint = 16
  SleepTick = 2
  UsPerSec = 3
  NsPerUs = 2
  DefaultSleep = 6
  Params <- SmallParams
  Defitype <- Read4
  Sizes = {3, 8, 10}
  Sleeptms = {1, 7}
  Minoffs = {0, 1}
  Maxoffs = {1, 3}
  Headers = {0, 2}
  Multipliers = {0, 2}
  Maxiosizes = {0, 4}
  MaxTypes = 2
INVARIANTS TypeOK InRegion Aligned BufferFits Whole SleepTime
