SPECIFICATION Spec
CONSTANTS
  Commands <- SmallCommands
  Word = 64
  Uint = 32
INVARIANTS
    TypeOK
    InRegion
    SameOrApart
    FillsRegion
