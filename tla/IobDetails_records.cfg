SPECIFICATION Spec
CONSTANTS
    Threads = {t1, t2, t3}
    NIoDet = 3
    Programs = {"fill", "load"}
    MaxRecords = 2
    MaxStatus = 1
    MaxRounds = 2
SYMMETRY ThreadSymmetry
INVARIANTS
    TypeOK
    ReportExact
    RoundOwn
    NoExtraLine
