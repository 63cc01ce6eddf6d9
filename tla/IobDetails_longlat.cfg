SPECIFICATION Spec
CONSTANTS
    Threads = {t1, t2}
    NIoDet = 2
    Programs = {"load"}
    MaxRecords = 1
    MaxStatus = 1
    MaxRounds = 1
SYMMETRY ThreadSymmetry
INVARIANTS
    LongReported
