SPECIFICATION Spec
CONSTANTS
    s1 = s1
    f1 = f1
    t1 = t1
    t2 = t2
    Shares = {s1}
    Files = {f1}
    Home <- HomeOne
    Threads = {t1, t2}
    None = None
    MaxRuns = 2
    MaxEdits = 1
    MaxRestarts = 1
SYMMETRY ThreadSymmetry
INVARIANT TypeOK
 
INVARIANT IndexIsCurrent
INVARIANT FreshHashes
CHECK_DEADLOCK FALSE
