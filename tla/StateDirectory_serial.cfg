SPECIFICATION DirSpec
CONSTANTS
    P1 = P1
    P2 = P2
    P3 = P3
    t1 = t1
    t2 = t2
    t3 = t3
    Process = {P1, P2, P3}
    Task = {t1, t2, t3}
    NoProcess = NoProcess
    ProcOf <- OneTaskEach
    MaxWrites = 3
INVARIANTS
    DirTypeOK
    HolderConsistent
    CrossProcessExclusion
    AtomicAgainstOthers
PROPERTIES
    OwnerKeepsLock
    ImplementsFailClosedLock
