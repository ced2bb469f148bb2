SPECIFICATION DirSpec
CONSTANTS
    P1 = P1
    P2 = P2
    P3 = P3
    t1 = t1
    t2 = t2
    t3 = t3
    Process = {P1, P2}
    Task = {t1, t2, t3}
    NoProcess = NoProcess
    ProcOf <- TwoTasksInP1
    MaxWrites = 3
PROPERTIES
    ImplementsFailClosedLock
