SPECIFICATION SubSpec
CONSTANTS
    P1 = P1
    P2 = P2
    t1 = t1
    t2 = t2
    o1 = o1
    o2 = o2
    Process = {P1}
    Task = {t1, t2}
    NoProcess = NoProcess
    ProcOf <- OverlappingCycles
    Order = {o1, o2}
    Buys = {o1}
    NoOrder = NoOrder
    Faults = {}
INVARIANT OneUnresolved
