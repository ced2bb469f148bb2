SPECIFICATION FairSpec
CONSTANTS
    P1 = P1
    P2 = P2
    t1 = t1
    t2 = t2
    o1 = o1
    o2 = o2
    Process = {P1, P2}
    Task = {t1, t2}
    NoProcess = NoProcess
    ProcOf <- TwoProcesses
    Order = {o1}
    Buys = {o1}
    NoOrder = NoOrder
    Faults = {"save"}
PROPERTIES
    AckedOrderSettles
    SectionEnds
