SPECIFICATION FilesSpec
CONSTANTS
    P1 = P1
    P2 = P2
    PaperBot = PaperBot
    LiveBot = LiveBot
    Process = {P1, P2}
    Task = {PaperBot, LiveBot}
    NoProcess = NoProcess
    ProcOf <- OneTaskEach
    o0 = o0
    o1 = o1
    o2 = o2
    Order = {o1, o2}
    OldOrder = o0
    Legacy = {"paper", "live"}
    Garbled = {"live"}
    None = None
    MaxTrades = 1
    MaxIncidents = 1
SYMMETRY OrdersAlike
VIEW StillRead
INVARIANTS
    CrossProcessExclusion
    OrdersAreRemembered
    PaperLossIsDetected
    NoFalseAlarm
PROPERTY OrphansStopTrading
CHECK_DEADLOCK FALSE
