SPECIFICATION FilesSpec
CONSTANTS
    P1 = P1
    P2 = P2
    PaperBot = PaperBot
    LiveBot = LiveBot
    Process = {P1, P2}
    Task = {PaperBot, LiveBot}
    NoProcess = NoProcess
    ProcOf <- OneTaskEach
    o0 = o0
    o1 = o1
    o2 = o2
    Order = {o1}
    OldOrder = o0
    Legacy = {"live"}
    Garbled = {}
    None = None
    MaxTrades = 1
    MaxIncidents = 1
INVARIANT LiveLossIsDetected
CHECK_DEADLOCK FALSE
