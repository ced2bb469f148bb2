SPECIFICATION PlSpec
CONSTANTS
    Eng = Eng
    Cmd = Cmd
    c = c
    k = k
    None = None
    NoProcess = NoProcess
    Process = {Eng, Cmd}
    Task = {c, k}
    ProcOf <- Places
    Id = {1, 2}
    Price = {1, 2}
    Book <- Books
    AccountKnown = FALSE
    MaxAge = 0
    AckTimeout = 1
    SessionLife = 1
    SessionOrders = 2
    SessionNotional = 3
    MaxNotional = 2
    MaxBase = 1
    MaxMinted = 2
    Horizon = 1
CHECK_DEADLOCK FALSE
INVARIANTS
    SessionWithinBudget
    SentAsConfirmed
    CoveredWhileSending
    RejectedMeansNotPlaced
