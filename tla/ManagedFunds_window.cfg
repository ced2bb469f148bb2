\* The owner takes money away after a command has read the balance again.
SPECIFICATION FundsSpec
CONSTANTS
    b1 = b1
    s1 = s1
    e1 = e1
    e2 = e2
    e3 = e3
    c1 = c1
    Order = {b1, s1}
    Buys = {b1}
    Exec = {e1, e2, e3}
    OrderOf <- MCOrderOf
    Qty <- MCQty
    Cost <- MCCost
    Reserve <- MCReserve
    Command = {c1}
    ManagedCash0 = 3
    OwnCash0 = 2
    OwnBase0 = 1
    MaxDeposits = 2
    LegacyBase = 2
    None = None
    Refused = Refused
    Quiet = TRUE
INVARIANT CoveredWithoutFail
CHECK_DEADLOCK FALSE
