\* Two actors, a BUY and a SELL; a save of the book or of the ledger may fail.
CONSTANTS
    b1 = b1
    s1 = s1
    e1 = e1
    e2 = e2
    e3 = e3
    Order = {b1, s1}
    Buys = {b1}
    Exec = {e1, e3}
    BaseFee = {}
    OrderOf <- WholeOrderOf
    Qty <- WholeQty
    Cost <- WholeCost
    Reserve <- MCReserve
    Actor = {a1, a2}
    NoActor = NoActor
    Cash0 = 10
    Pos0 = 2
    Faults = {"book", "ledger"}
SYMMETRY ActorSymmetry
SPECIFICATION AccSpec
INVARIANTS CashIsAccounted AccountedOnce
PROPERTY AppliedNeverForgotten
