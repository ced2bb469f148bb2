\* One engine, a BUY in two parts and a SELL; a save of the book may fail.
CONSTANTS
    b1 = b1
    s1 = s1
    e1 = e1
    e2 = e2
    e3 = e3
    Order = {b1, s1}
    Buys = {b1}
    Exec = {e1, e2, e3}
    BaseFee = {}
    OrderOf <- MCOrderOf
    Qty <- MCQty
    Cost <- MCCost
    Reserve <- MCReserve
    Actor = {a1}
    NoActor = NoActor
    Cash0 = 10
    Pos0 = 2
    Faults = {"book"}
SPECIFICATION FairAccSpec
INVARIANTS BooksAddUp
PROPERTIES PlacedOnTrueBooks FillIsAccountedUnlessBlocked
