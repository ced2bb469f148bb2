SPECIFICATION ManSpec
CONSTANTS
    i1 = i1
    i2 = i2
    x1 = x1
    None = None
    Intent = {i1, i2}
    BuyIntents = {i1, i2}
    XOrder = {x1}
    Command = {c1}
    Cash0 = 4
    Pos0 = 0
    Overlap = FALSE
    Fits <- MCFits
    Size <- MCSize
    Price <- MCPrice
    Quote <- MCQuote
    Typed <- MCTyped
INVARIANTS
    OrderAccountedOnce
    AccountedOnTruth
    BookMatchesSettlements
PROPERTY
    SettledIsFinalised
CHECK_DEADLOCK FALSE
