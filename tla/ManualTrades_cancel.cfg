SPECIFICATION ManSpec
CONSTANTS
    i1 = i1
    i2 = i2
    x1 = x1
    None = None
    Intent = {i1}
    BuyIntents = {i1}
    XOrder = {x1}
    Command = {c1}
    Cash0 = 4
    Pos0 = 0
    Overlap = FALSE
    Fits <- MCFits
    Size <- MCSize
    Price <- MCPrice
    Quote <- MCQuote
    Typed <- MCTyped
INVARIANT
    KnownFillIsNotCanceled
CHECK_DEADLOCK FALSE
