\* Two symbols; a fill costs a sixth more than the quote says; one fault.
CONSTANTS
    Symbol = {1, 2}
    Quote <- MCQuote
    Trend = {"above", "below"}
    Balance = {6000, 2700}
    MaxTrade = 2540
    PositionPct = 95
    ExposurePct = 90
    DailyLossPct = 20
    DrawdownPct = 30
    MaxOpen = 2
    Cooldown = TRUE
    TakerPct = 0
    QtyTick = 1
    PriceTick = 1
    MinOrder = 2
    NoValue = NoValue
    FeePct = 6
    SlippagePct = 10
    FillPct = 100
    StopPct = 30
    MaxOrders = 2
    MaxFaults = 1
    MaxDay = 1
SPECIFICATION FairTrSpec
INVARIANTS PaperBooksBalance
PROPERTIES BuyWithinExposure PausedAfterLoss SavedBookKnowsItsOrders ExitHappens
