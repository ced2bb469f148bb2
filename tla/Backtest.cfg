\* Pages of three bars; prices in tenths of a tick; a round trip costs a third.
CONSTANTS
    MaxTrade = 300
    PositionPct = 100
    ExposurePct = 100
    DailyLossPct = 0
    DrawdownPct = 30
    MaxOpen = 1
    Cooldown = FALSE
    TakerPct = 5
    QtyTick = 1
    PriceTick = 10
    MinOrder = 1
    NoValue = NoValue
    Fast = 1
    Slow = 2
    StopLossPct = 30
    Lookback = 2
    Period = 2
    DeviationPct = 10
    SmaPeriod = 4
    Slope = 1
    Swing = 2
    PullbackPct = 20
    TargetPct = 90
    Nothing = Nothing
    Bar = 2
    PageBars = 3
    PageAttempts = 2
    LastBar = 8
    From = {0, 1, 2}
    To = 15
    Quiet = {4}
    Candle <- MCCandle
    SeriesOf <- MCSeriesOf
    InitialCash = 320
    SpreadPct = 10
    SlipPct = 5
SPECIFICATION BtSpec
INVARIANTS NoLookahead TradesExplainTheBook DatasetIsHonest
PROPERTIES InvalidatedLongIsSold
CHECK_DEADLOCK FALSE
