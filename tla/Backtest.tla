------------------------------ MODULE Backtest ------------------------------
(****************************************************************************)
(* The backtester behind the dataset CandleAcquisition writes: a series of  *)
(* candles, one of the four strategies, the risk manager, and runBacktest's *)
(* loop over the bars (decide at the close, fill at the next bar's open).   *)
(*                                                                          *)
(* The same run is made twice, on `series` and on `other`, a series that is *)
(* the same before bar `cut` and is not the same from there on: what the    *)
(* first run may know before the cut, the second one knows too.             *)
(* A run is a pure function of its input, so its state after a bar (book,   *)
(* pending order, strategy memory, trades) is one record and a bar is one   *)
(* step.  The bars of a series are of one UTC day.                          *)
(* Left out: the report's statistics (computeMetrics), the list of          *)
(* rejections, fees in another currency than the quote (refused).           *)
(* Definitions whose name starts with Wrong are deliberate mistakes that no *)
(* action uses; each shows that some property would notice it.              *)
(****************************************************************************)
EXTENDS RiskManager, Strategies, CandleAcquisition

CONSTANTS
    Candle,          \* the candles a series is made of, [open, high, low, close]
    SeriesOf(_),     \* the series of a length: bound on the inputs
    InitialCash,
    SpreadPct, SlipPct

\* validateCandles and validateConfig let these through.
ValidCandle(c) ==
    0 < c.low /\ c.low <= c.high /\ {c.open, c.close} \subseteq c.low..c.high
ValidConfig ==
    /\ PriceTick > 0 /\ QtyTick > 0
    /\ {InitialCash, SlipPct} \subseteq Nat
    /\ SpreadPct \in {2 * k : k \in 0..50}

ASSUME BacktestAssumption ==
    /\ ValidConfig
    /\ Candle \subseteq [open : Nat, high : Nat, low : Nat, close : Nat]
    /\ \A c \in Candle : ValidCandle(c)
    /\ \A m \in 1..LastBar : SeriesOf(m) \subseteq [1..m -> Candle]

VARIABLES
    strategy,        \* the strategy tried
    series, other,   \* the two series
    cut,             \* the first bar on which they differ
    bar,             \* the bars done so far, the same number in both runs
    run, twin        \* the state of the two runs

btVars  == <<strategy, series, other, cut, bar, run, twin>>
allVars == <<acqVars, btVars>>

None == [side |-> "NONE", qty |-> 0, anchor |-> Nothing, at |-> 0]

Fresh ==
    [book |-> [cash |-> InitialCash, qty |-> 0, basis |-> 0, avg |-> 0,
               anchor |-> Nothing, realized |-> 0, peak |-> InitialCash],
     pending |-> None, cross |-> "unknown", trades |-> <<>>]

BtInit ==
    /\ AcqInit
    /\ strategy \in Strategy
    /\ series = <<>> /\ other = <<>> /\ cut = 0
    /\ bar = 0 /\ run = Fresh /\ twin = Fresh

----------------------------------------------------------------------------
(* fill.ts and fee.ts *)

CeilTo(x, step)  == IF x % step = 0 THEN x ELSE (x \div step + 1) * step
FloorTo(x, step) == (x \div step) * step

\* computeFillPrice: half the spread and the slippage, against the trader; a BUY
\* rounds up to the tick, a SELL down.
FillPrice(open, side) ==
    LET cost == SlipPct + SpreadPct \div 2
    IN  IF side = "BUY" THEN CeilTo(Frac(open, 100 + cost), PriceTick)
                        ELSE FloorTo(Frac(open, 100 - cost), PriceTick)

Fee(notional) == Frac(notional, TakerPct)

----------------------------------------------------------------------------
(* Portfolio.applyFill *)

WithPeak(b) == [b EXCEPT !.peak = Max({@, b.cash + b.basis})]

\* Only the BUY that opens a position sets its anchor.
Bought(b, q, p, anchor) ==
    LET basis == b.basis + q * p + Fee(q * p)
        qty   == b.qty + q
    IN  WithPeak([b EXCEPT !.cash = @ - (q * p + Fee(q * p)),
                           !.qty = qty, !.basis = basis, !.avg = basis \div qty,
                           !.anchor = IF b.qty = 0 THEN anchor ELSE @])

Sold(b, q, p) ==
    LET left == b.qty - q IN
    WithPeak([b EXCEPT !.cash = @ + q * p - Fee(q * p),
                       !.qty = left,
                       !.basis = IF left = 0 THEN 0 ELSE @ - b.avg * q,
                       !.avg = IF left = 0 THEN 0 ELSE @,
                       !.anchor = IF left = 0 THEN Nothing ELSE @,
                       !.realized = @ + q * (p - b.avg) - Fee(q * p)])

----------------------------------------------------------------------------
(* executePending *)

\* The checks at fill time: nothing is sized again, an order is filled or dropped.
Refused(b, o, open) ==
    LET p == FillPrice(open, o.side) IN
    \/ p <= 0
    \/ o.qty <= 0 \/ o.qty % QtyTick # 0 \/ o.qty < MinOrder
    \/ o.side = "BUY" /\ o.qty * p + Fee(o.qty * p) > Max({b.cash, 0})
    \/ o.side = "SELL" /\ o.qty > b.qty

\* Wrong: the position is anchored at the low of the bar that fills it.
WrongFilled(r, candle, n) ==
    LET o == r.pending
        p == FillPrice(candle.open, o.side)
    IN  IF o = None \/ Refused(r.book, o, candle.open)
        THEN [r EXCEPT !.pending = None]
        ELSE [r EXCEPT !.pending = None,
                 !.book = IF o.side = "BUY" THEN Bought(@, o.qty, p, candle.low)
                                            ELSE Sold(@, o.qty, p),
                 !.trades = Append(@, [side |-> o.side, qty |-> o.qty, price |-> p,
                                       signal |-> o.at, bar |-> n])]

\* Step 1 of a bar: the pending order at the open.
Filled(r, candle, n) ==
    LET o == r.pending
        p == FillPrice(candle.open, o.side)
    IN  IF o = None \/ Refused(r.book, o, candle.open)
        THEN [r EXCEPT !.pending = None]
        ELSE [r EXCEPT !.pending = None,
                 !.book = IF o.side = "BUY" THEN Bought(@, o.qty, p, o.anchor)
                                            ELSE Sold(@, o.qty, p),
                 !.trades = Append(@, [side |-> o.side, qty |-> o.qty, price |-> p,
                                       signal |-> o.at, bar |-> n])]

----------------------------------------------------------------------------
(* The decision at the close *)

\* buildRiskContext: everything at the close, fresh, and no cooldown is ever armed.
Context(b, price) ==
    [price         |-> price,
     fresh         |-> TRUE,
     position      |-> b.qty,
     value         |-> b.cash + b.qty * price,
     exposure      |-> b.qty * price,
     unrealized    |-> b.qty * (price - b.avg),
     realizedToday |-> b.realized,
     peak          |-> b.peak,
     funding       |-> Max({b.cash, 0}),
     open          |-> IF b.qty > 0 THEN 1 ELSE 0,
     cooling       |-> FALSE]

Approved(b, side, price) ==
    CASE side = "BUY"  -> BuyQuantity(Context(b, price))
      [] side = "SELL" -> SellQuantity(Context(b, price))
      [] side = "HOLD" -> 0

\* Wrong: the strategy is shown the bar that is to fill its order.
WrongSeen(s, n) == IF n < Len(s) THEN n + 1 ELSE n

\* buildStrategyContext: the completed bars, this one included, never beyond.
Seen(s, n) == n

\* Wrong: no exit is decided on a bar that an order filled at.
WrongDecided(r, s, n) ==
    LET signal == Evaluate(strategy, s, Seen(s, n), r.book, r.cross)
        qty == IF r.trades # <<>> /\ r.trades[Len(r.trades)].bar = n
               THEN 0 ELSE Approved(r.book, signal.side, s[n].close)
    IN  [r EXCEPT !.cross = IF strategy = "crossover" THEN Cross(s, Seen(s, n), @) ELSE @,
                  !.pending = IF qty = 0 THEN None
                              ELSE [side |-> signal.side, qty |-> qty,
                                    anchor |-> signal.anchor, at |-> n]]

\* Step 2 of a bar: strategy, then risk manager; an approved order is pending with the
\* quantity and the anchor of this bar.
Decided(r, s, n) ==
    LET signal == Evaluate(strategy, s, Seen(s, n), r.book, r.cross)
        qty == Approved(r.book, signal.side, s[n].close)
    IN  [r EXCEPT !.cross = IF strategy = "crossover" THEN Cross(s, Seen(s, n), @) ELSE @,
                  !.pending = IF qty = 0 THEN None
                              ELSE [side |-> signal.side, qty |-> qty,
                                    anchor |-> signal.anchor, at |-> n]]

AfterBar(r, s, n) == Decided(Filled(r, s[n], n), s, n)

----------------------------------------------------------------------------
(* The actions *)

Acquire == AcqNext /\ UNCHANGED btVars

\* backtestCommand, on the file of an acquisition that is long over: refused unless
\* the series is longer than the strategy's warm-up.
Load ==
    /\ outcome = "written"
    /\ Cardinality(file) > Warmup(strategy)
    /\ series' \in SeriesOf(Cardinality(file))
    /\ \E k \in 1..Cardinality(file), c \in Candle :
          /\ c # series'[k]
          /\ other' = [i \in 1..Cardinality(file) |-> IF i < k THEN series'[i] ELSE c]
          /\ cut' = k
    /\ outcome' = "loaded"
    /\ from' = 0 /\ market' = {} /\ filter' = "" /\ pages' = <<>> /\ attempt' = 0
    /\ best' = {} /\ file' = {} /\ warned' = FALSE
    /\ UNCHANGED <<strategy, bar, run, twin>>

Step ==
    /\ outcome = "loaded" /\ bar < Len(series)
    /\ bar' = bar + 1
    /\ run'  = AfterBar(run, series, bar + 1)
    /\ twin' = AfterBar(twin, other, bar + 1)
    /\ UNCHANGED <<acqVars, strategy, series, other, cut>>

BtNext == Acquire \/ Load \/ Step

BtSpec == BtInit /\ [][BtNext]_allVars

----------------------------------------------------------------------------
(* Properties *)

\* A backtest never looks ahead: two histories that are the same up to a bar leave the
\* same book, the same trades and the same pending order there, whatever they become
\* (engine.ts, "Convention (no lookahead)").
NoLookahead == bar < cut => run = twin

\* What a trade takes from the cash, and brings to the position.
Paid(x)  == IF x.side = "BUY" THEN x.qty * x.price + Fee(x.qty * x.price)
                              ELSE Fee(x.qty * x.price) - x.qty * x.price
Moved(x) == IF x.side = "BUY" THEN x.qty ELSE -x.qty

TotalPaid(t)  == SumFunctionOnSet([i \in DOMAIN t |-> Paid(t[i])], DOMAIN t)
TotalMoved(t) == SumFunctionOnSet([i \in DOMAIN t |-> Moved(t[i])], DOMAIN t)

\* The trades of a report explain its book: cash and position are those of the trades
\* at their prices and fees, never below zero, whatever the open, the spread and the
\* slippage made of an order approved at the close before; each fills at the bar after
\* its signal; and a position held by the pullback strategy keeps the anchor of that
\* signal (executePending, Portfolio.applyFill).
TradesExplainTheBook ==
    LET b == run.book
        t == run.trades
    IN  /\ b.cash = InitialCash - TotalPaid(t) /\ b.cash >= 0
        /\ b.qty = TotalMoved(t) /\ b.qty >= 0
        /\ \A i \in DOMAIN t : t[i].bar = t[i].signal + 1
        /\ b.qty > 0 /\ strategy = "pullback" =>
              b.anchor = series[t[Len(t)].signal - 1].low

\* A long that closes below the anchor of its entry is sold at the next open: neither
\* a loss gate, nor a fill of the same bar, nor the safety checks of the fill keep it,
\* unless the price that is left rounds down to nothing (TrendPullbackRecovery
\* exitSignal, RiskManager.evaluateSell, executePending).
InvalidatedLongIsSold ==
    [][/\ bar > 0 /\ bar' > bar
       /\ strategy = "pullback" /\ run.book.qty > 0
       /\ Invalidated(series, bar, run.book)
       /\ FillPrice(series[bar + 1].open, "SELL") > 0
       => run'.book.qty = 0]_allVars
=============================================================================
