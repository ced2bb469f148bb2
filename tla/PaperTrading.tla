---------------------------- MODULE PaperTrading ----------------------------
(****************************************************************************)
(* A paper-trading process: PaperEngine's evaluation cycle over the curated *)
(* universe (MarketCoordinator, the moving-average strategy, RiskManager),  *)
(* PaperExecutionEngine's simulated fills, the paper book (Portfolio) and   *)
(* its saved copy (PaperStateStore), through restarts.                      *)
(*                                                                          *)
(* A cycle runs without awaiting anything once start() has loaded the       *)
(* market info, so it is one action; market data moves between cycles.      *)
(* Prices are per symbol; a cached quote is the market's while it is fresh, *)
(* and another one when it is stale.                                        *)
(* Left out: limit orders and a resting reserve (no caller in the engine),  *)
(* external inventory, and the entry anchor, which this strategy has not.   *)
(* Definitions whose name starts with Wrong are deliberate mistakes that no *)
(* action uses; each shows that some property would notice it.              *)
(****************************************************************************)
EXTENDS RiskManager

CONSTANTS
    Symbol,      \* numbers, in the alphabetical order of the symbols
    Quote,       \* the quotes that occur, records [bid, ask, last]
    Trend,       \* how the fast average may stand to the slow one
    Balance,     \* the starting balances
    FeePct, SlippagePct, FillPct, StopPct,
    MaxOrders,   \* bound: no average crosses above another after this many orders
    MaxFaults,   \* bound on failed saves and killed processes
    MaxDay       \* bound on the turns of the UTC day

ASSUME TradingAssumption ==
    /\ Symbol \subseteq Nat /\ IsFiniteSet(Symbol)
    /\ Quote \subseteq [bid : Nat \ {0}, ask : Nat \ {0}, last : Nat \ {0}]
    /\ \A q \in Quote : q.last <= q.ask
    /\ Trend \subseteq {"above", "equal", "below"}
    /\ Balance \cup {MaxOrders, MaxFaults, MaxDay} \subseteq Nat
    /\ {FeePct, SlippagePct, FillPct, StopPct} \subseteq 0..100
    /\ MinOrder * FillPct >= 100    \* no executable order fills nothing

VARIABLES
    price,     \* the market's quote of each symbol
    trend,     \* fast against slow average, over the completed candles
    day,       \* the UTC day
    disk,      \* what PaperStateStore holds: the book and the order ids
    up,        \* does a process run
    known,     \* the symbols whose market info it loaded, and which are eligible
    book,      \* its portfolio
    ids,       \* executedOrderIds: restored, and of this session
    cross,     \* crossState: the strategy's memory of the last trend
    cooling,   \* is the cooldown running
    start,     \* history: the balance to begin with
    orders,    \* history: number of orders recorded
    bought,    \* history: base quantity bought
    paused,    \* history: a losing close, and its cooldown has not passed
    faults     \* history: faults so far

mem   == <<up, known, ids, cross, cooling, paused>>
hist  == <<start, orders, bought, faults>>
world == <<price, trend, day>>
trVars == <<world, disk, mem, book, hist>>

Flat == [qty |-> 0, basis |-> 0, avg |-> 0]
Position == [qty : Nat, basis : Int, avg : Int]

PaperBook ==
    [cash : Int, pos : [Symbol -> Position], realized : Int, today : Int,
     dayKey : 0..MaxDay, peak : Int, fills : SUBSET Nat]

NewBook(cash) ==
    [cash |-> cash, pos |-> [s \in Symbol |-> Flat], realized |-> 0, today |-> 0,
     dayKey |-> 0, peak |-> cash, fills |-> {}]

TrTypeOK ==
    /\ price \in [Symbol -> Quote]
    /\ trend \in [Symbol -> Trend]
    /\ day \in 0..MaxDay
    /\ disk.book \in PaperBook /\ disk.ids \subseteq 1..orders
    /\ up \in BOOLEAN
    /\ known \subseteq Symbol
    /\ book \in PaperBook
    /\ ids \subseteq 1..orders
    /\ cross \in [Symbol -> {"unknown", "above", "not above"}]
    /\ cooling \in BOOLEAN /\ paused \in BOOLEAN
    /\ {orders, bought} \subseteq Nat
    /\ faults \in 0..MaxFaults
    /\ start \in Balance

NoCross == [s \in Symbol |-> "unknown"]

TrInit ==
    /\ price \in [Symbol -> Quote]
    /\ trend \in [Symbol -> Trend]
    /\ day = 0
    /\ start \in Balance
    /\ disk = [book |-> NewBook(start), ids |-> {}]
    /\ up = FALSE /\ known = {} /\ book = NewBook(start) /\ ids = {}
    /\ cross = NoCross /\ cooling = FALSE /\ paused = FALSE
    /\ orders = 0 /\ bought = 0 /\ faults = 0

----------------------------------------------------------------------------
(* The paper book *)

Sum(f) == FoldFunction(+, 0, f)

\* equityOf: positions at cost; markToMarket: at the last trade.
AtCost(b)        == b.cash + Sum([s \in Symbol |-> b.pos[s].basis])
Exposure(b, pr)  == Sum([s \in Symbol |-> b.pos[s].qty * pr[s].last])
Equity(b, pr)    == b.cash + Exposure(b, pr)
Unrealized(b, pr) == Sum([s \in Symbol |-> b.pos[s].qty * (pr[s].last - b.pos[s].avg)])
TodayPnl(b)      == IF b.dayKey = day THEN b.today ELSE 0
Open(b)          == {s \in Symbol : b.pos[s].qty > 0}

PeakUpdated(b) == [b EXCEPT !.peak = Max({@, AtCost(b)})]

AfterBuy(b, s, q, p, fee, n) ==
    LET basis == b.pos[s].basis + q * p + fee
        qty   == b.pos[s].qty + q
    IN  PeakUpdated([b EXCEPT !.cash = @ - (q * p + fee),
                              !.pos[s] = [qty |-> qty, basis |-> basis, avg |-> basis \div qty],
                              !.fills = @ \cup {n}])

Realized(b, s, q, p, fee) == q * (p - b.pos[s].avg) - fee

\* Wrong: the fee of a SELL leaves the cash, and not the profit.
WrongAfterSell(b, s, q, p, fee, n) ==
    LET old  == b.pos[s]
        gain == q * (p - b.pos[s].avg)
        left == [old EXCEPT !.qty = @ - q, !.basis = @ - old.avg * q]
    IN  PeakUpdated([b EXCEPT !.cash = @ + q * p - fee,
                              !.pos[s] = IF left.qty = 0 THEN Flat ELSE left,
                              !.realized = @ + gain,
                              !.today = TodayPnl(b) + gain,
                              !.dayKey = day,
                              !.fills = @ \cup {n}])

\* applyFill, the SELL: the average entry price stays, a closed position goes.
AfterSell(b, s, q, p, fee, n) ==
    LET old  == b.pos[s]
        gain == Realized(b, s, q, p, fee)
        left == [old EXCEPT !.qty = @ - q, !.basis = @ - old.avg * q]
    IN  PeakUpdated([b EXCEPT !.cash = @ + q * p - fee,
                              !.pos[s] = IF left.qty = 0 THEN Flat ELSE left,
                              !.realized = @ + gain,
                              !.today = TodayPnl(b) + gain,
                              !.dayKey = day,
                              !.fills = @ \cup {n}])

----------------------------------------------------------------------------
(* What a cycle sees: the cached quotes, those of them that are fresh, and the *)
(* symbols whose candle series is fresh                                        *)

Views ==
    {v \in [quote : [Symbol -> Quote], fresh : SUBSET Symbol, candles : SUBSET Symbol] :
        \A s \in Symbol : s \in v.fresh <=> v.quote[s] = price[s]}

FreshView == [quote |-> price, fresh |-> Symbol, candles |-> Symbol]

\* MovingAverageCrossover.evaluate: level-based exit, transition-based entry.
StopHit(s, v) ==
    LET entry == book.pos[s].avg
    IN  StopPct > 0 /\ entry > 0 /\ v.quote[s].last <= Frac(entry, 100 - StopPct)

\* Wrong: the exit, like the entry, is taken on the transition only.
WrongSignal(s, v) ==
    CASE /\ book.pos[s].qty > 0
         /\ StopHit(s, v) \/ (cross[s] = "above" /\ trend[s] = "below") -> "SELL"
      [] book.pos[s].qty = 0 /\ cross[s] = "not above" /\ trend[s] = "above" -> "BUY"
      [] OTHER -> "HOLD"

Signal(s, v) ==
    CASE book.pos[s].qty > 0 /\ (StopHit(s, v) \/ trend[s] = "below") -> "SELL"
      [] book.pos[s].qty = 0 /\ cross[s] = "not above" /\ trend[s] = "above" -> "BUY"
      [] OTHER -> "HOLD"

\* UNKNOWN_MARKET_INFO and STALE_CANDLES skip a symbol before the strategy sees it.
Evaluated(v) == known \cap v.candles

Crossed(v) ==
    [s \in Symbol |-> IF s \in Evaluated(v)
                      THEN IF trend[s] = "above" THEN "above" ELSE "not above"
                      ELSE cross[s]]

\* Wrong: a position whose quote is stale does not count.
WrongRiskContext(s, v, side) ==
    LET marked == [t \in Symbol |-> IF t \in v.fresh \cup {s} THEN v.quote[t]
                                    ELSE [v.quote[t] EXCEPT !.last = 0]] IN
    [price         |-> IF side = "BUY" THEN v.quote[s].ask ELSE v.quote[s].bid,
     fresh         |-> s \in v.fresh,
     position      |-> book.pos[s].qty,
     value         |-> Equity(book, v.quote),
     exposure      |-> Exposure(book, marked),
     unrealized    |-> Unrealized(book, v.quote),
     realizedToday |-> TodayPnl(book),
     peak          |-> book.peak,
     funding       |-> Max({book.cash, 0}),
     open          |-> Cardinality(Open(book)),
     cooling       |-> cooling]

\* buildRiskContext: another managed position without a fresh quote leaves value
\* and exposure unknown.
RiskContext(s, v, side) ==
    LET valued == Open(book) \ {s} \subseteq v.fresh IN
    [price         |-> IF side = "BUY" THEN v.quote[s].ask ELSE v.quote[s].bid,
     fresh         |-> s \in v.fresh,
     position      |-> book.pos[s].qty,
     value         |-> IF valued THEN Equity(book, v.quote) ELSE NoValue,
     exposure      |-> IF valued THEN Exposure(book, v.quote) ELSE NoValue,
     unrealized    |-> IF valued THEN Unrealized(book, v.quote) ELSE NoValue,
     realizedToday |-> TodayPnl(book),
     peak          |-> book.peak,
     funding       |-> Max({book.cash, 0}),
     open          |-> Cardinality(Open(book)),
     cooling       |-> cooling]

ApprovedQuantity(c, side) == IF side = "SELL" THEN SellQuantity(c) ELSE BuyQuantity(c)

Candidates(v, side) ==
    {s \in Evaluated(v) : /\ Signal(s, v) = side
                          /\ \E c \in {RiskContext(s, v, side)} : ApprovedQuantity(c, side) > 0}

\* relativeSpreadOf: a crossed or locked quote has none, which ranks last.
Spread(q)     == IF q.ask > q.bid THEN q.ask - q.bid ELSE NoValue
Tighter(q, r) == /\ Spread(q) # NoValue
                 /\ Spread(r) # NoValue =>
                        Spread(q) * (r.bid + r.ask) < Spread(r) * (q.bid + q.ask)

\* selectOne: exits before entries, in the order of the symbols; among entries the
\* tightest spread, then the order of the symbols.
Selected(v) ==
    LET sells == Candidates(v, "SELL")
        buys_ == Candidates(v, "BUY")
        best  == {s \in buys_ : \A t \in buys_ : ~Tighter(v.quote[t], v.quote[s])}
    IN  CASE sells # {} -> {Min(sells)}
          [] sells = {} /\ best # {} -> {Min(best)}
          [] OTHER -> {}

----------------------------------------------------------------------------
(* submitMarketOrder *)

Slipped(p, side) == Frac(p, IF side = "BUY" THEN 100 + SlippagePct ELSE 100 - SlippagePct)

\* costExceedsDeployable, at the slipped price and with the fee
Overdraws(q, p, fee) == q * p + fee > Max({book.cash, 0})

\* Wrong: the entry price is read after the fill, which removes a closed position.
WrongLosingClose(b, s, q, p, fee) ==
    LET after == AfterSell(b, s, q, p, fee, 0)
    IN  after.pos[s].avg > 0 /\ q * (p - after.pos[s].avg) - fee < 0

\* armCooldownOnLosingClose
LosingClose(b, s, q, p, fee) == b.pos[s].avg > 0 /\ Realized(b, s, q, p, fee) < 0

\* Wrong: the saved ids are those of this session's orders.
WrongExecutedIds(n) == (ids \ disk.ids) \cup {n}

\* executedOrderIds: the restored ids and this session's, rejected orders included.
ExecutedIds(n) == ids \cup {n}

\* persist: the book and the ids in one file.  A save that fails (the lock is
\* taken, the disk is full) leaves the fill in memory only.
Saved == disk' = [book |-> book', ids |-> ids'] /\ UNCHANGED faults
Persist ==
    \/ Saved
    \/ faults < MaxFaults /\ faults' = faults + 1 /\ UNCHANGED disk

\* A BUY the true cost of which exceeds the quote is recorded, and not filled.
FillBuy(s, q, p) ==
    LET n == orders + 1
        filled == Frac(q, FillPct)
        fee == Frac(filled * p, FeePct)
    IN  /\ IF Overdraws(filled, p, fee)
           THEN UNCHANGED <<book, bought>>
           ELSE /\ book' = AfterBuy(book, s, filled, p, fee, n)
                /\ bought' = bought + filled
        /\ UNCHANGED <<cooling, paused>>

FillSell(s, q, p) ==
    LET n == orders + 1
        filled == Frac(q, FillPct)
        fee == Frac(filled * p, FeePct)
        losing == Realized(book, s, filled, p, fee) < 0 /\ Cooldown
    IN  /\ book' = AfterSell(book, s, filled, p, fee, n)
        /\ cooling' = (cooling \/ (Cooldown /\ LosingClose(book, s, filled, p, fee)))
        /\ paused' = (paused \/ losing)
        /\ UNCHANGED bought

Execute(s, v) ==
    /\ orders' = orders + 1 /\ UNCHANGED start
    /\ ids' = ExecutedIds(orders + 1)
    /\ \E side \in {Signal(s, v)} : \E c \in {RiskContext(s, v, side)} :
          \E q \in {ApprovedQuantity(c, side)}, p \in {Slipped(c.price, side)} :
              IF side = "BUY" THEN FillBuy(s, q, p) ELSE FillSell(s, q, p)
    /\ Persist

----------------------------------------------------------------------------
(* The actions *)

\* evaluateOnce
Cycle(v) ==
    /\ up
    /\ UNCHANGED <<world, up, known>>
    /\ cross' = Crossed(v)
    /\ \E selected \in {Selected(v)} :
          \/ /\ selected = {}
             /\ UNCHANGED <<disk, book, ids, cooling, paused, hist>>
          \/ \E s \in selected : Execute(s, v)

\* A process starts: the saved book, fresh memory; the market info of a symbol may
\* fail to load, or make it ineligible, for the whole session.
Start ==
    /\ ~up
    /\ up' = TRUE
    /\ known' \in SUBSET Symbol
    /\ book' = disk.book /\ ids' = disk.ids
    /\ cross' = NoCross /\ cooling' = FALSE /\ paused' = FALSE
    /\ UNCHANGED <<world, disk, hist>>

Gone ==
    /\ up' = FALSE /\ known' = {} /\ book' = NewBook(start) /\ ids' = {}
    /\ cross' = NoCross /\ cooling' = FALSE /\ paused' = FALSE
    /\ UNCHANGED <<world, start, orders, bought>>

\* stop(): a last save; when it throws, the process is gone all the same.
Stop ==
    /\ up
    /\ \/ disk' = [book |-> book, ids |-> ids] /\ UNCHANGED faults
       \/ faults < MaxFaults /\ faults' = faults + 1 /\ UNCHANGED disk
    /\ Gone

Die ==
    /\ up
    /\ faults < MaxFaults /\ faults' = faults + 1
    /\ UNCHANGED disk
    /\ Gone

CooldownEnds ==
    /\ cooling
    /\ cooling' = FALSE /\ paused' = FALSE
    /\ UNCHANGED <<world, disk, up, known, ids, cross, book, hist>>

PriceMoves ==
    /\ \E s \in Symbol, q \in Quote : price' = [price EXCEPT ![s] = q]
    /\ UNCHANGED <<trend, day, disk, mem, book, hist>>

TrendMoves ==
    /\ \E s \in Symbol, t \in Trend :
          /\ t = "above" => orders < MaxOrders
          /\ trend' = [trend EXCEPT ![s] = t]
    /\ UNCHANGED <<price, day, disk, mem, book, hist>>

DayTurns ==
    /\ day < MaxDay
    /\ day' = day + 1
    /\ UNCHANGED <<price, trend, disk, mem, book, hist>>

TrNext ==
    \/ \E v \in Views : Cycle(v)
    \/ Start \/ Stop \/ Die
    \/ CooldownEnds \/ PriceMoves \/ TrendMoves \/ DayTurns

TrSpec == TrInit /\ [][TrNext]_trVars

\* The timer goes on, polls bring fresh data again and again, and the operator
\* restarts a process that is gone.
FairTrSpec ==
    /\ TrSpec
    /\ WF_trVars(Start)
    /\ SF_trVars(\E v \in {FreshView} : Cycle(v))

----------------------------------------------------------------------------
(* Properties *)

\* The books of paper trading balance: cash never goes below zero, whatever slippage
\* and fees add to what the risk manager estimated; and the profit realized explains
\* how the equity at cost moved, up to what the rounding of the average price loses,
\* less than one unit of quote per unit of base ever bought (PaperExecutionEngine
\* costExceedsDeployable, Portfolio.applyFill).
PaperBooksBalance ==
    \A b \in {book, disk.book} :
        /\ b.cash >= 0
        /\ \A s \in Symbol : b.pos[s].qty >= 0 /\ (b.pos[s].qty = 0 => b.pos[s] = Flat)
        /\ LET lost == start + b.realized - AtCost(b) IN lost >= 0 /\ lost <= bought

\* At the prices of the market a BUY never brings the exposure of the whole managed
\* portfolio beyond the configured share of its value, however many symbols are
\* held and whatever became of their quotes (buildRiskContext, computeBuyCaps).
BuyWithinExposure ==
    [][\A s \in Symbol :
          LET more == book'.pos[s].qty - book.pos[s].qty IN
          up /\ more > 0 =>
             Exposure(book, price) + more * price[s].ask <= Frac(Equity(book, price), ExposurePct)
      ]_trVars

\* After a close that lost money the process buys nothing until the cooldown is over,
\* the position it is about being closed or not (armCooldownOnLosingClose).
PausedAfterLoss == [][up /\ bought' > bought => ~paused]_trVars

\* The order ids saved with a book are at least those of the fills it holds, and no
\* restart, failed save or kill makes a later save forget one that an earlier save
\* knew (executedOrderIds, restoreExecutedOrderIds).
SavedBookKnowsItsOrders ==
    [][disk'.book.fills \subseteq disk'.ids /\ disk.ids \subseteq disk'.ids]_trVars

\* A long whose fast average stays below the slow one is sold down to what the market
\* can execute: no entry of another symbol, no other exit, no gap in the data and no
\* restart keeps it, once the market is among those the process trades
\* (MovingAverageCrossover: a level-based exit cannot strand a position; selectOne).
ExitHappens ==
    \A s \in Symbol :
        <>[](trend[s] = "below" /\ (up => s \in known))
            => <>[](book.pos[s].qty < Max({MinOrder, QtyTick, 1}))
=============================================================================
