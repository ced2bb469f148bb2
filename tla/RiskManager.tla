----------------------------- MODULE RiskManager -----------------------------
(****************************************************************************)
(* RiskManager.evaluate as operators: the quantity the risk manager         *)
(* approves for a BUY or a SELL, 0 when it rejects the signal.  A context   *)
(* is what MarketCoordinator.buildRiskContext hands over: amounts are       *)
(* integers (units of the last decimal), NoValue stands for null.           *)
(*                                                                          *)
(* Left out: the reason of a rejection, and the bounded sellTarget, which   *)
(* no caller in the engines sets.                                           *)
(* Definitions whose name starts with Wrong are deliberate mistakes.        *)
(****************************************************************************)
EXTENDS Integers, FiniteSets, FiniteSetsExt

CONSTANTS
    MaxTrade,                   \* notional of one trade, 0: no such cap
    PositionPct, ExposurePct,   \* caps in percent of the portfolio value, 0: none
    DailyLossPct, DrawdownPct,  \* loss gates in percent, 0: off
    MaxOpen,                    \* distinct managed symbols, 0: no limit
    Cooldown,                   \* is a cooldown configured
    TakerPct,                   \* the market's taker fee
    QtyTick, PriceTick, MinOrder,
    NoValue

ASSUME RiskAssumption ==
    /\ {MaxTrade, MaxOpen, MinOrder, PriceTick} \subseteq Nat
    /\ {PositionPct, ExposurePct, DailyLossPct, DrawdownPct, TakerPct} \subseteq 0..100
    /\ Cooldown \in BOOLEAN
    /\ QtyTick \in Nat \ {0}
    /\ NoValue \notin Int

\* fractionOf: mulFraction rounds down, below zero too.
Frac(m, pct) == (m * pct) \div 100

FloorTick(q) == (q \div QtyTick) * QtyTick

\* validateMarketQuantity
Executable(q, price) ==
    /\ q > 0
    /\ q >= MinOrder
    /\ PriceTick > 0 => price % PriceTick = 0

\* evaluate, before the branch on the side: no signal passes an unknown price or a
\* quote that is not fresh.  (The kill switch: startCommand does not start with it.)
Admissible(c) == c.fresh /\ c.price > 0

\* evaluateSell: the whole managed position, floored to the tick, whatever the
\* loss gates say.
SellQuantity(c) ==
    LET q == FloorTick(c.position)
    IN  IF Admissible(c) /\ c.position > 0 /\ Executable(q, c.price) THEN q ELSE 0

\* checkDailyLoss, checkDrawdown, checkCooldown, checkMaxOpenPositions
LossGateOpen(c) ==
    LET loss == -(c.realizedToday + c.unrealized)
    IN  DailyLossPct > 0 /\ loss > 0 => loss < Frac(c.value, DailyLossPct)
DrawdownGateOpen(c) ==
    DrawdownPct > 0 /\ c.peak > 0 => c.value > Frac(c.peak, 100 - DrawdownPct)
CooldownGateOpen(c) == Cooldown => ~c.cooling
OpenGateOpen(c)     == MaxOpen > 0 /\ c.position <= 0 => c.open < MaxOpen

\* computeBuyCaps: what each configured cap leaves; with none configured, nothing.
Caps(c) ==
    LET inBase == (Frac(c.value, PositionPct) \div c.price) - c.position
        caps == {x \in {[on |-> PositionPct > 0, left |-> inBase * c.price],
                        [on |-> ExposurePct > 0, left |-> Frac(c.value, ExposurePct) - c.exposure],
                        [on |-> MaxTrade > 0,    left |-> MaxTrade]} : x.on}
    IN  IF caps = {} THEN {0} ELSE {x.left : x \in caps}

\* evaluateBuy: unknown value or exposure, a closed gate, no room under a cap, an
\* unexecutable quantity or too little quote for it and its fee: nothing.
BuyQuantity(c) ==
    IF /\ Admissible(c)
       /\ c.value # NoValue /\ c.exposure # NoValue
       /\ LossGateOpen(c) /\ DrawdownGateOpen(c) /\ CooldownGateOpen(c) /\ OpenGateOpen(c)
    THEN LET room == Min(Caps(c))
             q == IF room > 0 THEN FloorTick(room \div c.price) ELSE 0
         IN  IF /\ Executable(q, c.price)
                /\ q * c.price + Frac(q * c.price, TakerPct) <= c.funding
             THEN q ELSE 0
    ELSE 0
=============================================================================
