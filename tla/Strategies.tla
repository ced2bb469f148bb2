----------------------------- MODULE Strategies -----------------------------
(****************************************************************************)
(* The four strategies as operators: what evaluate() answers at bar n of a  *)
(* series of candles s, for a position p [qty, avg, anchor].  A candle is   *)
(* a record [open, high, low, close]; prices are integers (units of the     *)
(* last decimal) and an average rounds down, as Money.mulFraction does.     *)
(*                                                                          *)
(* A signal is [side, anchor]: BUY, SELL or HOLD, and the entry anchor a    *)
(* BUY may carry (NoValue: none).  Only the crossover keeps a memory, the   *)
(* last relation of its averages (Cross).                                   *)
(* Left out: the confidence and the wording of a signal's reason.           *)
(****************************************************************************)
EXTENDS Integers, Sequences, Functions, FiniteSetsExt

CONSTANTS
    Fast, Slow, StopLossPct,              \* MovingAverageCrossover
    Lookback,                             \* DonchianBreakout
    Period, DeviationPct,                 \* MeanReversion
    SmaPeriod, Slope, Swing,              \* TrendPullbackRecovery
    PullbackPct, TargetPct,
    Nothing                               \* null

\* What the constructors accept.
CrossoverParams == {Fast, Slow} \subseteq Nat \ {0} /\ Fast < Slow /\ StopLossPct \in 0..100
DonchianParams  == Lookback \in Nat \ {0}
ReversionParams == Period \in Nat \ {0} /\ DeviationPct \in 1..99
PullbackParams  == /\ {SmaPeriod, Slope, Swing} \subseteq Nat \ {0}
                   /\ {PullbackPct, TargetPct} \subseteq 1..99

ASSUME StrategyAssumption ==
    CrossoverParams /\ DonchianParams /\ ReversionParams /\ PullbackParams

Strategy == {"crossover", "donchian", "reversion", "pullback"}

\* warmupCandles
Warmup(strategy) ==
    CASE strategy = "crossover" -> Slow + 1
      [] strategy = "donchian"  -> Lookback + 1
      [] strategy = "reversion" -> Period + 1
      [] strategy = "pullback"  -> Max({SmaPeriod + Slope, Swing + 1})

\* sma over the last k candles up to bar n
Sma(s, n, k) ==
    LET last == (n - k + 1)..n
    IN  SumFunctionOnSet([i \in last |-> s[i].close], last) \div k

Hold == [side |-> "HOLD", anchor |-> Nothing]
Sell == [side |-> "SELL", anchor |-> Nothing]
Buy  == [side |-> "BUY",  anchor |-> Nothing]

----------------------------------------------------------------------------
(* MovingAverageCrossover: leaves on the level, enters on the transition.    *)

FastAbove(s, n) == Sma(s, n, Fast) > Sma(s, n, Slow)

\* stopLossReason: from the average entry price, at the last trade.
Stopped(s, n, p) ==
    /\ StopLossPct > 0 /\ p.avg > 0
    /\ s[n].close <= (p.avg * (100 - StopLossPct)) \div 100

Crossover(s, n, p, cross) ==
    IF p.qty > 0
    THEN IF Stopped(s, n, p) \/ Sma(s, n, Fast) < Sma(s, n, Slow) THEN Sell ELSE Hold
    ELSE IF cross = "not above" /\ FastAbove(s, n) THEN Buy ELSE Hold

\* crossState after bar n: what is not warm leaves it alone.
Cross(s, n, cross) ==
    IF n < Warmup("crossover") THEN cross
    ELSE IF FastAbove(s, n) THEN "above" ELSE "not above"

----------------------------------------------------------------------------
(* DonchianBreakout: the latest close against the closes before it.          *)

Donchian(s, n, p) ==
    LET prior == {s[i].close : i \in (n - Lookback)..(n - 1)} IN
    IF p.qty > 0
    THEN IF s[n].close < Min(prior) THEN Sell ELSE Hold
    ELSE IF s[n].close > Max(prior) THEN Buy ELSE Hold

(* MeanReversion: far enough below the average, and back at it.              *)

Reversion(s, n, p) ==
    LET ma == Sma(s, n, Period) IN
    IF ma <= 0 THEN Hold
    ELSE IF p.qty > 0
    THEN IF s[n].close >= ma THEN Sell ELSE Hold
    ELSE IF (ma - s[n].close) * 100 >= DeviationPct * ma THEN Buy ELSE Hold

----------------------------------------------------------------------------
(* TrendPullbackRecovery.  SwingHighAt: the first of the highest bars before *)
(* n; PullbackLowAt: the last of the lowest bars since.                      *)

SwingHighAt(s, n) ==
    CHOOSE h \in (n - Swing)..(n - 1) :
        \A i \in (n - Swing)..(n - 1) :
            s[i].high < s[h].high \/ (s[i].high = s[h].high /\ h <= i)

PullbackLowAt(s, n) ==
    LET since == SwingHighAt(s, n)..n IN
    CHOOSE l \in since :
        \A i \in since : s[i].low > s[l].low \/ (s[i].low = s[l].low /\ i <= l)

\* entrySignal: a rising trend, a pullback that held above it, and the first bar of
\* the recovery.
Recovery(s, n, ma) ==
    LET low  == s[PullbackLowAt(s, n)].low
        high == s[SwingHighAt(s, n)].high
    IN  /\ ma >= Sma(s, n - Slope, SmaPeriod)
        /\ s[n].close > ma
        /\ SwingHighAt(s, n) < PullbackLowAt(s, n)
        /\ (high - low) * 100 >= PullbackPct * high
        /\ low > ma
        /\ s[n].close > s[n - 1].close
        /\ PullbackLowAt(s, n) = n - 1

\* exitSignal: the target, the frozen anchor, the trend.
Invalidated(s, n, p) == p.anchor # Nothing /\ s[n].close < p.anchor

Pullback(s, n, p) ==
    LET ma == Sma(s, n, SmaPeriod) IN
    IF ma <= 0 THEN Hold
    ELSE IF p.qty > 0
    THEN IF \/ p.avg > 0 /\ s[n].close >= (p.avg * (100 + TargetPct)) \div 100
            \/ Invalidated(s, n, p)
            \/ s[n].close < ma
         THEN Sell ELSE Hold
    ELSE IF Recovery(s, n, ma)
         THEN [side |-> "BUY", anchor |-> s[PullbackLowAt(s, n)].low] ELSE Hold

----------------------------------------------------------------------------
\* evaluate, whatever the strategy: no signal before it is warm.
Evaluate(strategy, s, n, p, cross) ==
    IF n < Warmup(strategy) THEN Hold
    ELSE CASE strategy = "crossover" -> Crossover(s, n, p, cross)
           [] strategy = "donchian"  -> Donchian(s, n, p)
           [] strategy = "reversion" -> Reversion(s, n, p)
           [] strategy = "pullback"  -> Pullback(s, n, p)
=============================================================================
