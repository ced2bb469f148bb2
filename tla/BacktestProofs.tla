--------------------------- MODULE BacktestProofs ---------------------------
(****************************************************************************)
(* The two ways to trade without money.  What a backtest and its dataset    *)
(* promise, for any history, any of the four strategies and any of their    *)
(* parameters, any spread, slippage, fee, risk limit and page size; and     *)
(* what a paper-trading process promises, through restarts, failed saves    *)
(* and kills, for any set of symbols, quotes, fees and limits.              *)
(*                                                                          *)
(* The argument, of a backtest. A signal is a function of the bars up to    *)
(* the one it is drawn at (EvaluateSame), so two runs on series that are    *)
(* the same up to a bar are in the same state after it. A pending order     *)
(* fits the book it was decided on (Ready): a BUY meets no position and a   *)
(* SELL the whole of it, whatever the next open turns out to be, so every   *)
(* trade adds to the sums what it takes from the book. A page holds the     *)
(* bars of its own range only, and all of them behind its first one         *)
(* (Answered): pages never overlap, and only the first page with bars may   *)
(* lack its head.                                                           *)
(*                                                                          *)
(* The argument, of paper trading.  That the profit explains the equity     *)
(* says nothing of the next SELL: closing a position gives up what the      *)
(* rounding of its average lost.  The invariant keeps these remainders,     *)
(* one for each position, beside what is lost already: together they stay   *)
(* below the base quantity bought (Balanced), in memory and on disk.  The   *)
(* rest is what the coordinator hands over: an approved BUY has a fresh     *)
(* quote for every position (BuyOf), so the exposure it was measured by is  *)
(* the market's.                                                            *)
(****************************************************************************)
EXTENDS Backtest, PaperTrading, Sums, SequenceTheorems

----------------------------------------------------------------------------
(* Extrema *)

\* A finite set of integers that is not empty has a least and a greatest element.
LEMMA Extrema ==
    ASSUME NEW S, IsFiniteSet(S), S # {}, \A x \in S : x \in Int
    PROVE  /\ Min(S) \in S /\ \A x \in S : Min(S) <= x
           /\ Max(S) \in S /\ \A x \in S : x <= Max(S)
<1> DEFINE Least(T) == \E m \in T : \A x \in T : m <= x
           Most(T)  == \E m \in T : \A x \in T : x <= m
           Bad == {T \in SUBSET S : T # {} /\ ~(Least(T) /\ Most(T))}
<1>1. Bad = {}
  <2> SUFFICES ASSUME Bad # {} PROVE FALSE
    OBVIOUS
  <2>1. PICK T \in Bad : \A U \in Bad : U \subseteq T => U = T
    <3>1. Bad \in SUBSET SUBSET S
      OBVIOUS
    <3> HIDE DEF Bad
    <3> QED
      BY <3>1, SmallestSet
  <2>2. PICK x \in T : TRUE
    OBVIOUS
  <2> DEFINE U == T \ {x}
  <2>3. U \in SUBSET S /\ U # T /\ x \in Int /\ \A y \in T : y \in Int
    BY <2>1, <2>2
  <2>4. CASE U = {}
    <3>1. T = {x}
      BY <2>2, <2>4
    <3> QED
      BY <2>1, <2>3, <3>1
  <2>5. CASE U # {}
    <3>1. Least(U) /\ Most(U)
      BY <2>1, <2>3, <2>5
    <3>2. PICK a \in U : \A y \in U : a <= y
      BY <3>1
    <3>3. PICK b \in U : \A y \in U : y <= b
      BY <3>1
    <3>4. Least(T)
      <4>1. CASE x <= a
        BY <2>2, <2>3, <3>2, <4>1
      <4>2. CASE a <= x
        BY <2>2, <2>3, <3>2, <4>2
      <4> QED
        BY <2>3, <4>1, <4>2
    <3>5. Most(T)
      <4>1. CASE b <= x
        BY <2>2, <2>3, <3>3, <4>1
      <4>2. CASE x <= b
        BY <2>2, <2>3, <3>3, <4>2
      <4> QED
        BY <2>3, <4>1, <4>2
    <3> QED
      BY <2>1, <3>4, <3>5
  <2> QED
    BY <2>4, <2>5
<1>2. Least(S) /\ Most(S)
  BY <1>1
<1> QED
  BY <1>2 DEF Min, Max

\* The greater and the lesser of two integers.
LEMMA MaxOfTwo ==
    ASSUME NEW a \in Int, NEW b \in Int
    PROVE  Max({a, b}) \in {a, b} /\ Max({a, b}) >= a /\ Max({a, b}) >= b
<1>1. {a, b} = {a} \cup {b} /\ {a, b} # {} /\ \A x \in {a, b} : x \in Int
  OBVIOUS
<1>2. IsFiniteSet({a, b})
  <2>1. IsFiniteSet({a} \cup {b})
    BY FS_Singleton, FS_AddElement
  <2> QED
    BY <1>1, <2>1
<1>3. /\ Max({a, b}) \in {a, b} /\ \A x \in {a, b} : x <= Max({a, b})
  BY <1>1, <1>2, Extrema
<1> HIDE DEF Max
<1> QED
  BY <1>3

LEMMA MinOfTwo ==
    ASSUME NEW a \in Int, NEW b \in Int
    PROVE  Min({a, b}) \in Int /\ Min({a, b}) \in {a, b} /\ Min({a, b}) <= a /\ Min({a, b}) <= b
<1>1. {a, b} = {a} \cup {b} /\ {a, b} # {} /\ \A x \in {a, b} : x \in Int
  OBVIOUS
<1>2. IsFiniteSet({a, b})
  <2>1. IsFiniteSet({a} \cup {b})
    BY FS_Singleton, FS_AddElement
  <2> QED
    BY <1>1, <2>1
<1>3. /\ Min({a, b}) \in {a, b} /\ \A x \in {a, b} : Min({a, b}) <= x
  BY <1>1, <1>2, Extrema
<1> HIDE DEF Min
<1> QED
  BY <1>3

----------------------------------------------------------------------------
(* What a strategy knows *)

\* Two series that are the same up to bar n.
Same(s, t, n) == \A i \in 1..n : s[i] = t[i]

\* An average over bars that are the same.
LEMMA SmaSame ==
    ASSUME NEW s, NEW t, NEW n \in Nat, Same(s, t, n), NEW k \in Nat \ {0}, k <= n
    PROVE  Sma(s, n, k) = Sma(t, n, k)
<1>1. (n - k + 1)..n \subseteq 1..n
  OBVIOUS
<1>2. [i \in (n - k + 1)..n |-> s[i].close] = [i \in (n - k + 1)..n |-> t[i].close]
  BY <1>1 DEF Same
<1> QED
  BY <1>2 DEF Sma

\* The warm-up covers every bar a strategy looks back to.
LEMMA WarmupBounds ==
    /\ Warmup("crossover") > Slow /\ Warmup("crossover") > Fast
    /\ Warmup("donchian") > Lookback
    /\ Warmup("reversion") > Period
    /\ Warmup("pullback") >= SmaPeriod + Slope /\ Warmup("pullback") > Swing
    /\ \A y \in Strategy : Warmup(y) \in Nat
<1> DEFINE m == Max({SmaPeriod + Slope, Swing + 1})
<1>1. /\ Fast \in Nat /\ Slow \in Nat /\ Fast < Slow /\ Lookback \in Nat /\ Period \in Nat
      /\ SmaPeriod \in Nat /\ Slope \in Nat /\ Swing \in Nat
  BY StrategyAssumption DEF CrossoverParams, DonchianParams, ReversionParams, PullbackParams
<1>2. m \in Nat /\ m >= SmaPeriod + Slope /\ m >= Swing + 1
  <2> HIDE DEF m
  <2>1. m \in {SmaPeriod + Slope, Swing + 1} /\ m >= SmaPeriod + Slope /\ m >= Swing + 1
    BY <1>1, MaxOfTwo DEF m
  <2> QED
    BY <1>1, <2>1
<1>3. /\ Warmup("crossover") = Slow + 1 /\ Warmup("donchian") = Lookback + 1
      /\ Warmup("reversion") = Period + 1 /\ Warmup("pullback") = m
  BY DEF Warmup
<1> HIDE DEF m
<1> QED
  BY <1>1, <1>2, <1>3 DEF Strategy
----------------------------------------------------------------------------
(* The swing of the pullback strategy *)

\* The values a function takes on a finite set.
LEMMA FiniteImage ==
    ASSUME NEW T, IsFiniteSet(T), NEW f
    PROVE  IsFiniteSet({f[x] : x \in T})
<1> DEFINE g == [x \in T |-> f[x]]
<1>1. g \in Surjection(T, {f[x] : x \in T})
  BY DEF Surjection
<1> QED
  BY <1>1, FS_Surjection

\* Among the elements where a function is highest there is a first one.
LEMMA FirstHighest ==
    ASSUME NEW T, IsFiniteSet(T), T # {}, \A x \in T : x \in Int,
           NEW f, \A x \in T : f[x] \in Int
    PROVE  \E h \in T : \A i \in T : f[i] < f[h] \/ (f[i] = f[h] /\ h <= i)
<1> DEFINE V == {f[x] : x \in T}
           H == {x \in T : f[x] = Max(V)}
<1>1. IsFiniteSet(V) /\ V # {} /\ \A v \in V : v \in Int
  BY FiniteImage
<1>2. Max(V) \in V /\ \A v \in V : v <= Max(V)
  <2> HIDE DEF V
  <2> QED
    BY <1>1, Extrema
<1>3. IsFiniteSet(H) /\ H # {} /\ \A x \in H : x \in Int
  BY <1>2, FS_Subset
<1>4. Min(H) \in H /\ \A x \in H : Min(H) <= x
  <2> HIDE DEF H
  <2> QED
    BY <1>3, Extrema
<1>5. \A i \in T : f[i] < f[Min(H)] \/ (f[i] = f[Min(H)] /\ Min(H) <= i)
  <2> HIDE DEF Min, Max
  <2>1. f[Min(H)] = Max(V) /\ Min(H) \in T
    BY <1>4
  <2>3. \A i \in T : f[i] = Max(V) => i \in H
    OBVIOUS
  <2>2. \A i \in T : f[i] <= Max(V) /\ f[i] \in Int /\ Max(V) \in Int
    BY <1>1, <1>2
  <2> HIDE DEF V, H
  <2> QED
    BY <1>4, <2>1, <2>2, <2>3
<1> QED
  BY <1>4, <1>5

\* Among those where it is lowest there is a last one.
LEMMA LastLowest ==
    ASSUME NEW T, IsFiniteSet(T), T # {}, \A x \in T : x \in Int,
           NEW f, \A x \in T : f[x] \in Int
    PROVE  \E l \in T : \A i \in T : f[i] > f[l] \/ (f[i] = f[l] /\ i <= l)
<1> DEFINE V == {f[x] : x \in T}
           H == {x \in T : f[x] = Min(V)}
<1>1. IsFiniteSet(V) /\ V # {} /\ \A v \in V : v \in Int
  BY FiniteImage
<1>2. Min(V) \in V /\ \A v \in V : Min(V) <= v
  <2> HIDE DEF V
  <2> QED
    BY <1>1, Extrema
<1>3. IsFiniteSet(H) /\ H # {} /\ \A x \in H : x \in Int
  BY <1>2, FS_Subset
<1>4. Max(H) \in H /\ \A x \in H : x <= Max(H)
  <2> HIDE DEF H
  <2> QED
    BY <1>3, Extrema
<1>5. \A i \in T : f[i] > f[Max(H)] \/ (f[i] = f[Max(H)] /\ i <= Max(H))
  <2> HIDE DEF Min, Max
  <2>1. f[Max(H)] = Min(V) /\ Max(H) \in T
    BY <1>4
  <2>3. \A i \in T : f[i] = Min(V) => i \in H
    OBVIOUS
  <2>2. \A i \in T : Min(V) <= f[i] /\ f[i] \in Int /\ Min(V) \in Int
    BY <1>1, <1>2
  <2> HIDE DEF V, H
  <2> QED
    BY <1>4, <2>1, <2>2, <2>3
<1> QED
  BY <1>4, <1>5

\* The candles of a series up to bar n.
Candles(s, n) == \A i \in 1..n : s[i] \in Candle

\* Both bars of the swing are among those seen, in the order it asks for.
LEMMA SwingSeen ==
    ASSUME NEW s, NEW n \in Nat, Candles(s, n), n > Swing
    PROVE  /\ SwingHighAt(s, n) \in (n - Swing)..(n - 1)
           /\ PullbackLowAt(s, n) \in SwingHighAt(s, n)..n
           /\ SwingHighAt(s, n) \in 1..n /\ PullbackLowAt(s, n) \in 1..n
<1> DEFINE T == (n - Swing)..(n - 1)
           hi == SwingHighAt(s, n)
           U == hi..n
<1>1. Swing \in Nat \ {0}
  BY StrategyAssumption DEF PullbackParams
<1>2. \A i \in 1..n : s[i].high \in Int /\ s[i].low \in Int
  BY BacktestAssumption DEF Candles
<1>3. hi \in T
  <2> DEFINE f == [i \in T |-> s[i].high]
  <2>6. n - Swing \in T
    BY <1>1
  <2>1. T \subseteq 1..n /\ T # {} /\ \A x \in T : x \in Int
    BY <1>1, <2>6
  <2>5. IsFiniteSet(T)
    BY <1>1, FS_Interval
  <2>2. \A i \in T : f[i] = s[i].high /\ f[i] \in Int
    BY <1>2, <2>1
  <2>3. \E h \in T : \A i \in T : f[i] < f[h] \/ (f[i] = f[h] /\ h <= i)
    <3> HIDE DEF f, T
    <3> QED
      BY <2>1, <2>2, <2>5, FirstHighest
  <2>4. \E h \in T : \A i \in T : s[i].high < s[h].high \/ (s[i].high = s[h].high /\ h <= i)
    <3> HIDE DEF f, T
    <3> QED
      BY <2>2, <2>3
  <2> QED
    BY <2>4 DEF SwingHighAt
<1>4. hi \in 1..n /\ hi \in Int
  BY <1>1, <1>3
<1>5. PullbackLowAt(s, n) \in U
  <2> HIDE DEF hi
  <2> DEFINE f == [i \in U |-> s[i].low]
  <2>1. U \subseteq 1..n /\ U # {} /\ \A x \in U : x \in Int
    BY <1>4
  <2>5. IsFiniteSet(U)
    BY <1>4, FS_Interval
  <2>2. \A i \in U : f[i] = s[i].low /\ f[i] \in Int
    BY <1>2, <2>1
  <2>3. \E l \in U : \A i \in U : f[i] > f[l] \/ (f[i] = f[l] /\ i <= l)
    <3> HIDE DEF f, U
    <3> QED
      BY <2>1, <2>2, <2>5, LastLowest
  <2>4. \E l \in U : \A i \in U : s[i].low > s[l].low \/ (s[i].low = s[l].low /\ i <= l)
    <3> HIDE DEF f, U
    <3> QED
      BY <2>2, <2>3
  <2> QED
    BY <2>4 DEF PullbackLowAt, hi
<1> QED
  BY <1>3, <1>4, <1>5

\* The swing of two series that are the same up to bar n.
LEMMA SwingSame ==
    ASSUME NEW s, NEW t, NEW n \in Nat, Same(s, t, n), Candles(s, n), n > Swing
    PROVE  /\ SwingHighAt(t, n) = SwingHighAt(s, n)
           /\ PullbackLowAt(t, n) = PullbackLowAt(s, n)
<1>1. Swing \in Nat \ {0}
  BY StrategyAssumption DEF PullbackParams
<1>2. \A i \in (n - Swing)..(n - 1) : s[i] = t[i]
  BY <1>1 DEF Same
<1>3. SwingHighAt(t, n) = SwingHighAt(s, n)
  BY <1>2 DEF SwingHighAt
<1>4. \A i \in SwingHighAt(s, n)..n : s[i] = t[i]
  BY <1>1, SwingSeen DEF Same
<1>5. PullbackLowAt(t, n) = PullbackLowAt(s, n)
  BY <1>3, <1>4 DEF PullbackLowAt
<1> QED
  BY <1>3, <1>5
----------------------------------------------------------------------------
(* No strategy looks beyond the bar it decides at *)

\* The memory and the signal of each strategy, on two series that are the same up to n.
LEMMA CrossSame ==
    ASSUME NEW s, NEW t, NEW n \in Nat, Same(s, t, n), NEW memory
    PROVE  Cross(s, n, memory) = Cross(t, n, memory)
<1>1. Warmup("crossover") \in Nat
  <2>1. "crossover" \in Strategy
    BY DEF Strategy
  <2> QED
    BY <2>1, WarmupBounds
<1>2. CASE n < Warmup("crossover")
  BY <1>2 DEF Cross
<1>3. CASE ~(n < Warmup("crossover"))
  <2>1. Fast \in Nat \ {0} /\ Slow \in Nat \ {0} /\ Fast <= n /\ Slow <= n
    BY <1>1, <1>3, WarmupBounds, StrategyAssumption DEF CrossoverParams
  <2>2. Sma(s, n, Fast) = Sma(t, n, Fast) /\ Sma(s, n, Slow) = Sma(t, n, Slow)
    BY <2>1, SmaSame
  <2> QED
    BY <2>2 DEF Cross, FastAbove
<1> QED
  BY <1>2, <1>3

\* MovingAverageCrossover.
LEMMA CrossoverSame ==
    ASSUME NEW s, NEW t, NEW n \in Nat, Same(s, t, n), n >= Warmup("crossover"),
           NEW p, NEW memory
    PROVE  Crossover(s, n, p, memory) = Crossover(t, n, p, memory)
<1>1. Fast \in Nat \ {0} /\ Slow \in Nat \ {0} /\ Fast <= n /\ Slow <= n
  BY WarmupBounds, StrategyAssumption DEF CrossoverParams, Strategy
<1>2. Sma(s, n, Fast) = Sma(t, n, Fast) /\ Sma(s, n, Slow) = Sma(t, n, Slow)
  BY <1>1, SmaSame
<1>3. s[n] = t[n]
  BY <1>1 DEF Same
<1> QED
  BY <1>2, <1>3 DEF Crossover, FastAbove, Stopped

\* DonchianBreakout.
LEMMA DonchianSame ==
    ASSUME NEW s, NEW t, NEW n \in Nat, Same(s, t, n), n >= Warmup("donchian"), NEW p
    PROVE  Donchian(s, n, p) = Donchian(t, n, p)
<1>1. Lookback \in Nat \ {0} /\ n > Lookback
  BY WarmupBounds, StrategyAssumption DEF DonchianParams, Strategy
<1>2. s[n] = t[n] /\ \A i \in (n - Lookback)..(n - 1) : s[i] = t[i]
  BY <1>1 DEF Same
<1>3. {s[i].close : i \in (n - Lookback)..(n - 1)} = {t[i].close : i \in (n - Lookback)..(n - 1)}
  BY <1>2
<1> QED
  BY <1>2, <1>3 DEF Donchian

\* MeanReversion.
LEMMA ReversionSame ==
    ASSUME NEW s, NEW t, NEW n \in Nat, Same(s, t, n), n >= Warmup("reversion"), NEW p
    PROVE  Reversion(s, n, p) = Reversion(t, n, p)
<1>1. Period \in Nat \ {0} /\ Period <= n
  BY WarmupBounds, StrategyAssumption DEF ReversionParams, Strategy
<1>2. Sma(s, n, Period) = Sma(t, n, Period)
  BY <1>1, SmaSame
<1>3. s[n] = t[n]
  BY <1>1 DEF Same
<1> QED
  BY <1>2, <1>3 DEF Reversion

\* TrendPullbackRecovery.
LEMMA PullbackSame ==
    ASSUME NEW s, NEW t, NEW n \in Nat, Same(s, t, n), Candles(s, n),
           n >= Warmup("pullback"), NEW p
    PROVE  Pullback(s, n, p) = Pullback(t, n, p)
<1>1. /\ SmaPeriod \in Nat \ {0} /\ Slope \in Nat \ {0} /\ Swing \in Nat \ {0}
      /\ n >= SmaPeriod + Slope /\ n > Swing
  BY WarmupBounds, StrategyAssumption DEF PullbackParams, Strategy
<1>2. Sma(s, n, SmaPeriod) = Sma(t, n, SmaPeriod)
  BY <1>1, SmaSame
<1>3. Sma(s, n - Slope, SmaPeriod) = Sma(t, n - Slope, SmaPeriod)
  <2>1. n - Slope \in Nat /\ SmaPeriod <= n - Slope /\ Same(s, t, n - Slope)
    BY <1>1 DEF Same
  <2> QED
    BY <1>1, <2>1, SmaSame
<1>4. s[n] = t[n] /\ s[n - 1] = t[n - 1]
  BY <1>1 DEF Same
<1>5. /\ SwingHighAt(t, n) = SwingHighAt(s, n) /\ PullbackLowAt(t, n) = PullbackLowAt(s, n)
      /\ s[SwingHighAt(s, n)] = t[SwingHighAt(s, n)]
      /\ s[PullbackLowAt(s, n)] = t[PullbackLowAt(s, n)]
  BY <1>1, SwingSame, SwingSeen DEF Same
<1>6. \A ma : Recovery(s, n, ma) <=> Recovery(t, n, ma)
  BY <1>3, <1>4, <1>5 DEF Recovery
<1> QED
  BY <1>2, <1>4, <1>5, <1>6 DEF Pullback, Invalidated

\* A signal is drawn from the completed bars, whatever comes after them.
LEMMA EvaluateSame ==
    ASSUME NEW s, NEW t, NEW n \in Nat, Same(s, t, n), Candles(s, n),
           NEW y \in Strategy, NEW p, NEW memory
    PROVE  Evaluate(y, s, n, p, memory) = Evaluate(y, t, n, p, memory)
<1>1. CASE n < Warmup(y)
  BY <1>1 DEF Evaluate
<1>2. CASE ~(n < Warmup(y))
  <2>1. n >= Warmup(y)
    BY <1>2, WarmupBounds
  <2>2. CASE y = "crossover"
    BY <1>2, <2>1, <2>2, CrossoverSame DEF Evaluate
  <2>3. CASE y = "donchian"
    BY <1>2, <2>1, <2>3, DonchianSame DEF Evaluate
  <2>4. CASE y = "reversion"
    BY <1>2, <2>1, <2>4, ReversionSame DEF Evaluate
  <2>5. CASE y = "pullback"
    BY <1>2, <2>1, <2>5, PullbackSame DEF Evaluate
  <2> QED
    BY <2>2, <2>3, <2>4, <2>5 DEF Strategy
<1> QED
  BY <1>1, <1>2

\* Neither does a bar of the backtest.
LEMMA AfterBarSame ==
    ASSUME NEW s, NEW t, NEW n \in Nat \ {0}, Same(s, t, n), Candles(s, n),
           strategy \in Strategy, NEW r
    PROVE  AfterBar(r, s, n) = AfterBar(r, t, n)
<1>1. s[n] = t[n]
  BY DEF Same
<1>2. \A p, memory : /\ Evaluate(strategy, s, n, p, memory)
                          = Evaluate(strategy, t, n, p, memory)
                      /\ Cross(s, n, memory) = Cross(t, n, memory)
  BY EvaluateSame, CrossSame
<1>3. \A q : Decided(q, s, n) = Decided(q, t, n)
  BY <1>1, <1>2 DEF Decided, Seen
<1> QED
  BY <1>1, <1>3 DEF AfterBar
----------------------------------------------------------------------------
(* The acquisition, and the series loaded from it *)

Bars == SUBSET (1..LastBar)

AcqTypes ==
    market \in Bars /\ best \in Bars /\ file \in Bars /\ pages \in Seq(Bars)

\* The two runs start together, on series that part at `cut`.
BtTypes ==
    /\ AcqTypes
    /\ strategy \in Strategy
    /\ outcome # "loaded" => bar = 0 /\ cut = 0 /\ run = Fresh /\ twin = Fresh
    /\ outcome = "loaded" =>
          /\ series \in Seq(Candle) /\ other \in Seq(Candle)
          /\ Len(series) = Len(other) /\ bar \in 0..Len(series)
          /\ cut \in 1..Len(series)
          /\ \A i \in 1..(cut - 1) : other[i] = series[i]

BtInv == BtTypes /\ NoLookahead

\* A set of bars is finite, and no larger than the history.
LEMMA BarsFinite == ASSUME NEW S \in Bars PROVE IsFiniteSet(S) /\ Cardinality(S) \in 0..LastBar
<1>1. LastBar \in Nat \ {0}
  BY AcquisitionAssumption
<1>2. IsFiniteSet(1..LastBar) /\ Cardinality(1..LastBar) = LastBar
  BY <1>1, FS_Interval
<1>3. IsFiniteSet(S) /\ Cardinality(S) <= Cardinality(1..LastBar) /\ Cardinality(S) \in Nat
  BY <1>2, FS_Subset, FS_CardinalityType DEF Bars
<1> QED
  BY <1>1, <1>2, <1>3

\* Bars are numbers; no bars are bars too.
LEMMA BarsInt == ASSUME NEW S \in Bars PROVE \A x \in S : x \in Int
  BY AcquisitionAssumption DEF Bars

LEMMA EmptyBars == {} \in Bars /\ <<>> \in Seq(Bars)
  BY DEF Bars

\* Nothing is loaded and no bar is done at first.
LEMMA BtInitTypes == BtInit => BtInv
<1> SUFFICES ASSUME BtInit PROVE BtInv
  OBVIOUS
<1>1. LastBar \in Nat \ {0}
  BY AcquisitionAssumption
<1>2. AcqTypes /\ outcome = ""
  <2>1. market \in Bars
    <3>1. PICK oldest \in 1..LastBar, quiet \in {{}} \cup {{k} : k \in Quiet} :
              market = (oldest..LastBar) \ quiet
      BY DEF BtInit, AcqInit
    <3> QED
      BY <1>1, <3>1 DEF Bars
  <2>2. pages = <<>> /\ best = {} /\ file = {} /\ outcome = ""
    BY DEF BtInit, AcqInit
  <2> QED
    BY <2>1, <2>2, EmptyBars DEF AcqTypes
<1> QED
  BY <1>2 DEF BtInit, BtInv, BtTypes, NoLookahead

\* The acquisition keeps to the bars there are, and never says it has loaded a series.
LEMMA AcquireTypes ==
    ASSUME BtInv, Acquire PROVE BtInv'
<1>1. UNCHANGED btVars /\ outcome # "loaded" /\ outcome' # "loaded" /\ market' = market
  BY DEF Acquire, AcqNext, Ask, Finish, Accept, Fail, GivesUp
<1>2. AcqTypes'
  <2>1. CASE Ask
    <3>1. Answers \subseteq Bars
      BY DEF BtInv, BtTypes, AcqTypes, Answers, Bars
    <3>2. \A page \in Bars : Append(pages, page) \in Seq(Bars)
      BY DEF BtInv, BtTypes, AcqTypes
    <3>3. {} \in Bars
      BY DEF Bars
    <3>4. CASE Fail("no answer")
      BY <1>1, <3>4 DEF BtInv, BtTypes, AcqTypes, Fail
    <3>5. ASSUME NEW page \in Answers,
                 LET better == IF Better(page, best) THEN page ELSE best IN
                 IF CoversHead(page) THEN Accept(page)
                 ELSE IF attempt + 1 < PageAttempts
                 THEN /\ attempt' = attempt + 1 /\ best' = better
                      /\ UNCHANGED <<pages, outcome, file, warned>>
                 ELSE GivesUp(better)
          PROVE  AcqTypes'
      <4> DEFINE better == IF Better(page, best) THEN page ELSE best
      <4>1. page \in Bars /\ better \in Bars
        BY <3>1 DEF BtInv, BtTypes, AcqTypes
      <4> HIDE DEF better
      <4>2. ASSUME NEW q \in Bars, Accept(q) PROVE AcqTypes'
        BY <1>1, <3>2, <3>3, <4>2 DEF BtInv, BtTypes, AcqTypes, Accept
      <4>3. ASSUME Fail("truncated") PROVE AcqTypes'
        BY <1>1, <4>3 DEF BtInv, BtTypes, AcqTypes, Fail
      <4>4. CASE CoversHead(page)
        BY <3>5, <4>1, <4>2, <4>4
      <4>5. CASE ~CoversHead(page) /\ attempt + 1 < PageAttempts
        BY <1>1, <3>5, <4>1, <4>5 DEF BtInv, BtTypes, AcqTypes, better
      <4>6. CASE ~CoversHead(page) /\ ~(attempt + 1 < PageAttempts)
        BY <3>5, <4>1, <4>2, <4>3, <4>6 DEF GivesUp, better
      <4> QED
        BY <4>4, <4>5, <4>6
    <3> QED
      BY <2>1, <3>4, <3>5 DEF Ask
  <2>2. CASE Finish
    <3>1. InRange \in Bars
      BY DEF BtInv, BtTypes, AcqTypes, InRange, Raw, Range, Bars
    <3> QED
      BY <1>1, <2>2, <3>1 DEF BtInv, BtTypes, AcqTypes, Finish, Fail
  <2> QED
    BY <2>1, <2>2 DEF Acquire, AcqNext
<1> QED
  BY <1>1, <1>2 DEF BtInv, BtTypes, NoLookahead, btVars

\* The series are of the length of the dataset; they may part at any of its bars.
LEMMA LoadTypes ==
    ASSUME BtInv, Load PROVE BtInv'
<1> DEFINE m == Cardinality(file)
<1>1. m \in Nat /\ m <= LastBar
  BY BarsFinite DEF BtInv, BtTypes, AcqTypes
<1>2. strategy \in Strategy /\ Warmup(strategy) \in Nat /\ m > Warmup(strategy)
  BY WarmupBounds DEF BtInv, BtTypes, Load
<1>3. m \in 1..LastBar /\ series' \in [1..m -> Candle]
  <2>1. m \in 1..LastBar
    BY <1>1, <1>2, AcquisitionAssumption
  <2>2. SeriesOf(m) \subseteq [1..m -> Candle]
    BY <2>1, BacktestAssumption
  <2> QED
    BY <2>1, <2>2 DEF Load
<1>4. PICK k \in 1..m, c \in Candle :
          other' = [i \in 1..m |-> IF i < k THEN series'[i] ELSE c] /\ cut' = k
  BY DEF Load
<1>5. outcome = "written" /\ outcome' = "loaded" /\ bar = 0 /\ bar' = 0
      /\ run = Fresh /\ twin = Fresh /\ run' = run /\ twin' = twin /\ strategy' = strategy
      /\ AcqTypes'
  BY EmptyBars DEF Load, BtInv, BtTypes, AcqTypes
<1> HIDE DEF m
<1>6. other' \in [1..m -> Candle]
  BY <1>3, <1>4
<1>7. series' \in Seq(Candle) /\ other' \in Seq(Candle) /\ Len(series') = m /\ Len(other') = m
  BY <1>1, <1>3, <1>6
<1>8. \A i \in 1..(cut' - 1) : other'[i] = series'[i]
  BY <1>3, <1>4
<1> QED
  BY <1>1, <1>2, <1>4, <1>5, <1>7, <1>8 DEF BtInv, BtTypes, NoLookahead

\* A bar before the cut is the same in both series, so the two runs stay together.
LEMMA StepTypes ==
    ASSUME BtInv, Step PROVE BtInv'
<1>1. /\ outcome = "loaded" /\ bar \in Nat /\ bar < Len(series) /\ bar' = bar + 1
      /\ run' = AfterBar(run, series, bar + 1) /\ twin' = AfterBar(twin, other, bar + 1)
      /\ UNCHANGED <<acqVars, strategy, series, other, cut>>
      /\ series \in Seq(Candle) /\ cut \in 1..Len(series) /\ strategy \in Strategy
  BY DEF Step, BtInv, BtTypes
<1>2. BtTypes'
  BY <1>1 DEF BtInv, BtTypes, AcqTypes, acqVars
<1>3. ASSUME bar + 1 < cut PROVE run' = twin'
  <2>1. run = twin
    BY <1>1, <1>3 DEF BtInv, NoLookahead
  <2>2. Same(series, other, bar + 1) /\ Candles(series, bar + 1)
    BY <1>1, <1>3 DEF BtInv, BtTypes, Same, Candles
  <2> QED
    BY <1>1, <2>1, <2>2, AfterBarSame
<1> QED
  BY <1>1, <1>2, <1>3 DEF BtInv, NoLookahead

\* No step disturbs the invariant.
LEMMA BtInductive ==
    ASSUME BtInv, [BtNext]_allVars PROVE BtInv'
<1>1. CASE UNCHANGED allVars
  BY <1>1 DEF BtInv, BtTypes, AcqTypes, NoLookahead, allVars, acqVars, btVars
<1> QED
  BY <1>1, AcquireTypes, LoadTypes, StepTypes DEF BtNext

\* A backtest never looks ahead, on whatever candles and with whatever strategy: up to
\* the bar where two histories part, the two runs are the same (runBacktest, engine.ts,
\* "Convention (no lookahead)").
THEOREM BacktestDoesNotLookAhead == BtSpec => []NoLookahead
<1>1. BtInit => BtInv
  BY BtInitTypes
<1>2. BtInv /\ [BtNext]_allVars => BtInv'
  BY BtInductive
<1>3. BtInv => NoLookahead
  BY DEF BtInv
<1> QED
  BY <1>1, <1>2, <1>3, PTL DEF BtSpec

----------------------------------------------------------------------------
(* The state of a run *)

\* An anchor is a price, or none.
Anchor == Nat \cup {Nothing}
Book   == [cash : Nat, qty : Nat, basis : Int, avg : Int, anchor : Anchor,
           realized : Int, peak : Int]
Order  == [side : {"BUY", "SELL", "NONE"}, qty : Nat, anchor : Anchor, at : Nat]
Trade  == [side : {"BUY", "SELL"}, qty : Nat, price : Nat, signal : Nat, bar : Nat]
RunType == [book : Book, pending : Order, cross : {"unknown", "above", "not above"},
            trades : Seq(Trade)]

\* The conjuncts of TradesExplainTheBook, of any run.
Explained(r, s) ==
    /\ r.book.cash = InitialCash - TotalPaid(r.trades)
    /\ r.book.qty = TotalMoved(r.trades)
    /\ \A i \in DOMAIN r.trades : r.trades[i].bar = r.trades[i].signal + 1
    /\ r.book.qty > 0 /\ strategy = "pullback" =>
          r.book.anchor = s[r.trades[Len(r.trades)].signal - 1].low

\* A position is a quantity an order could have, bought after the warm-up.
Whole(b, n) ==
    b.qty > 0 => b.qty % QtyTick = 0 /\ b.qty >= MinOrder /\ n >= Warmup(strategy)

\* The pending order after bar n: a BUY opens a position, a SELL closes it.
Ready(r, s, n) ==
    /\ r.pending.side = "NONE" <=> r.pending = None
    /\ r.pending # None => r.pending.at = n
    /\ r.pending.side = "BUY" =>
          /\ r.book.qty = 0 /\ n >= Warmup(strategy)
          /\ strategy = "pullback" => r.pending.anchor = s[n - 1].low
    /\ r.pending.side = "SELL" => r.pending.qty = r.book.qty

\* The exit of an invalidated long is pending.
ClosesOnTick == \A c \in Candle : c.close % PriceTick = 0
Leaving(r, s, n) ==
    n > 0 /\ strategy = "pullback" /\ r.book.qty > 0 /\ Invalidated(s, n, r.book)
       => r.pending.side = "SELL"

RunOk(r, s, n) ==
    /\ r \in RunType
    /\ Explained(r, s)
    /\ Whole(r.book, n)
    /\ Ready(r, s, n)
    /\ ClosesOnTick => Leaving(r, s, n)

BookInv == BtTypes /\ RunOk(run, series, bar)

----------------------------------------------------------------------------
(* Prices, fees and quantities *)

\* The ticks and the smallest order of the market.
LEMMA Ticks == PriceTick \in Nat \ {0} /\ QtyTick \in Nat \ {0} /\ MinOrder \in Nat
  BY RiskAssumption, BacktestAssumption DEF ValidConfig

\* A fraction of an amount is an amount.
LEMMA FracInt == ASSUME NEW m \in Int, NEW k \in Int PROVE Frac(m, k) \in Int
  BY DEF Frac

\* A fill price is a number.
LEMMA FillPriceInt ==
    ASSUME NEW open \in Nat, NEW side PROVE FillPrice(open, side) \in Int
<1> DEFINE cost == SlipPct + SpreadPct \div 2
<1>1. cost \in Int
  <2>1. SlipPct \in Nat /\ SpreadPct \in Int
    <3>1. ValidConfig
      BY BacktestAssumption
    <3>2. PICK k \in 0..50 : SpreadPct = 2 * k
      BY <3>1 DEF ValidConfig
    <3> QED
      BY <3>1, <3>2 DEF ValidConfig
  <2> QED
    BY <2>1
<1> HIDE DEF cost
<1>2. Frac(open, 100 + cost) \in Int /\ Frac(open, 100 - cost) \in Int
  BY <1>1, FracInt
<1>3. \A x \in Int : CeilTo(x, PriceTick) \in Int /\ FloorTo(x, PriceTick) \in Int
  BY Ticks DEF CeilTo, FloorTo
<1>4. FillPrice(open, side) = IF side = "BUY" THEN CeilTo(Frac(open, 100 + cost), PriceTick)
                                              ELSE FloorTo(Frac(open, 100 - cost), PriceTick)
  BY DEF FillPrice, cost
<1> QED
  BY <1>2, <1>3, <1>4

\* A fee is an amount, and never more than what is traded.
LEMMA FeeBounds == ASSUME NEW m \in Nat PROVE Fee(m) \in Nat /\ Fee(m) <= m
<1>1. TakerPct \in 0..100
  BY RiskAssumption
<1> QED
  BY <1>1 DEF Fee, Frac

\* A quantity at a price.
LEMMA ProductNat == ASSUME NEW a \in Nat, NEW b \in Nat PROVE a * b \in Nat
  OBVIOUS

\* A quantity of ticks is its own floor; every floor is one.
LEMMA FloorTickWhole ==
    ASSUME NEW q \in Int
    PROVE  /\ FloorTick(q) \in Int /\ FloorTick(q) % QtyTick = 0
           /\ q % QtyTick = 0 => FloorTick(q) = q
<1>1. QtyTick \in Nat \ {0}
  BY Ticks
<1>2. q \div QtyTick \in Int
  BY <1>1
<1>3. ((q \div QtyTick) * QtyTick) % QtyTick = 0
  BY <1>1, <1>2
<1>4. q % QtyTick = 0 => (q \div QtyTick) * QtyTick = q
  BY <1>1
<1> QED
  BY <1>1, <1>2, <1>3, <1>4 DEF FloorTick

----------------------------------------------------------------------------
(* Trades and their sums *)

\* What one trade more adds to the sums.
LEMMA TradeSums ==
    ASSUME NEW t \in Seq(Trade), NEW x \in Trade
    PROVE  /\ TotalPaid(Append(t, x)) = TotalPaid(t) + Paid(x)
           /\ TotalMoved(Append(t, x)) = TotalMoved(t) + Moved(x)
           /\ TotalPaid(t) \in Int /\ TotalMoved(t) \in Int
<1> DEFINE n == Len(t)
           u == Append(t, x)
           pu == [i \in DOMAIN u |-> Paid(u[i])]
           pt == [i \in DOMAIN t |-> Paid(t[i])]
           mu == [i \in DOMAIN u |-> Moved(u[i])]
           mt == [i \in DOMAIN t |-> Moved(t[i])]
<1>1. n \in Nat /\ DOMAIN t = 1..n /\ DOMAIN u = (1..n) \cup {n + 1} /\ n + 1 \notin 1..n
  BY AppendProperties, LenProperties
<1>2. u[n + 1] = x /\ \A i \in 1..n : u[i] = t[i] /\ t[i] \in Trade
  BY AppendProperties, ElementOfSeq
<1>3. \A y \in Trade : Paid(y) \in Int /\ Moved(y) \in Int
  <2> TAKE y \in Trade
  <2>1. y.qty * y.price \in Nat /\ y.qty \in Nat
    BY ProductNat DEF Trade
  <2>2. Fee(y.qty * y.price) \in Nat
    BY <2>1, FeeBounds
  <2> QED
    BY <2>1, <2>2 DEF Paid, Moved
<1>4. IsFiniteSet(1..n)
  BY <1>1, FS_Interval
<1> HIDE DEF n, u
<1>5. /\ \A i \in 1..n : /\ pu[i] = Paid(t[i]) /\ pt[i] = Paid(t[i])
                         /\ mu[i] = Moved(t[i]) /\ mt[i] = Moved(t[i])
                         /\ Paid(t[i]) \in Int /\ Moved(t[i]) \in Int
      /\ pu[n + 1] = Paid(x) /\ mu[n + 1] = Moved(x) /\ Paid(x) \in Int /\ Moved(x) \in Int
  BY <1>1, <1>2, <1>3
<1>6. /\ TotalPaid(u) = SumFunctionOnSet(pu, (1..n) \cup {n + 1})
      /\ TotalMoved(u) = SumFunctionOnSet(mu, (1..n) \cup {n + 1})
      /\ TotalPaid(t) = SumFunctionOnSet(pt, 1..n)
      /\ TotalMoved(t) = SumFunctionOnSet(mt, 1..n)
  BY <1>1 DEF TotalPaid, TotalMoved
<1> HIDE DEF pu, pt, mu, mt
<1>7. /\ SumFunctionOnSet(pu, 1..n) = SumFunctionOnSet(pt, 1..n)
      /\ SumFunctionOnSet(mu, 1..n) = SumFunctionOnSet(mt, 1..n)
  <2>1. \A i \in 1..n : pu[i] = pt[i] /\ mu[i] = mt[i]
    BY <1>5
  <2> QED
    BY <1>4, <2>1, SumSame
<1>8. SumFunctionOnSet(pt, 1..n) \in Int /\ SumFunctionOnSet(mt, 1..n) \in Int
  <2>1. \A i \in 1..n : pt[i] \in Int /\ mt[i] \in Int
    BY <1>5
  <2> QED
    BY <1>4, <2>1, SumInt
<1>9. /\ SumFunctionOnSet(pu, (1..n) \cup {n + 1}) = Paid(x) + SumFunctionOnSet(pu, 1..n)
      /\ SumFunctionOnSet(mu, (1..n) \cup {n + 1}) = Moved(x) + SumFunctionOnSet(mu, 1..n)
  <2>1. \A i \in 1..n : pu[i] \in Int /\ mu[i] \in Int
    BY <1>5
  <2>2. pu[n + 1] \in Int /\ mu[n + 1] \in Int
    BY <1>5
  <2>3. SumFunctionOnSet(pu, (1..n) \cup {n + 1}) = pu[n + 1] + SumFunctionOnSet(pu, 1..n)
    BY <1>1, <1>4, <2>1, <2>2, SumAdd
  <2>4. SumFunctionOnSet(mu, (1..n) \cup {n + 1}) = mu[n + 1] + SumFunctionOnSet(mu, 1..n)
    BY <1>1, <1>4, <2>1, <2>2, SumAdd
  <2> QED
    BY <1>5, <2>3, <2>4
<1> QED
  BY <1>5, <1>6, <1>7, <1>8, <1>9 DEF u

----------------------------------------------------------------------------
(* The fill at the open *)

\* A new peak changes nothing else of a book.
LEMMA WithPeakFields ==
    ASSUME NEW b \in Book
    PROVE  /\ WithPeak(b) \in Book
           /\ WithPeak(b).cash = b.cash /\ WithPeak(b).qty = b.qty
           /\ WithPeak(b).anchor = b.anchor
<1>1. Max({b.peak, b.cash + b.basis}) \in Int
  <2>1. b.peak \in Int /\ b.cash + b.basis \in Int
    BY DEF Book
  <2> QED
    BY <2>1, MaxOfTwo
<1> HIDE DEF Max
<1> QED
  BY <1>1 DEF WithPeak, Book

\* The BUY that opens a position.
LEMMA BoughtFields ==
    ASSUME NEW b \in Book, b.qty = 0, NEW q \in Nat \ {0}, NEW p \in Nat, NEW a \in Anchor,
           q * p + Fee(q * p) <= b.cash
    PROVE  /\ Bought(b, q, p, a) \in Book
           /\ Bought(b, q, p, a).cash = b.cash - (q * p + Fee(q * p))
           /\ Bought(b, q, p, a).qty = q
           /\ Bought(b, q, p, a).anchor = a
<1> DEFINE cost == q * p + Fee(q * p)
           qty == b.qty + q
           basis == b.basis + q * p + Fee(q * p)
           x == [b EXCEPT !.cash = @ - cost, !.qty = qty, !.basis = basis,
                          !.avg = basis \div qty,
                          !.anchor = IF b.qty = 0 THEN a ELSE @]
<1>1. q * p \in Nat /\ Fee(q * p) \in Nat
  BY ProductNat, FeeBounds
<1>2. cost \in Nat /\ b.cash - cost \in Nat /\ qty = q /\ basis \in Int
  BY <1>1 DEF Book
<1>3. Bought(b, q, p, a) = WithPeak(x)
  BY DEF Bought
<1>5. basis \div qty \in Int
  BY <1>2
<1> HIDE DEF cost, basis, qty
<1>4. x \in Book /\ x.cash = b.cash - cost /\ x.qty = q /\ x.anchor = a
  BY <1>2, <1>5 DEF Book
<1> HIDE DEF x
<1> QED
  BY <1>3, <1>4, WithPeakFields DEF cost

\* The SELL that closes it.
LEMMA SoldFields ==
    ASSUME NEW b \in Book, NEW q \in Nat, q = b.qty, NEW p \in Nat
    PROVE  /\ Sold(b, q, p) \in Book
           /\ Sold(b, q, p).cash = b.cash + q * p - Fee(q * p)
           /\ Sold(b, q, p).qty = 0
<1> DEFINE left == b.qty - q
           cash == b.cash + q * p - Fee(q * p)
           basis == IF left = 0 THEN 0 ELSE b.basis - b.avg * q
           avg == IF left = 0 THEN 0 ELSE b.avg
           anchor == IF left = 0 THEN Nothing ELSE b.anchor
           realized == b.realized + q * (p - b.avg) - Fee(q * p)
           x == [b EXCEPT !.cash = cash, !.qty = left, !.basis = basis, !.avg = avg,
                          !.anchor = anchor, !.realized = realized]
<1>1. q * p \in Nat /\ Fee(q * p) \in Nat /\ Fee(q * p) <= q * p
  BY ProductNat, FeeBounds
<1>2. /\ cash \in Nat /\ left = 0 /\ left \in Nat /\ basis \in Int /\ avg \in Int
      /\ anchor \in Anchor
  BY <1>1 DEF Book, Anchor
<1>3. realized \in Int
  BY <1>1 DEF Book
<1>4. Sold(b, q, p) = WithPeak(x)
  BY DEF Sold
<1> HIDE DEF left, cash, basis, avg, anchor, realized
<1>5. x \in Book /\ x.cash = cash /\ x.qty = left
  BY <1>2, <1>3 DEF Book
<1> HIDE DEF x
<1> QED
  BY <1>2, <1>4, <1>5, WithPeakFields DEF cash

\* Step 1 of a bar keeps book and trades together, and leaves nothing pending.
LEMMA FilledOk ==
    ASSUME NEW s \in Seq(Candle), NEW n \in 1..Len(s), strategy \in Strategy,
           NEW r, RunOk(r, s, n - 1)
    PROVE  LET f == Filled(r, s[n], n) IN
           /\ f \in RunType /\ f.pending = None
           /\ Explained(f, s) /\ Whole(f.book, n)
<1> DEFINE o == r.pending
           b == r.book
           t == r.trades
           p == FillPrice(s[n].open, o.side)
           x == [side |-> o.side, qty |-> o.qty, price |-> p, signal |-> o.at, bar |-> n]
           f == Filled(r, s[n], n)
<1>1. n \in Nat \ {0} /\ s[n].open \in Nat /\ p \in Int
  <2>1. n \in Nat \ {0} /\ s[n] \in Candle
    BY LenProperties, ElementOfSeq
  <2>2. s[n].open \in Nat
    BY <2>1, BacktestAssumption
  <2> QED
    BY <2>1, <2>2, FillPriceInt
<1>2. /\ r \in RunType /\ b \in Book /\ o \in Order /\ t \in Seq(Trade)
      /\ b.cash \in Nat /\ b.qty \in Nat /\ o.qty \in Nat
  BY DEF RunOk, RunType, Book, Order
<1>3. Warmup(strategy) \in Nat
  BY WarmupBounds
<1>4. CASE o = None \/ Refused(b, o, s[n].open)
  <2>1. f = [r EXCEPT !.pending = None]
    BY <1>4 DEF Filled
  <2>2. None \in Order
    BY DEF None, Order, Anchor
  <2> HIDE DEF f
  <2>3. f \in RunType /\ f.pending = None /\ f.book = b /\ f.trades = t
    BY <1>2, <2>1, <2>2 DEF RunType
  <2> QED
    BY <1>1, <1>2, <1>3, <2>3 DEF RunOk, Explained, Whole, f
<1>5. CASE ~(o = None \/ Refused(b, o, s[n].open))
  <2>1. /\ p \in Nat \ {0} /\ o.qty \in Nat \ {0} /\ o.qty % QtyTick = 0 /\ o.qty >= MinOrder
        /\ o.side \in {"BUY", "SELL"} /\ o.at = n - 1
    BY <1>1, <1>2, <1>5, Ticks DEF Refused, RunOk, Ready, Order
  <2>2. x \in Trade
    BY <1>1, <1>2, <2>1 DEF Trade
  <2>3. Append(t, x) \in Seq(Trade) /\ Len(Append(t, x)) = Len(t) + 1
        /\ Append(t, x)[Len(t) + 1] = x
        /\ \A i \in DOMAIN Append(t, x) :
              Append(t, x)[i].bar = Append(t, x)[i].signal + 1
    <3>1. \A i \in DOMAIN t : t[i].bar = t[i].signal + 1
      BY DEF RunOk, Explained
    <3>2. x.bar = x.signal + 1
      BY <1>1, <2>1
    <3> HIDE DEF x
    <3> QED
      BY <1>2, <2>2, <3>1, <3>2, AppendProperties, LenProperties
  <2>4. /\ TotalPaid(Append(t, x)) = TotalPaid(t) + Paid(x) /\ TotalPaid(t) \in Int
        /\ TotalMoved(Append(t, x)) = TotalMoved(t) + Moved(x) /\ TotalMoved(t) \in Int
        /\ b.cash = InitialCash - TotalPaid(t) /\ b.qty = TotalMoved(t)
        /\ InitialCash \in Int
    <3> HIDE DEF x
    <3>1. InitialCash \in Nat
      <4>1. ValidConfig
        BY BacktestAssumption
      <4> QED
        BY <4>1 DEF ValidConfig
    <3> QED
      BY <1>2, <2>2, <3>1, TradeSums DEF RunOk, Explained
  <2>5. CASE o.side = "BUY"
    <3> DEFINE nb == Bought(b, o.qty, p, o.anchor)
    <3>1. /\ b.qty = 0 /\ n - 1 >= Warmup(strategy)
          /\ strategy = "pullback" => o.anchor = s[(n - 1) - 1].low
          /\ o.anchor \in Anchor
      BY <1>2, <2>5 DEF RunOk, Ready, Order
    <3>2. o.qty * p + Fee(o.qty * p) <= b.cash
      <4>1. Max({b.cash, 0}) = b.cash
        <5>1. /\ Max({b.cash, 0}) \in {b.cash, 0}
              /\ Max({b.cash, 0}) >= b.cash /\ Max({b.cash, 0}) >= 0
          <6>1. b.cash \in Int /\ 0 \in Int
            BY <1>2
          <6> QED
            BY <6>1, MaxOfTwo
        <5> QED
          BY <1>2, <5>1
      <4>2. o.qty * p \in Nat /\ Fee(o.qty * p) \in Nat
        BY <2>1, ProductNat, FeeBounds
      <4>3. ~(o.qty * p + Fee(o.qty * p) > b.cash)
        BY <1>5, <2>5, <4>1 DEF Refused
      <4> HIDE DEF p
      <4> QED
        BY <1>2, <4>2, <4>3
    <3>3. /\ nb \in Book /\ nb.cash = b.cash - (o.qty * p + Fee(o.qty * p))
          /\ nb.qty = o.qty /\ nb.anchor = o.anchor
      <4> HIDE DEF p
      <4> QED
        BY <1>2, <2>1, <3>1, <3>2, BoughtFields
    <3>4. f = [r EXCEPT !.pending = None, !.book = nb, !.trades = Append(t, x)]
      BY <1>5, <2>5 DEF Filled
    <3>5. Paid(x) = o.qty * p + Fee(o.qty * p) /\ Moved(x) = o.qty /\ x.signal = n - 1
      BY <2>1, <2>5 DEF Paid, Moved
    <3>6. o.qty * p \in Nat /\ Fee(o.qty * p) \in Nat
      BY <2>1, ProductNat, FeeBounds
    <3>10. None \in Order
      BY DEF None, Order, Anchor
    <3> HIDE DEF f, nb, x, p
    <3>7. f \in RunType /\ f.pending = None /\ f.book = nb /\ f.trades = Append(t, x)
      BY <1>2, <2>3, <3>3, <3>4, <3>10 DEF RunType
    <3>8. Explained(f, s)
      <4>1. nb.cash = InitialCash - TotalPaid(Append(t, x))
        BY <1>2, <2>4, <3>3, <3>5, <3>6
      <4>2. nb.qty = TotalMoved(Append(t, x))
        BY <2>1, <2>4, <3>1, <3>3, <3>5
      <4>3. strategy = "pullback" =>
               nb.anchor = s[Append(t, x)[Len(Append(t, x))].signal - 1].low
        BY <2>3, <3>1, <3>3, <3>5
      <4> QED
        BY <2>3, <3>7, <4>1, <4>2, <4>3 DEF Explained
    <3>9. Whole(f.book, n)
      BY <1>1, <1>3, <2>1, <3>1, <3>3, <3>7 DEF Whole
    <3> QED
      BY <3>7, <3>8, <3>9 DEF f
  <2>6. CASE o.side = "SELL"
    <3> DEFINE nb == Sold(b, o.qty, p)
    <3>1. o.qty = b.qty
      BY <2>6 DEF RunOk, Ready
    <3>3. /\ nb \in Book /\ nb.cash = b.cash + o.qty * p - Fee(o.qty * p) /\ nb.qty = 0
      <4> HIDE DEF p
      <4> QED
        BY <1>2, <2>1, <3>1, SoldFields
    <3>4. f = [r EXCEPT !.pending = None, !.book = nb, !.trades = Append(t, x)]
      BY <1>5, <2>6 DEF Filled
    <3>5. Paid(x) = Fee(o.qty * p) - o.qty * p /\ Moved(x) = -o.qty
      BY <2>1, <2>6 DEF Paid, Moved
    <3>6. o.qty * p \in Nat /\ Fee(o.qty * p) \in Nat
      BY <2>1, ProductNat, FeeBounds
    <3>10. None \in Order
      BY DEF None, Order, Anchor
    <3> HIDE DEF f, nb, x, p
    <3>7. f \in RunType /\ f.pending = None /\ f.book = nb /\ f.trades = Append(t, x)
      BY <1>2, <2>3, <3>3, <3>4, <3>10 DEF RunType
    <3>8. Explained(f, s)
      <4>1. nb.cash = InitialCash - TotalPaid(Append(t, x))
        BY <1>2, <2>4, <3>3, <3>5, <3>6
      <4>2. nb.qty = TotalMoved(Append(t, x))
        BY <2>1, <2>4, <3>1, <3>3, <3>5
      <4> QED
        BY <2>3, <3>3, <3>7, <4>1, <4>2 DEF Explained
    <3>9. Whole(f.book, n)
      BY <3>3, <3>7 DEF Whole
    <3> QED
      BY <3>7, <3>8, <3>9 DEF f
  <2> QED
    BY <2>1, <2>5, <2>6
<1> QED
  BY <1>4, <1>5

----------------------------------------------------------------------------
(* The decision at the close *)

\* evaluate by strategy.
LEMMA EvaluateCases ==
    ASSUME NEW y \in Strategy, NEW s, NEW n \in Nat, NEW b, NEW memory
    PROVE  /\ n < Warmup(y) => Evaluate(y, s, n, b, memory) = Hold
           /\ n >= Warmup(y) /\ y = "crossover" =>
                 Evaluate(y, s, n, b, memory) = Crossover(s, n, b, memory)
           /\ n >= Warmup(y) /\ y = "donchian" =>
                 Evaluate(y, s, n, b, memory) = Donchian(s, n, b)
           /\ n >= Warmup(y) /\ y = "reversion" =>
                 Evaluate(y, s, n, b, memory) = Reversion(s, n, b)
           /\ n >= Warmup(y) /\ y = "pullback" =>
                 Evaluate(y, s, n, b, memory) = Pullback(s, n, b)
<1>1. n >= Warmup(y) => ~(n < Warmup(y))
  BY WarmupBounds
<1> QED
  BY <1>1 DEF Evaluate

\* A BUY opens a position after the warm-up; with the pullback strategy it is anchored
\* at the bar before.
LEMMA SignalOk ==
    ASSUME strategy \in Strategy, NEW s, NEW n \in Nat \ {0}, Candles(s, n),
           NEW b \in Book, NEW memory
    PROVE  LET signal == Evaluate(strategy, s, n, b, memory) IN
           /\ signal.side \in {"BUY", "SELL", "HOLD"} /\ signal.anchor \in Anchor
           /\ signal.side = "BUY" =>
                 /\ b.qty = 0 /\ n >= Warmup(strategy)
                 /\ strategy = "pullback" => signal.anchor = s[n - 1].low
<1> DEFINE signal == Evaluate(strategy, s, n, b, memory)
<1>1. b.qty \in Nat /\ Nothing \in Anchor /\ Warmup(strategy) \in Nat
  BY WarmupBounds DEF Book, Anchor
<1>2. CASE n < Warmup(strategy)
  BY <1>1, <1>2, EvaluateCases DEF Hold
<1>3. CASE n >= Warmup(strategy) /\ strategy = "crossover"
  <2>1. signal = Crossover(s, n, b, memory)
    BY <1>3, EvaluateCases
  <2>2. /\ b.qty > 0 => Crossover(s, n, b, memory) \in {Sell, Hold}
        /\ ~(b.qty > 0) => Crossover(s, n, b, memory) \in {Buy, Hold}
    BY Zenon DEF Crossover
  <2> HIDE DEF signal
  <2>3. \/ signal \in {Sell, Hold}
        \/ signal = Buy /\ b.qty = 0
    <3>1. CASE b.qty > 0
      BY <2>1, <2>2, <3>1
    <3>2. CASE ~(b.qty > 0)
      <4>1. signal \in {Buy, Hold} /\ b.qty = 0
        BY <1>1, <2>1, <2>2, <3>2
      <4> QED
        BY <4>1
    <3> QED
      BY <3>1, <3>2
  <2> QED
    BY <1>1, <1>3, <2>3 DEF signal, Sell, Hold, Buy
<1>4. CASE n >= Warmup(strategy) /\ strategy = "donchian"
  <2>1. signal = Donchian(s, n, b)
    BY <1>4, EvaluateCases
  <2>2. /\ b.qty > 0 => Donchian(s, n, b) \in {Sell, Hold}
        /\ ~(b.qty > 0) => Donchian(s, n, b) \in {Buy, Hold}
    BY Zenon DEF Donchian
  <2> HIDE DEF signal
  <2>3. \/ signal \in {Sell, Hold}
        \/ signal = Buy /\ b.qty = 0
    <3>1. CASE b.qty > 0
      BY <2>1, <2>2, <3>1
    <3>2. CASE ~(b.qty > 0)
      <4>1. signal \in {Buy, Hold} /\ b.qty = 0
        BY <1>1, <2>1, <2>2, <3>2
      <4> QED
        BY <4>1
    <3> QED
      BY <3>1, <3>2
  <2> QED
    BY <1>1, <1>4, <2>3 DEF signal, Sell, Hold, Buy
<1>5. CASE n >= Warmup(strategy) /\ strategy = "reversion"
  <2>1. signal = Reversion(s, n, b)
    BY <1>5, EvaluateCases
  <2>2. /\ b.qty > 0 => Reversion(s, n, b) \in {Sell, Hold}
        /\ ~(b.qty > 0) => Reversion(s, n, b) \in {Buy, Hold}
    BY Zenon DEF Reversion
  <2> HIDE DEF signal
  <2>3. \/ signal \in {Sell, Hold}
        \/ signal = Buy /\ b.qty = 0
    <3>1. CASE b.qty > 0
      BY <2>1, <2>2, <3>1
    <3>2. CASE ~(b.qty > 0)
      <4>1. signal \in {Buy, Hold} /\ b.qty = 0
        BY <1>1, <2>1, <2>2, <3>2
      <4> QED
        BY <4>1
    <3> QED
      BY <3>1, <3>2
  <2> QED
    BY <1>1, <1>5, <2>3 DEF signal, Sell, Hold, Buy
<1>6. CASE n >= Warmup(strategy) /\ strategy = "pullback"
  <2> DEFINE low == s[PullbackLowAt(s, n)].low
             entry == [side |-> "BUY", anchor |-> low]
  <2>1. \/ signal \in {Sell, Hold}
        \/ signal = entry /\ ~(b.qty > 0) /\ PullbackLowAt(s, n) = n - 1
    BY <1>6, EvaluateCases DEF Pullback, Recovery
  <2>2. low \in Nat
    <3>1. n > Swing
      BY <1>6, WarmupBounds, StrategyAssumption DEF PullbackParams
    <3>2. s[PullbackLowAt(s, n)] \in Candle
      BY <3>1, SwingSeen DEF Candles
    <3> QED
      BY <3>2, BacktestAssumption
  <2> HIDE DEF signal
  <2> QED
    BY <1>1, <1>6, <2>1, <2>2 DEF signal, Sell, Hold, Anchor
<1> QED
  BY <1>1, <1>2, <1>3, <1>4, <1>5, <1>6 DEF Strategy

\* The room under the caps is an amount, and the exposure cap is one of them.
LEMMA RoomOfCaps ==
    ASSUME NEW c, c.price \in Nat \ {0}, c.value \in Int, c.position \in Int, c.exposure \in Int
    PROVE  /\ Min(Caps(c)) \in Int
           /\ ExposurePct > 0 => Min(Caps(c)) <= Frac(c.value, ExposurePct) - c.exposure
<1> DEFINE x == ((Frac(c.value, PositionPct) \div c.price) - c.position) * c.price
           y == Frac(c.value, ExposurePct) - c.exposure
           z == MaxTrade
           caps == {v \in {[on |-> PositionPct > 0, left |-> x],
                           [on |-> ExposurePct > 0, left |-> y],
                           [on |-> MaxTrade > 0,    left |-> z]} : v.on}
<1>1. x \in Int /\ y \in Int /\ z \in Int
  <2>1. PositionPct \in Int /\ ExposurePct \in Int /\ MaxTrade \in Int
    BY RiskAssumption
  <2>2. Frac(c.value, PositionPct) \in Int /\ Frac(c.value, ExposurePct) \in Int
    BY <2>1, FracInt
  <2>3. Frac(c.value, PositionPct) \div c.price \in Int
    BY <2>2
  <2>4. (Frac(c.value, PositionPct) \div c.price) - c.position \in Int /\ c.price \in Int
    BY <2>3
  <2>5. \A i, j \in Int : i * j \in Int
    OBVIOUS
  <2> QED
    BY <2>1, <2>2, <2>4, <2>5
<1>2. Caps(c) = IF caps = {} THEN {0} ELSE {v.left : v \in caps}
  BY DEF Caps
<1> HIDE DEF x, y, z
<1>3. \A v \in caps : v.left \in {x} \cup {y} \cup {z}
  OBVIOUS
<1> DEFINE on == ExposurePct > 0
           cap == [on |-> on, left |-> y]
<1>4. on => cap \in caps /\ cap.left = y
  <2>1. cap.on = on /\ cap.left = y
    BY Zenon
  <2>2. cap \in caps <=> cap.on
    BY Zenon
  <2> QED
    BY <2>1, <2>2, Zenon
<1> HIDE DEF caps, cap
<1>5. on => \E v \in caps : v.left = y
  BY <1>4
<1>6. /\ Caps(c) \subseteq {0} \cup {x} \cup {y} \cup {z} /\ Caps(c) # {}
      /\ on => y \in Caps(c)
  BY <1>2, <1>3, <1>5
<1>7. IsFiniteSet({0} \cup {x} \cup {y} \cup {z})
  BY FS_Singleton, FS_Union
<1>8. IsFiniteSet(Caps(c)) /\ \A v \in Caps(c) : v \in Int
  BY <1>1, <1>6, <1>7, FS_Subset
<1> QED
  BY <1>6, <1>8, Extrema DEF y

\* What the risk manager approves is a quantity.
LEMMA BuyQuantityNat ==
    ASSUME NEW c, c.price \in Nat \ {0}, c.value \in Int, c.position \in Int, c.exposure \in Int
    PROVE  BuyQuantity(c) \in Nat
<1> DEFINE room == Min(Caps(c))
           q == IF room > 0 THEN FloorTick(room \div c.price) ELSE 0
<1>1. room \in Int
  BY RoomOfCaps
<1> HIDE DEF room
<1>2. q \in Int
  <2>1. room \div c.price \in Int
    BY <1>1
  <2> QED
    BY <2>1, FloorTickWhole
<1> HIDE DEF q
<1>3. Executable(q, c.price) => q \in Nat
  BY <1>2 DEF Executable
<1>4. BuyQuantity(c) \in {0, q} /\ (BuyQuantity(c) = 0 \/ Executable(q, c.price))
  BY DEF BuyQuantity, q, room
<1> QED
  BY <1>3, <1>4

\* A SELL that is approved is for the whole position, and nothing but the price's tick
\* can stand in its way.
LEMMA ApprovedOk ==
    ASSUME NEW b \in Book, NEW mark \in Nat \ {0}, NEW side \in {"BUY", "SELL", "HOLD"}
    PROVE  /\ Approved(b, side, mark) \in Nat
           /\ side = "HOLD" => Approved(b, side, mark) = 0
           /\ side = "SELL" /\ b.qty % QtyTick = 0 /\ Approved(b, side, mark) # 0 =>
                 Approved(b, side, mark) = b.qty
           /\ /\ side = "SELL" /\ mark % PriceTick = 0
              /\ b.qty > 0 /\ b.qty % QtyTick = 0 /\ b.qty >= MinOrder
              => Approved(b, side, mark) = b.qty
<1> DEFINE c == Context(b, mark)
<1>1. /\ c.price = mark /\ c.fresh /\ c.position = b.qty
      /\ c.value \in Int /\ c.exposure \in Int
  <2>1. b.qty * mark \in Nat /\ b.cash \in Nat
    BY ProductNat DEF Book
  <2>2. c.price = mark /\ c.fresh = TRUE /\ c.position = b.qty
        /\ c.value = b.cash + b.qty * mark /\ c.exposure = b.qty * mark
    BY DEF Context
  <2> QED
    BY <2>1, <2>2
<1>2. b.qty \in Nat
  BY DEF Book
<1>3. /\ side = "BUY" => Approved(b, side, mark) = BuyQuantity(c)
      /\ side = "SELL" => Approved(b, side, mark) = SellQuantity(c)
      /\ side = "HOLD" => Approved(b, side, mark) = 0
  BY DEF Approved
<1> HIDE DEF c
<1>4. BuyQuantity(c) \in Nat
  BY <1>1, <1>2, BuyQuantityNat
<1>5. /\ SellQuantity(c) \in Nat
      /\ b.qty % QtyTick = 0 /\ SellQuantity(c) # 0 => SellQuantity(c) = b.qty
      /\ /\ mark % PriceTick = 0
         /\ b.qty > 0 /\ b.qty % QtyTick = 0 /\ b.qty >= MinOrder
         => SellQuantity(c) = b.qty
  <2>1. FloorTick(b.qty) \in Int /\ (b.qty % QtyTick = 0 => FloorTick(b.qty) = b.qty)
    BY <1>2, FloorTickWhole
  <2>2. mark > 0
    OBVIOUS
  <2> QED
    <3> DEFINE q == FloorTick(b.qty)
    <3>1. /\ SellQuantity(c) \in {0, q} /\ (SellQuantity(c) = 0 \/ q > 0)
          /\ Admissible(c) /\ b.qty > 0 /\ Executable(q, mark) => SellQuantity(c) = q
      BY <1>1 DEF SellQuantity, Executable
    <3>2. Admissible(c)
      BY <1>1, <2>2 DEF Admissible
    <3>3. q > 0 /\ q >= MinOrder /\ mark % PriceTick = 0 => Executable(q, mark)
      BY DEF Executable
    <3>4. SellQuantity(c) \in Nat
      <4> HIDE DEF q
      <4> QED
        BY <2>1, <3>1 DEF q
    <3>5. b.qty % QtyTick = 0 => q = b.qty
      BY <2>1
    <3> HIDE DEF q
    <3>6. b.qty % QtyTick = 0 /\ SellQuantity(c) # 0 => SellQuantity(c) = b.qty
      BY <3>1, <3>5
    <3>7. /\ mark % PriceTick = 0 /\ b.qty > 0 /\ b.qty % QtyTick = 0 /\ b.qty >= MinOrder
          => SellQuantity(c) = b.qty
      BY <3>1, <3>2, <3>3, <3>5
    <3> QED
      BY <3>4, <3>6, <3>7
<1> QED
  BY <1>3, <1>4, <1>5

\* An average of positive prices is positive.
LEMMA SmaPositive ==
    ASSUME NEW s, NEW n \in Nat, Candles(s, n), NEW k \in Nat \ {0}, k <= n
    PROVE  Sma(s, n, k) \in Int /\ Sma(s, n, k) > 0
<1> DEFINE S == (n - k + 1)..n
           f == [i \in S |-> s[i].close]
           Bad == {T \in SUBSET S : ~(SumFunctionOnSet(f, T) >= Cardinality(T))}
<1>1. IsFiniteSet(S) /\ Cardinality(S) = k
  <2>1. n - k + 1 \in Int /\ n \in Int /\ ~(n - k + 1 > n)
    OBVIOUS
  <2> QED
    BY <2>1, FS_Interval
<1>2. \A i \in S : f[i] \in Nat /\ f[i] >= 1
  <2> TAKE i \in S
  <2>1. s[i] \in Candle
    BY DEF Candles
  <2>2. ValidCandle(s[i]) /\ s[i].close \in Nat /\ s[i].low \in Nat
    BY <2>1, BacktestAssumption
  <2>3. f[i] = s[i].close
    OBVIOUS
  <2> QED
    BY <2>2, <2>3 DEF ValidCandle
<1> HIDE DEF f, S
<1>3. Bad = {}
  <2> SUFFICES ASSUME Bad # {} PROVE FALSE
    OBVIOUS
  <2>1. PICK T \in Bad : \A U \in Bad : U \subseteq T => U = T
    <3>1. Bad \in SUBSET SUBSET S
      OBVIOUS
    <3> HIDE DEF Bad
    <3> QED
      BY <1>1, <3>1, SmallestSet
  <2>2. IsFiniteSet(T)
    BY <1>1, FS_Subset
  <2>3. T # {}
    BY SumEmpty, FS_EmptySet
  <2>4. PICK x \in T : TRUE
    BY <2>3
  <2>5. SumFunctionOnSet(f, T \ {x}) >= Cardinality(T \ {x})
    BY <2>1, <2>4
  <2>6. SumFunctionOnSet(f, T) = f[x] + SumFunctionOnSet(f, T \ {x})
    BY <1>2, <2>2, <2>4, SumRemove
  <2>7. SumFunctionOnSet(f, T \ {x}) \in Int
    BY <1>2, <2>2, SumInt, FS_Subset
  <2>8. Cardinality(T \ {x}) = Cardinality(T) - 1 /\ Cardinality(T) \in Nat
    BY <2>2, <2>4, FS_RemoveElement, FS_CardinalityType
  <2> QED
    BY <1>2, <2>1, <2>4, <2>5, <2>6, <2>7, <2>8
<1>4. SumFunctionOnSet(f, S) >= k /\ SumFunctionOnSet(f, S) \in Int
  BY <1>1, <1>2, <1>3, SumInt
<1>5. Sma(s, n, k) = SumFunctionOnSet(f, S) \div k
  BY DEF Sma, f, S
<1> QED
  BY <1>4, <1>5

\* The strategy asks for the exit of a long that closes below its anchor.
LEMMA InvalidatedSells ==
    ASSUME strategy = "pullback", NEW s, NEW n \in Nat, Candles(s, n), n >= Warmup(strategy),
           NEW b, b.qty > 0, Invalidated(s, n, b), NEW memory
    PROVE  Evaluate(strategy, s, n, b, memory) = Sell
<1>1. SmaPeriod \in Nat \ {0} /\ SmaPeriod <= n
  <2>1. n >= Warmup("pullback") /\ Warmup("pullback") \in Nat
    BY WarmupBounds DEF Strategy
  <2>2. Warmup("pullback") >= SmaPeriod + Slope
    BY WarmupBounds
  <2> QED
    BY <2>1, <2>2, StrategyAssumption DEF PullbackParams
<1>2. Sma(s, n, SmaPeriod) \in Int /\ Sma(s, n, SmaPeriod) > 0
  BY <1>1, SmaPositive
<1>3. ~(Sma(s, n, SmaPeriod) <= 0)
  BY <1>2
<1>4. Pullback(s, n, b) = Sell
  BY <1>3, Zenon DEF Pullback
<1>5. strategy \in Strategy
  BY DEF Strategy
<1> QED
  BY <1>4, <1>5, EvaluateCases

\* Step 2 of a bar: what it leaves pending fits the book it was decided on.
LEMMA DecidedOk ==
    ASSUME NEW s \in Seq(Candle), NEW n \in 1..Len(s), strategy \in Strategy,
           NEW r \in RunType, Explained(r, s), Whole(r.book, n)
    PROVE  /\ RunOk(Decided(r, s, n), s, n)
           /\ Decided(r, s, n).book = r.book
<1> DEFINE b == r.book
           signal == Evaluate(strategy, s, n, b, r.cross)
           qty == Approved(b, signal.side, s[n].close)
           memory == IF strategy = "crossover" THEN Cross(s, n, r.cross) ELSE r.cross
           order == [side |-> signal.side, qty |-> qty, anchor |-> signal.anchor, at |-> n]
           pending == IF qty = 0 THEN None ELSE order
           d == Decided(r, s, n)
<1>1. n \in Nat \ {0} /\ Candles(s, n) /\ s[n] \in Candle
  <2>1. n \in Nat \ {0} /\ n <= Len(s)
    BY LenProperties
  <2>2. \A i \in 1..n : s[i] \in Candle
    BY <2>1, ElementOfSeq
  <2> QED
    BY <2>1, <2>2 DEF Candles
<1>2. s[n].close \in Nat \ {0}
  BY <1>1, BacktestAssumption DEF ValidCandle
<1>3. /\ b \in Book /\ b.qty \in Nat
      /\ r.cross \in {"unknown", "above", "not above"} /\ r.trades \in Seq(Trade)
  BY DEF RunType, Book
<1>14. b.qty \in Nat
  BY <1>3
<1>4. d = [r EXCEPT !.cross = memory, !.pending = pending]
  BY DEF Decided, Seen
<1>5. /\ signal.side \in {"BUY", "SELL", "HOLD"} /\ signal.anchor \in Anchor
      /\ signal.side = "BUY" =>
            /\ b.qty = 0 /\ n >= Warmup(strategy)
            /\ strategy = "pullback" => signal.anchor = s[n - 1].low
  BY <1>1, <1>3, SignalOk
<1>6. ASSUME ClosesOnTick, strategy = "pullback", b.qty > 0, Invalidated(s, n, b)
      PROVE  signal.side = "SELL" /\ s[n].close % PriceTick = 0
  <2>1. n >= Warmup(strategy)
    BY <1>6 DEF Whole
  <2>2. signal = Sell
    BY <1>1, <1>6, <2>1, InvalidatedSells
  <2> QED
    BY <1>1, <1>6, <2>2 DEF Sell, ClosesOnTick
<1> HIDE DEF signal
<1>7. /\ qty \in Nat
      /\ signal.side = "HOLD" => qty = 0
      /\ signal.side = "SELL" /\ qty # 0 => qty = b.qty
      /\ signal.side = "SELL" /\ s[n].close % PriceTick = 0 /\ b.qty > 0 => qty = b.qty
  <2>1. b.qty = 0 => b.qty % QtyTick = 0
    BY Ticks
  <2>2. b.qty # 0 => b.qty % QtyTick = 0 /\ b.qty >= MinOrder
    <3>1. b.qty # 0 => b.qty > 0
      BY <1>14
    <3> QED
      BY <3>1 DEF Whole
  <2> QED
    BY <1>2, <1>3, <1>5, <2>1, <2>2, ApprovedOk
<1>8. memory \in {"unknown", "above", "not above"}
  BY <1>3 DEF Cross
<1> HIDE DEF qty, memory
<1>9. pending \in Order
  BY <1>1, <1>5, <1>7 DEF None, Order, Anchor
<1> HIDE DEF d
<1>10. /\ d \in RunType /\ d.book = b /\ d.trades = r.trades /\ d.pending = pending
  <2> HIDE DEF pending
  <2> QED
    BY <1>3, <1>4, <1>8, <1>9 DEF RunType
<1>11. Explained(d, s) /\ Whole(d.book, n)
  BY <1>10 DEF Explained
<1>12. Ready(d, s, n)
  <2>1. CASE qty = 0
    BY <1>10, <2>1 DEF Ready, None
  <2>2. CASE qty # 0
    <3>1. d.pending = order /\ order.side \in {"BUY", "SELL"} /\ order # None
      BY <1>5, <1>7, <1>10, <2>2 DEF None
    <3> QED
      BY <1>5, <1>7, <1>10, <2>2, <3>1 DEF Ready
  <2> QED
    BY <2>1, <2>2
<1>13. ClosesOnTick => Leaving(d, s, n)
  <2> SUFFICES ASSUME ClosesOnTick, strategy = "pullback", b.qty > 0, Invalidated(s, n, b)
               PROVE  d.pending.side = "SELL"
    BY <1>10 DEF Leaving
  <2>1. signal.side = "SELL" /\ qty = b.qty
    BY <1>6, <1>7
  <2>2. qty # 0
    BY <2>1
  <2> QED
    BY <1>10, <2>1, <2>2
<1> QED
  BY <1>10, <1>11, <1>12, <1>13 DEF RunOk, d

----------------------------------------------------------------------------
(* The books of every run *)

\* A run that has not begun.
LEMMA FreshOk == ASSUME NEW s PROVE RunOk(Fresh, s, 0)
<1>1. InitialCash \in Nat
  <2>1. ValidConfig
    BY BacktestAssumption
  <2> QED
    BY <2>1 DEF ValidConfig
<1>2. Fresh \in RunType /\ Fresh.book.qty = 0 /\ Fresh.book.cash = InitialCash
      /\ Fresh.trades = <<>> /\ Fresh.pending = None
  <2>1. None \in Order /\ Nothing \in Anchor /\ <<>> \in Seq(Trade)
    BY DEF None, Order, Anchor
  <2> QED
    BY <1>1, <2>1 DEF Fresh, RunType, Book
<1>3. TotalPaid(<<>>) = 0 /\ TotalMoved(<<>>) = 0
  <2>1. DOMAIN <<>> = {}
    OBVIOUS
  <2> QED
    BY <2>1, SumEmpty DEF TotalPaid, TotalMoved
<1>4. Explained(Fresh, s)
  BY <1>1, <1>2, <1>3 DEF Explained
<1>5. Ready(Fresh, s, 0)
  BY <1>2 DEF Ready, None
<1>6. Whole(Fresh.book, 0) /\ Leaving(Fresh, s, 0)
  BY <1>2 DEF Whole, Leaving
<1> QED
  BY <1>2, <1>4, <1>5, <1>6 DEF RunOk

\* A bar of the backtest; the book after it is the one its fill left.
LEMMA StepBooks ==
    ASSUME BtInv, BookInv, Step
    PROVE  BookInv' /\ run'.book = Filled(run, series[bar + 1], bar + 1).book
<1> DEFINE n == bar + 1
           f == Filled(run, series[n], n)
<1>1. /\ n \in 1..Len(series) /\ bar = n - 1 /\ series \in Seq(Candle)
      /\ strategy \in Strategy /\ bar' = n /\ run' = Decided(f, series, n)
      /\ strategy' = strategy /\ series' = series
  <2>1. series \in Seq(Candle) /\ bar \in Nat /\ bar < Len(series)
    BY DEF Step, BtInv, BtTypes
  <2>2. Len(series) \in Nat
    BY <2>1, LenProperties
  <2>3. n \in 1..Len(series) /\ bar = n - 1
    BY <2>1, <2>2
  <2> QED
    BY <2>1, <2>3 DEF Step, BtInv, BtTypes, AfterBar
<1>2. BtTypes'
  BY StepTypes DEF BtInv
<1>3. RunOk(run, series, n - 1)
  BY <1>1 DEF BookInv
<1> HIDE DEF n
<1>4. f \in RunType /\ Explained(f, series) /\ Whole(f.book, n)
  BY <1>1, <1>3, FilledOk
<1> HIDE DEF f
<1>5. RunOk(run', series, n) /\ run'.book = f.book
  BY <1>1, <1>4, DecidedOk
<1>6. RunOk(run, series, bar)'
  BY <1>1, <1>5 DEF RunOk, Explained, Whole, Ready, Leaving
<1> QED
  BY <1>2, <1>5, <1>6 DEF BookInv, f, n

\* Only a bar changes the books.
LEMMA BooksInductive ==
    ASSUME BtInv, BookInv, [BtNext]_allVars
    PROVE  BookInv'
<1>1. CASE UNCHANGED allVars
  BY <1>1 DEF BookInv, BtTypes, AcqTypes, RunOk, Explained, Whole, Ready, Leaving,
              allVars, acqVars, btVars
<1>2. ASSUME Acquire \/ Load PROVE BookInv'
  <2>1. BtTypes'
    BY <1>2, AcquireTypes, LoadTypes DEF BtInv
  <2>2. run' = Fresh /\ bar' = 0 /\ strategy' = strategy
    BY <1>2 DEF Acquire, AcqNext, Ask, Finish, Load, btVars, BtInv, BtTypes
  <2>3. RunOk(Fresh, series', 0)
    BY FreshOk
  <2>4. RunOk(run, series, bar)'
    BY <2>2, <2>3 DEF RunOk, Explained, Whole, Ready, Leaving
  <2> QED
    BY <2>1, <2>4 DEF BookInv
<1> QED
  BY <1>1, <1>2, StepBooks DEF BtNext

\* The invariant of the books, along every behaviour.
LEMMA BooksOk == BtSpec => [](BtInv /\ BookInv)
<1>1. BtInit => BtInv /\ BookInv
  <2> SUFFICES ASSUME BtInit PROVE BtInv /\ BookInv
    OBVIOUS
  <2>1. BtInv
    BY BtInitTypes
  <2>2. RunOk(run, series, bar)
    BY FreshOk DEF BtInit
  <2> QED
    BY <2>1, <2>2 DEF BookInv, BtInv
<1>2. BtInv /\ BookInv /\ [BtNext]_allVars => (BtInv /\ BookInv)'
  BY BtInductive, BooksInductive
<1> QED
  BY <1>1, <1>2, PTL DEF BtSpec

\* The trades of a report explain its book, for any candles, prices, fees, spread and
\* slippage, risk limits and strategy (executePending, Portfolio.applyFill).
THEOREM BacktestBooksAreExplained == BtSpec => []TradesExplainTheBook
<1>1. BtInv /\ BookInv => TradesExplainTheBook
  <2> SUFFICES ASSUME BookInv PROVE TradesExplainTheBook
    OBVIOUS
  <2>1. run.book.cash >= 0 /\ run.book.qty >= 0
    <3>1. run.book \in Book
      BY DEF BookInv, RunOk, RunType
    <3>2. run.book.cash \in Nat /\ run.book.qty \in Nat
      BY <3>1 DEF Book
    <3> QED
      BY <3>2
  <2> QED
    BY <2>1 DEF BookInv, RunOk, Explained, TradesExplainTheBook
<1> QED
  BY <1>1, BooksOk, PTL

\* When candles close on the market's price tick, a long that closes below its anchor is
\* sold at the next open (TrendPullbackRecovery exitSignal, RiskManager.evaluateSell,
\* executePending).  Off the tick evaluateSell refuses the exit: the hypothesis is needed.
THEOREM InvalidatedLongsLeave ==
    ASSUME ClosesOnTick PROVE BtSpec => InvalidatedLongIsSold
<1> DEFINE Sale ==
        bar > 0 /\ bar' > bar /\ strategy = "pullback" /\ run.book.qty > 0
          /\ Invalidated(series, bar, run.book)
          /\ FillPrice(series[bar + 1].open, "SELL") > 0
        => run'.book.qty = 0
<1>1. BtInv /\ BookInv /\ [BtNext]_allVars => [Sale]_allVars
  <2> SUFFICES ASSUME BtInv, BookInv, BtNext,
                      bar > 0, bar' > bar, strategy = "pullback", run.book.qty > 0,
                      Invalidated(series, bar, run.book),
                      FillPrice(series[bar + 1].open, "SELL") > 0
               PROVE  run'.book.qty = 0
    OBVIOUS
  <2> DEFINE o == run.pending
             b == run.book
             p == FillPrice(series[bar + 1].open, o.side)
  <2>1. Step
    <3>1. bar \in Nat
      BY DEF BtInv, BtTypes
    <3>2. ~(bar' = bar)
      BY <3>1
    <3> QED
      BY <3>2 DEF BtNext, Acquire, Load, btVars
  <2>2. /\ b \in Book /\ b.qty \in Nat \ {0}
        /\ o.side = "SELL" /\ o.qty = b.qty /\ o # None
        /\ b.qty % QtyTick = 0 /\ b.qty >= MinOrder
    <3>1. RunOk(run, series, bar)
      BY DEF BookInv
    <3>2. b \in Book /\ b.qty \in Nat
      BY <3>1 DEF RunOk, RunType, Book
    <3>3. o.side = "SELL"
      BY <3>1 DEF RunOk, Leaving
    <3>4. o.qty = b.qty /\ o # None
      BY <3>1, <3>3 DEF RunOk, Ready
    <3>5. b.qty % QtyTick = 0 /\ b.qty >= MinOrder
      BY <3>1 DEF RunOk, Whole
    <3> QED
      BY <3>2, <3>3, <3>4, <3>5
  <2>3. p > 0 /\ p \in Nat
    <3>1. series[bar + 1] \in Candle
      BY <2>1, ElementOfSeq, LenProperties DEF Step, BtInv, BtTypes
    <3>2. series[bar + 1].open \in Nat
      BY <3>1, BacktestAssumption
    <3>3. p \in Int /\ p > 0
      BY <2>2, <3>2, FillPriceInt
    <3> QED
      BY <3>3
  <2>4. ~Refused(b, o, series[bar + 1].open)
    <3>1. o.qty > 0 /\ ~(p <= 0) /\ ~(o.qty < MinOrder) /\ ~(o.qty > b.qty)
      BY <2>2, <2>3, Ticks
    <3> HIDE DEF p
    <3>2. ~(o.qty <= 0) /\ o.qty % QtyTick = 0
      BY <2>2
    <3> QED
      BY <2>2, <3>1, <3>2, Zenon DEF Refused, p
  <2>5. Filled(run, series[bar + 1], bar + 1).book = Sold(b, o.qty, p)
    BY <2>2, <2>4 DEF Filled, BookInv, RunOk, RunType
  <2>6. Sold(b, o.qty, p).qty = 0
    BY <2>2, <2>3, SoldFields
  <2> QED
    BY <2>1, <2>5, <2>6, StepBooks
<1> QED
  BY <1>1, BooksOk, PTL DEF BtSpec, InvalidatedLongIsSold

----------------------------------------------------------------------------
(* The dataset *)

\* The i-th page asks for the dates PageLo(i)..PageHi(i).
PageLo(i) == from + (i - 1) * PageTicks
PageHi(i) == Min({PageLo(i) + PageTicks - 1, To})

\* An answer to that page: bars the exchange has for it, without a gap up to the last.
Answered(page, i) ==
    /\ page \subseteq market
    /\ \A k \in page : Matches(k, PageLo(i), PageHi(i))
    /\ \A k \in market, j \in page :
          Matches(k, PageLo(i), PageHi(i)) /\ j <= k => k \in page

Headed(page, i) == \E k \in page : k * Bar <= PageLo(i) + Bar

\* Every page is an answer to its request; one without its head is empty or the first
\* that is not.
AcqInv ==
    /\ outcome # "loaded" =>
          from \in Nat /\ from < To /\ filter \in {"start", "end", "after"}
    /\ \A i \in 1..Len(pages) :
          /\ Answered(pages[i], i)
          /\ \/ pages[i] = {} \/ Headed(pages[i], i)
             \/ \A j \in 1..(i - 1) : pages[j] = {}
    /\ outcome = "" => Answered(best, Len(pages) + 1)
    /\ outcome # "duplicate"
    /\ outcome = "written" => file = InRange /\ file # {} /\ warned = Short(file)

\* The bounds of a request, and the next one's.
LEMMA PageBounds ==
    ASSUME from \in Nat, NEW i \in Nat \ {0}
    PROVE  /\ PageTicks \in Nat \ {0} /\ Bar \in Nat \ {0} /\ To \in Nat
           /\ PageLo(i) \in Nat /\ PageHi(i) \in Int
           /\ PageHi(i) < PageLo(i) + PageTicks
           /\ \A x \in Int : x < PageLo(i) + PageTicks /\ x <= To => x <= PageHi(i)
           /\ \A j \in Nat : i < j => PageLo(i) + PageTicks <= PageLo(j)
<1>1. PageTicks \in Nat \ {0} /\ Bar \in Nat \ {0} /\ To \in Nat
  BY AcquisitionAssumption DEF PageTicks
<1>2. PageLo(i) \in Nat
  BY <1>1 DEF PageLo
<1>3. PageHi(i) \in {PageLo(i) + PageTicks - 1, To}
      /\ PageHi(i) <= PageLo(i) + PageTicks - 1 /\ PageHi(i) <= To /\ PageHi(i) \in Int
  <2>1. PageLo(i) + PageTicks - 1 \in Int /\ To \in Int
    BY <1>1, <1>2
  <2> QED
    BY <2>1, MinOfTwo DEF PageHi
<1>4. \A j \in Nat : i < j => PageLo(i) + PageTicks <= PageLo(j)
  BY <1>1 DEF PageLo
<1> HIDE DEF PageLo, PageHi
<1> QED
  BY <1>1, <1>2, <1>3, <1>4

\* What the exchange compares, by filter.
LEMMA MatchesCases ==
    ASSUME NEW k, NEW lo, NEW hi
    PROVE  /\ filter = "start" => (Matches(k, lo, hi) <=> (k - 1) * Bar \in lo..hi)
           /\ filter = "end" => (Matches(k, lo, hi) <=> k * Bar \in lo..hi)
           /\ filter = "after" => (Matches(k, lo, hi) <=> k * Bar \in (lo + 1)..hi)
BY DEF Matches

\* A later page holds later bars, whichever end of a bar the exchange compares.
LEMMA PagesOrdered ==
    ASSUME from \in Nat, filter \in {"start", "end", "after"},
           NEW i \in Nat \ {0}, NEW j \in Nat \ {0}, i < j,
           NEW k \in Int, Matches(k, PageLo(i), PageHi(i)),
           NEW m \in Int, Matches(m, PageLo(j), PageHi(j))
    PROVE  k < m
<1>1. /\ PageLo(i) \in Int /\ PageHi(i) \in Int /\ PageLo(j) \in Int /\ PageHi(j) \in Int
      /\ PageHi(i) < PageLo(j) /\ Bar \in Nat \ {0}
  <2>1. /\ PageLo(i) \in Int /\ PageHi(i) \in Int /\ PageTicks \in Nat \ {0}
        /\ PageHi(i) < PageLo(i) + PageTicks /\ PageLo(i) + PageTicks <= PageLo(j)
        /\ Bar \in Nat \ {0}
    BY PageBounds
  <2>2. PageLo(j) \in Int /\ PageHi(j) \in Int
    BY PageBounds
  <2> QED
    BY <2>1, <2>2
<1>2. (k - 1) * Bar = k * Bar - Bar /\ (m - 1) * Bar = m * Bar - Bar
      /\ k * Bar \in Int /\ m * Bar \in Int
  BY <1>1
<1>3. k * Bar < m * Bar
  <2>1. CASE filter = "start"
    BY <1>1, <1>2, <2>1, MatchesCases
  <2>2. CASE filter = "end"
    BY <1>1, <1>2, <2>2, MatchesCases
  <2>3. CASE filter = "after"
    BY <1>1, <1>2, <2>3, MatchesCases
  <2> QED
    BY <2>1, <2>2, <2>3
<1> QED
  BY <1>1, <1>3

\* What the exchange may answer answers the current request.
LEMMA AnswersAnswer ==
    ASSUME from \in Nat, pages \in Seq(Bars), market \in Bars, NEW page \in Answers
    PROVE  /\ Answered(page, Len(pages) + 1)
           /\ Cursor = PageLo(Len(pages) + 1) /\ PageTo = PageHi(Len(pages) + 1)
<1> DEFINE n == Len(pages)
<1>1. n \in Nat /\ (n + 1) - 1 = n
  BY LenProperties
<1>2. Cursor = PageLo(n + 1)
  BY <1>1 DEF Cursor, PageLo
<1>3. PageTo = PageHi(n + 1)
  BY <1>2 DEF PageTo, PageHi
<1> DEFINE all == {k \in market : Matches(k, PageLo(n + 1), PageHi(n + 1))}
<1>4. page \in {{}} \cup {{k \in all : k >= j} : j \in all}
  BY <1>2, <1>3 DEF Answers
<1>5. \A k \in market : k \in Int
  BY DEF Bars
<1> HIDE DEF n
<1>6. ASSUME page = {} PROVE Answered(page, n + 1)
  BY <1>6 DEF Answered
<1>7. ASSUME page # {} PROVE Answered(page, n + 1)
  <2>1. PICK b \in all : page = {k \in all : k >= b}
    BY <1>4, <1>7
  <2>2. \A k \in market, j \in page :
            Matches(k, PageLo(n + 1), PageHi(n + 1)) /\ j <= k => k \in page
    BY <1>5, <2>1
  <2> QED
    BY <2>1, <2>2 DEF Answered
<1>8. Answered(page, n + 1)
  BY <1>6, <1>7
<1> QED
  BY <1>2, <1>3, <1>8 DEF n

\* Answers stay answers while request and market do.
LEMMA AnsweredSame ==
    ASSUME from' = from, market' = market, filter' = filter, NEW page, NEW i
    PROVE  /\ Answered(page, i)' <=> Answered(page, i)
           /\ Headed(page, i)' <=> Headed(page, i)
BY DEF Answered, Headed, PageLo, PageHi, Matches

\* One page more: what held for each page goes on to hold for it.
LEMMA OnePageMore ==
    ASSUME NEW q \in Seq(Bars), NEW page \in Bars
    PROVE  \A i \in 1..Len(Append(q, page)) :
              \/ /\ i = Len(q) + 1 /\ Append(q, page)[i] = page
                 /\ \A j \in 1..(i - 1) : j \in 1..Len(q) /\ Append(q, page)[j] = q[j]
              \/ /\ i \in 1..Len(q) /\ Append(q, page)[i] = q[i]
                 /\ \A j \in 1..(i - 1) : j \in 1..Len(q) /\ Append(q, page)[j] = q[j]
<1>1. Len(q) \in Nat /\ Len(Append(q, page)) = Len(q) + 1
  BY AppendProperties, LenProperties
<1>2. Append(q, page)[Len(q) + 1] = page /\ \A j \in 1..Len(q) : Append(q, page)[j] = q[j]
  BY AppendProperties
<1> TAKE i \in 1..Len(Append(q, page))
<1>3. CASE i = Len(q) + 1
  BY <1>1, <1>2, <1>3
<1>4. CASE i \in 1..Len(q)
  BY <1>1, <1>2, <1>4
<1> QED
  BY <1>1, <1>3, <1>4

\* A page that is accepted, and what the next one starts from.
LEMMA AcceptOk ==
    ASSUME BtInv, AcqInv, outcome = "", NEW page \in Bars, Accept(page),
           from' = from, market' = market, filter' = filter,
           Answered(page, Len(pages) + 1),
           \/ page = {} \/ Headed(page, Len(pages) + 1)
           \/ \A j \in 1..Len(pages) : pages[j] = {}
    PROVE  AcqInv'
<1>1. pages \in Seq(Bars) /\ pages' = Append(pages, page) /\ best' = {} /\ outcome' = ""
  BY Zenon DEF Accept, BtInv, BtTypes, AcqTypes
<1>2. ASSUME NEW i \in 1..Len(pages')
      PROVE  /\ Answered(pages'[i], i)
             /\ \/ pages'[i] = {} \/ Headed(pages'[i], i)
                \/ \A j \in 1..(i - 1) : pages'[j] = {}
  <2>1. \/ /\ i = Len(pages) + 1 /\ pages'[i] = page
           /\ \A j \in 1..(i - 1) : j \in 1..Len(pages) /\ pages'[j] = pages[j]
        \/ /\ i \in 1..Len(pages) /\ pages'[i] = pages[i]
           /\ \A j \in 1..(i - 1) : j \in 1..Len(pages) /\ pages'[j] = pages[j]
    <3> DEFINE u == Append(pages, page)
    <3>1. i \in 1..Len(u)
      BY <1>1
    <3>2. \/ /\ i = Len(pages) + 1 /\ u[i] = page
             /\ \A j \in 1..(i - 1) : j \in 1..Len(pages) /\ u[j] = pages[j]
          \/ /\ i \in 1..Len(pages) /\ u[i] = pages[i]
             /\ \A j \in 1..(i - 1) : j \in 1..Len(pages) /\ u[j] = pages[j]
      BY <1>1, <3>1, OnePageMore, Zenon
    <3>3. pages' = u
      BY <1>1
    <3> HIDE DEF u
    <3> QED
      BY <3>2, <3>3, Zenon
  <2>2. CASE i = Len(pages) + 1 /\ pages'[i] = page
    BY <2>1, <2>2, Zenon
  <2>3. CASE i \in 1..Len(pages) /\ pages'[i] = pages[i]
    BY <2>1, <2>3, Zenon DEF AcqInv
  <2> QED
    BY <2>1, <2>2, <2>3, Zenon
<1>3. ASSUME NEW i \in 1..Len(pages')
      PROVE  /\ Answered(pages[i], i)'
             /\ \/ pages'[i] = {} \/ Headed(pages[i], i)'
                \/ \A j \in 1..(i - 1) : pages'[j] = {}
  BY <1>2, AnsweredSame DEF Answered, Headed, PageLo, PageHi, Matches
<1>4. Answered(best, Len(pages) + 1)'
  BY <1>1 DEF Answered
<1> QED
  BY <1>1, <1>3, <1>4 DEF AcqInv

\* One request: the page is accepted, asked for again, or the acquisition ends.
LEMMA AskOk ==
    ASSUME BtInv, AcqInv, Ask PROVE AcqInv'
<1>1. /\ outcome = "" /\ from' = from /\ market' = market /\ filter' = filter
      /\ from \in Nat /\ market \in Bars /\ pages \in Seq(Bars) /\ best \in Bars
      /\ Answered(best, Len(pages) + 1)
  BY DEF Ask, AcqInv, BtInv, BtTypes, AcqTypes
<1>2. ASSUME NEW why, Fail(why), why # "", why # "loaded", why # "duplicate", why # "written"
      PROVE  AcqInv'
  BY <1>1, <1>2, AnsweredSame DEF AcqInv, Fail, Answered, Headed, PageLo, PageHi, Matches
<1>3. ASSUME NEW page \in Answers,
             LET better == IF Better(page, best) THEN page ELSE best IN
             IF CoversHead(page) THEN Accept(page)
             ELSE IF attempt + 1 < PageAttempts
             THEN /\ attempt' = attempt + 1 /\ best' = better
                  /\ UNCHANGED <<pages, outcome, file, warned>>
             ELSE GivesUp(better)
      PROVE  AcqInv'
  <2> DEFINE better == IF Better(page, best) THEN page ELSE best
  <2>1. Answered(page, Len(pages) + 1) /\ page \in Bars
    BY <1>1, AnswersAnswer DEF Answered, Bars
  <2>2. Answered(better, Len(pages) + 1) /\ better \in Bars
    BY <1>1, <2>1
  <2> HIDE DEF better
  <2>3. CASE CoversHead(page)
    <3>1. page # {} /\ Min(page) * Bar <= PageLo(Len(pages) + 1) + Bar
      BY <1>1, <2>3, AnswersAnswer DEF CoversHead
    <3>2. Min(page) \in page
      <4>1. IsFiniteSet(page) /\ \A x \in page : x \in Int
        BY <2>1, BarsFinite DEF Bars
      <4> QED
        BY <3>1, <4>1, Extrema
    <3>3. Headed(page, Len(pages) + 1)
      BY <3>1, <3>2 DEF Headed
    <3>4. Accept(page)
      BY <1>3, <2>3
    <3> QED
      BY <1>1, <2>1, <3>3, <3>4, AcceptOk
  <2>4. CASE ~CoversHead(page) /\ attempt + 1 < PageAttempts
    <3>1. best' = better /\ UNCHANGED <<pages, outcome, file, warned>>
      BY <1>3, <2>4 DEF better
    <3> QED
      BY <1>1, <2>2, <3>1, AnsweredSame DEF AcqInv, Answered, Headed, PageLo, PageHi, Matches
  <2>5. CASE ~CoversHead(page) /\ ~(attempt + 1 < PageAttempts)
    <3>1. GivesUp(better)
      BY <1>3, <2>5 DEF better
    <3>2. CASE better # {} /\ Raw # {}
      BY <1>2, <3>1, <3>2 DEF GivesUp
    <3>3. CASE ~(better # {} /\ Raw # {})
      <4>1. Accept(better)
        BY <3>1, <3>3 DEF GivesUp
      <4>2. Raw = {} => \A j \in 1..Len(pages) : pages[j] = {}
        <5>1. ASSUME NEW j \in 1..Len(pages), NEW x \in pages[j] PROVE x \in Raw
          <6>1. j \in DOMAIN pages
            BY <1>1, LenProperties
          <6> QED
            BY <6>1 DEF Raw, Range
        <5> QED
          BY <5>1
      <4> QED
        BY <1>1, <2>2, <3>3, <4>1, <4>2, AcceptOk
    <3> QED
      BY <3>2, <3>3
  <2> QED
    BY <2>3, <2>4, <2>5
<1> QED
  BY <1>2, <1>3 DEF Ask

\* The end: two pages never share a bar, so the dataset is written unless it is empty.
LEMMA FinishOk ==
    ASSUME BtInv, AcqInv, Finish PROVE AcqInv'
<1>1. /\ outcome = "" /\ from' = from /\ market' = market /\ filter' = filter /\ pages' = pages
      /\ from \in Nat /\ filter \in {"start", "end", "after"}
      /\ market \in Bars /\ pages \in Seq(Bars)
  BY DEF Finish, Fail, AcqInv, BtInv, BtTypes, AcqTypes
<1>2. ~Duplicated
  <2> SUFFICES ASSUME NEW i \in DOMAIN pages, NEW j \in DOMAIN pages, i < j,
                      NEW k \in pages[i], k \in pages[j]
               PROVE  FALSE
    BY DEF Duplicated
  <2>4. DOMAIN pages = 1..Len(pages) /\ Len(pages) \in Nat
    BY <1>1, LenProperties
  <2>1. /\ i \in Nat \ {0} /\ j \in Nat \ {0}
        /\ i \in 1..Len(pages) /\ j \in 1..Len(pages)
    BY <2>4
  <2>5. Answered(pages[i], i) /\ Answered(pages[j], j)
    BY <2>1 DEF AcqInv
  <2>2. Matches(k, PageLo(i), PageHi(i)) /\ Matches(k, PageLo(j), PageHi(j)) /\ k \in Int
    <3>1. Matches(k, PageLo(i), PageHi(i)) /\ Matches(k, PageLo(j), PageHi(j)) /\ k \in market
      BY <2>5 DEF Answered
    <3>2. \A x \in market : x \in Int
      BY <1>1, BarsInt
    <3> QED
      BY <3>1, <3>2
  <2>3. k < k
    BY <1>1, <2>1, <2>2, PagesOrdered
  <2> QED
    BY <2>2, <2>3
<1>3. /\ outcome' # "" /\ outcome' # "loaded" /\ outcome' # "duplicate"
      /\ outcome' = "written" => file' = InRange /\ InRange # {} /\ warned' = Short(InRange)
  BY <1>2 DEF Finish, Fail
<1>4. InRange' = InRange
  BY <1>1 DEF InRange, Raw
<1>5. Short(InRange)' = Short(InRange)
  BY <1>1, <1>4 DEF Short
<1>6. outcome' = "written" => file' = InRange' /\ file' # {} /\ warned' = Short(file)'
  BY <1>1, <1>3, <1>4, <1>5 DEF Short
<1>7. \A i \in 1..Len(pages') :
          /\ Answered(pages[i], i)'
          /\ \/ pages'[i] = {} \/ Headed(pages[i], i)'
             \/ \A j \in 1..(i - 1) : pages'[j] = {}
  BY <1>1, AnsweredSame DEF AcqInv, Answered, Headed, PageLo, PageHi, Matches
<1> QED
  BY <1>1, <1>3, <1>6, <1>7 DEF AcqInv

\* The invariant of the pages is kept by the backtest too, and holds at first.
LEMMA AcqInductive ==
    ASSUME BtInv, AcqInv, [BtNext]_allVars PROVE AcqInv'
<1>1. ASSUME UNCHANGED acqVars PROVE AcqInv'
  <2>1. /\ from' = from /\ market' = market /\ filter' = filter /\ pages' = pages
        /\ outcome' = outcome /\ best' = best /\ file' = file /\ warned' = warned
    BY <1>1 DEF acqVars
  <2>2. \A i \in 1..Len(pages') :
            /\ Answered(pages[i], i)'
            /\ \/ pages'[i] = {} \/ Headed(pages[i], i)'
               \/ \A j \in 1..(i - 1) : pages'[j] = {}
    BY <2>1, AnsweredSame DEF AcqInv, Answered, Headed, PageLo, PageHi, Matches
  <2>3. outcome' = "" => Answered(best, Len(pages) + 1)'
    BY <2>1, AnsweredSame DEF AcqInv, Answered, PageLo, PageHi, Matches
  <2>4. outcome' = "written" => file' = InRange' /\ file' # {} /\ warned' = Short(file)'
    BY <2>1 DEF AcqInv, InRange, Raw, Short
  <2> QED
    BY <2>1, <2>2, <2>3, <2>4 DEF AcqInv
<1>2. CASE Load
  <2>1. pages' = <<>> /\ outcome' = "loaded"
    BY <1>2 DEF Load
  <2>2. \A i \in 1..Len(pages') : FALSE
    BY <2>1
  <2> QED
    BY <2>1, <2>2 DEF AcqInv
<1> QED
  BY <1>1, <1>2, AskOk, FinishOk DEF BtNext, Acquire, AcqNext, Step, allVars

\* No page is there at first.
LEMMA AcqStarts == BtInit => AcqInv
<1> SUFFICES ASSUME BtInit PROVE AcqInv
  OBVIOUS
<1>1. /\ from \in From /\ filter \in {"start", "end", "after"}
      /\ pages = <<>> /\ best = {} /\ outcome = ""
  BY DEF BtInit, AcqInit
<1>2. from \in Nat /\ from < To
  <2>1. To \in Nat \ {0} /\ From \subseteq 0..(To - 1)
    BY AcquisitionAssumption
  <2>2. from \in 0..(To - 1)
    BY <1>1, <2>1
  <2> QED
    BY <2>1, <2>2
<1>3. (\A i \in 1..Len(pages) : FALSE) /\ Answered(best, Len(pages) + 1)
  <2>1. \A i \in 1..Len(pages) : FALSE
    <3>1. Len(pages) = 0
      BY <1>1
    <3> QED
      BY <3>1
  <2> QED
    BY <1>1, <2>1 DEF Answered
<1> QED
  BY <1>1, <1>2, <1>3 DEF AcqInv

\* A bar that the exchange has and the dataset does not is not behind one of its page.
LEMMA MissingByPages ==
    ASSUME BtInv, AcqInv, outcome = "written", filter = "start",
           NEW k \in market \ file, k * Bar \in (Min(file) * Bar)..To,
           NEW j \in file
    PROVE  PageOf(j) # PageOf(k)
<1> SUFFICES ASSUME PageOf(j) = PageOf(k) PROVE FALSE
  OBVIOUS
<1>1. /\ from \in Nat /\ market \in Bars /\ file \in Bars /\ pages \in Seq(Bars)
      /\ file = InRange /\ file # {}
  BY DEF BtInv, BtTypes, AcqTypes, AcqInv
<1>2. /\ k \in Int /\ j \in Int /\ Min(file) \in Int /\ Min(file) \in file
      /\ Bar \in Nat \ {0} /\ PageTicks \in Nat \ {0} /\ To \in Nat
  <2>1. IsFiniteSet(file) /\ \A x \in file : x \in Int
    BY <1>1, BarsFinite DEF Bars
  <2>2. \A x \in market : x \in Int
    BY <1>1 DEF Bars
  <2>3. Min(file) \in file
    BY <1>1, <2>1, Extrema
  <2> QED
    BY <2>1, <2>2, <2>3, AcquisitionAssumption DEF PageTicks
<1>3. DOMAIN pages = 1..Len(pages) /\ Len(pages) \in Nat
  BY <1>1, LenProperties
<1>4. \A x \in file : /\ x * Bar \in from..To
                      /\ \E i \in 1..Len(pages) : x \in pages[i]
  BY <1>1, <1>3 DEF InRange, Raw, Range
<1>5. k \notin Raw
  <2>1. Min(file) * Bar >= from /\ Min(file) * Bar \in Int /\ k * Bar \in Int
    BY <1>2, <1>4
  <2>2. k * Bar \in from..To
    BY <1>1, <1>2, <2>1
  <2> QED
    BY <1>1, <2>2 DEF InRange
<1>6. PICK i \in 1..Len(pages) : j \in pages[i]
  BY <1>4
<1>7. i \in Nat \ {0} /\ Answered(pages[i], i)
  BY <1>3 DEF AcqInv
<1>8. /\ PageLo(i) \in Nat /\ PageHi(i) \in Int /\ PageHi(i) < PageLo(i) + PageTicks
      /\ \A x \in Int : x < PageLo(i) + PageTicks /\ x <= To => x <= PageHi(i)
  BY <1>1, <1>7, PageBounds
\* The bar is one of those the page asked for.
<1>9. (k - 1) * Bar \in PageLo(i)..PageHi(i)
  <2> DEFINE x == (k - 1) * Bar - from
             y == (j - 1) * Bar - from
  <2>1. x \in Int /\ y \in Int /\ (k - 1) * Bar = x + from /\ (j - 1) * Bar = y + from
        /\ (k - 1) * Bar <= To
    <3>1. (k - 1) * Bar \in Int /\ (j - 1) * Bar \in Int /\ (k - 1) * Bar = k * Bar - Bar
      BY <1>2
    <3> QED
      BY <1>1, <1>2, <3>1
  <2>2. (j - 1) * Bar \in PageLo(i)..PageHi(i)
    BY <1>6, <1>7, MatchesCases DEF Answered
  <2>3. x \div PageTicks = y \div PageTicks
    BY DEF PageOf
  <2>4. PageLo(i) = from + (i - 1) * PageTicks
    BY DEF PageLo
  <2> HIDE DEF x, y
  <2>5. i - 1 \in Int /\ (i - 1) * PageTicks \in Int
    BY <1>2, <1>7
  <2>6. y >= (i - 1) * PageTicks /\ y < (i - 1) * PageTicks + PageTicks
    BY <1>1, <1>2, <1>8, <2>1, <2>2, <2>4, <2>5
  <2>7. \A a, b \in Int : b >= a * PageTicks /\ b < a * PageTicks + PageTicks
                             => b \div PageTicks = a
    BY <1>2
  <2>8. y \div PageTicks = i - 1
    BY <2>1, <2>5, <2>6, <2>7
  <2>9. x >= (x \div PageTicks) * PageTicks /\ x < (x \div PageTicks) * PageTicks + PageTicks
    BY <1>2, <2>1
  <2>10. x >= (i - 1) * PageTicks /\ x < (i - 1) * PageTicks + PageTicks
    BY <2>3, <2>8, <2>9
  <2>11. (k - 1) * Bar >= PageLo(i) /\ (k - 1) * Bar < PageLo(i) + PageTicks
    <3> DEFINE z == (i - 1) * PageTicks
               w == (k - 1) * Bar
    <3>1. z \in Int /\ x >= z /\ x < z + PageTicks /\ PageLo(i) = from + z /\ w = x + from
      BY <2>1, <2>4, <2>5, <2>10
    <3> HIDE DEF z, w
    <3>2. w >= PageLo(i) /\ w < PageLo(i) + PageTicks
      BY <1>1, <1>2, <2>1, <3>1
    <3> QED
      BY <3>2 DEF w
  <2>12. (k - 1) * Bar \in Int
    BY <1>1, <2>1
  <2> QED
    BY <1>8, <2>1, <2>11, <2>12
\* Hence it is before every bar of the page.
<1>10. \A x \in pages[i] : k < x
  <2> TAKE x \in pages[i]
  <2>1. k \notin pages[i]
    BY <1>3, <1>5 DEF Raw, Range
  <2>2. x \in Int /\ ~(x <= k)
    <3>1. x \in market /\ (\A y \in market : y \in Int)
      BY <1>1, <1>7 DEF Answered, Bars
    <3> QED
      BY <1>7, <1>9, <2>1, <3>1, MatchesCases DEF Answered
  <2> QED
    BY <1>2, <2>2
<1>11. ~Headed(pages[i], i)
  <2> SUFFICES ASSUME NEW m \in pages[i], m * Bar <= PageLo(i) + Bar PROVE FALSE
    BY DEF Headed
  <2>1. m \in Int /\ k < m
    <3>1. m \in market /\ (\A y \in market : y \in Int)
      BY <1>1, <1>7 DEF Answered, Bars
    <3> QED
      BY <1>10, <3>1
  <2>2. m * Bar \in Int /\ k * Bar \in Int /\ (k - 1) * Bar = k * Bar - Bar
    BY <1>2, <2>1
  <2>3. k * Bar < m * Bar
    BY <1>2, <2>1
  <2> QED
    BY <1>2, <1>8, <1>9, <2>2, <2>3
<1>12. \A h \in 1..(i - 1) : pages[h] = {}
  BY <1>6, <1>11 DEF AcqInv
\* And before the first bar of the dataset, which is not on an earlier page.
<1>13. k < Min(file)
  <2>1. PICK h \in 1..Len(pages) : Min(file) \in pages[h]
    BY <1>2, <1>4
  <2>2. h \in Nat \ {0} /\ Answered(pages[h], h) /\ h >= i
    BY <1>3, <1>7, <1>12, <2>1 DEF AcqInv
  <2>3. CASE h = i
    BY <1>10, <2>1, <2>3
  <2>4. CASE h > i
    <3>1. j < Min(file)
      BY <1>1, <1>2, <1>6, <1>7, <2>1, <2>2, <2>4, PagesOrdered DEF Answered
    <3> QED
      BY <1>2, <1>6, <1>10, <3>1
  <2> QED
    BY <1>7, <2>2, <2>3, <2>4
<1>14. k * Bar < Min(file) * Bar
  BY <1>2, <1>13
<1> QED
  BY <1>2, <1>14

\* A dataset is what it says, for any page size, any retention and any of the three ways
\* the exchange may filter (acquireCandles).
THEOREM DatasetsAreHonest == BtSpec => []DatasetIsHonest
<1>1. BtInv /\ AcqInv => DatasetIsHonest
  <2> SUFFICES ASSUME BtInv, AcqInv PROVE DatasetIsHonest
    OBVIOUS
  <2>1. ASSUME outcome = "written", ~warned, NEW k \in 1..LastBar,
               k * Bar \in (from + Bar)..(To - Bar)
        PROVE  k \in file
    <3>1. file # {} /\ ~Short(file) /\ file \in Bars /\ from \in Nat
      BY <2>1 DEF AcqInv, BtInv, BtTypes, AcqTypes
    <3>2. Min(file) \in Int /\ Max(file) \in Int
      <4>1. IsFiniteSet(file) /\ \A x \in file : x \in Int
        BY <3>1, BarsFinite DEF Bars
      <4>2. Min(file) \in file /\ Max(file) \in file
        BY <3>1, <4>1, Extrema
      <4> QED
        BY <4>1, <4>2
    <3>3. Bar \in Nat \ {0} /\ To \in Nat /\ k \in Int
      BY AcquisitionAssumption
    <3>4. /\ ~(Min(file) * Bar > from + Bar) /\ ~(Max(file) * Bar < To - Bar)
          /\ file = Min(file)..Max(file)
      BY <3>1 DEF Short
    <3>5. Min(file) * Bar \in Int /\ Max(file) * Bar \in Int /\ k * Bar \in Int
      BY <3>2, <3>3
    <3>6. Min(file) * Bar <= k * Bar /\ k * Bar <= Max(file) * Bar
      BY <2>1, <3>1, <3>3, <3>4, <3>5
    <3>7. \A a, b \in Int : a * Bar <= b * Bar => a <= b
      BY <3>3
    <3>8. Min(file) <= k /\ k <= Max(file)
      BY <3>2, <3>3, <3>6, <3>7
    <3> QED
      BY <3>2, <3>3, <3>4, <3>8
  <2> QED
    BY <2>1, MissingByPages DEF DatasetIsHonest, AcqInv
<1>2. BtInit => BtInv /\ AcqInv
  BY BtInitTypes, AcqStarts
<1>3. BtInv /\ AcqInv /\ [BtNext]_allVars => (BtInv /\ AcqInv)'
  BY BtInductive, AcqInductive
<1> QED
  BY <1>1, <1>2, <1>3, PTL DEF BtSpec

----------------------------------------------------------------------------
(* Paper trading: what its invariant says *)

\* What the rounding of the average price leaves of a cost basis.
Remainder(b) == [s \in Symbol |-> b.pos[s].basis - b.pos[s].avg * b.pos[s].qty]

\* A book that began with a balance of st, after bt units of base were bought: cash,
\* positions and profit explain each other.
Balanced(b, st, bt) ==
    /\ b \in PaperBook
    /\ b.cash >= 0
    /\ \A s \in Symbol : /\ b.pos[s].qty = 0 => b.pos[s] = Flat
                         /\ b.pos[s].qty > 0 => b.pos[s].avg >= 1
                         /\ Remainder(b)[s] >= 0
    /\ st + b.realized - AtCost(b) >= 0
    /\ st + b.realized - AtCost(b) + Sum(Remainder(b)) <= bt

PaperInv ==
    /\ TrTypeOK
    /\ Balanced(book, start, bought) /\ Balanced(disk.book, start, bought)
    /\ book.fills \subseteq ids /\ disk.book.fills \subseteq disk.ids
    /\ up => disk.ids \subseteq ids
    /\ paused => cooling /\ Cooldown

----------------------------------------------------------------------------
(* Paper trading: amounts *)

\* Sums over the symbols.
LEMMA SumOfSymbols ==
    ASSUME NEW f, DOMAIN f = Symbol, \A s \in Symbol : f[s] \in Int
    PROVE  /\ IsFiniteSet(Symbol)
           /\ Sum(f) = SumFunctionOnSet(f, Symbol)
           /\ Sum(f) \in Int
           /\ (\A s \in Symbol : f[s] >= 0) => Sum(f) >= 0
<1>1. IsFiniteSet(Symbol)
  BY TradingAssumption
<1>2. Sum(f) = SumFunctionOnSet(f, Symbol)
  BY DEF Sum, FoldFunction, SumFunctionOnSet
<1>3. SumFunctionOnSet(f, Symbol) \in Int
  BY <1>1, SumInt
<1>4. ASSUME \A s \in Symbol : f[s] >= 0 PROVE SumFunctionOnSet(f, Symbol) >= 0
  <2>1. \A s \in Symbol : f[s] \in Nat
    BY <1>4
  <2> QED
    BY <1>1, <2>1, SumLe
<1> QED
  BY <1>1, <1>2, <1>3, <1>4

LEMMA SumOfOneChange ==
    ASSUME NEW f, DOMAIN f = Symbol, \A s \in Symbol : f[s] \in Int,
           NEW g, DOMAIN g = Symbol, NEW s \in Symbol, g[s] \in Int,
           \A t \in Symbol \ {s} : g[t] = f[t]
    PROVE  Sum(g) = Sum(f) - f[s] + g[s]
<1>1. \A t \in Symbol : g[t] \in Int
  OBVIOUS
<1>2. /\ Sum(f) = SumFunctionOnSet(f, Symbol) /\ Sum(g) = SumFunctionOnSet(g, Symbol)
      /\ IsFiniteSet(Symbol)
  BY <1>1, SumOfSymbols
<1> QED
  BY <1>2, SumUpdate

\* Whole divisions.
LEMMA Division ==
    ASSUME NEW a \in Int, NEW d \in Nat \ {0}
    PROVE  /\ a \div d \in Int
           /\ (a \div d) * d <= a /\ a < (a \div d) * d + d
           /\ d <= a => a \div d >= 1
<1>1. a \div d \in Int
  OBVIOUS
<1>2. (a \div d) * d <= a
  OBVIOUS
<1>3. a < (a \div d) * d + d
  OBVIOUS
<1>4. d <= a => a \div d >= 1
  <2> DEFINE k == a \div d
  <2>1. k \in Int /\ a < k * d + d
    BY <1>1, <1>3
  <2> HIDE DEF k
  <2>2. k <= 0 => k * d <= 0
    BY <2>1
  <2>3. d <= a => k >= 1
    BY <2>1, <2>2
  <2> QED
    BY <2>3 DEF k
<1> QED
  BY <1>1, <1>2, <1>3, <1>4

LEMMA ProductLe ==
    ASSUME NEW a \in Nat, NEW b \in Nat, NEW c \in Nat, b <= c
    PROVE  a * b <= a * c /\ a * b \in Nat
  OBVIOUS

LEMMA MaxZero ==
    ASSUME NEW m \in Int PROVE Max({m, 0}) \in Int /\ (m >= 0 => Max({m, 0}) = m)
<1>1. Max({m, 0}) \in {m, 0} /\ Max({m, 0}) >= m
  BY MaxOfTwo
<1> QED
  BY <1>1

\* A fraction of an amount that is not negative.
LEMMA FracBounds ==
    ASSUME NEW m \in Nat, NEW k \in Nat
    PROVE  /\ Frac(m, k) \in Nat
           /\ k <= 100 => Frac(m, k) <= m
           /\ k >= 100 => Frac(m, k) >= m
           /\ m * k >= 100 => Frac(m, k) >= 1
<1>1. m * k \in Nat /\ (k <= 100 => m * k <= m * 100) /\ (k >= 100 => m * k >= m * 100)
  BY ProductLe
<1> DEFINE x == m * k
<1>2. Frac(m, k) = x \div 100
  BY DEF Frac
<1> HIDE DEF x
<1> QED
  BY <1>1, <1>2 DEF x

\* A quantity floored to the tick is not more.
LEMMA FloorTickLe ==
    ASSUME NEW q \in Int PROVE FloorTick(q) \in Int /\ FloorTick(q) <= q
<1>1. QtyTick \in Nat \ {0}
  BY RiskAssumption
<1>2. q \div QtyTick \in Int /\ (q \div QtyTick) * QtyTick <= q
  BY <1>1, Division
<1> QED
  BY <1>1, <1>2 DEF FloorTick

\* What an order executes: something, at most what it asks for, at a price on the
\* wrong side of the quote; the fee is at most what is traded.
LEMMA FilledBounds ==
    ASSUME NEW q \in Nat, q >= MinOrder
    PROVE  Frac(q, FillPct) \in Nat /\ Frac(q, FillPct) >= 1 /\ Frac(q, FillPct) <= q
<1>1. FillPct \in Nat /\ FillPct <= 100 /\ MinOrder \in Nat /\ MinOrder * FillPct >= 100
  BY TradingAssumption, RiskAssumption
<1>2. MinOrder * FillPct <= q * FillPct
  BY <1>1
<1>3. q * FillPct >= 100
  BY <1>1, <1>2
<1> QED
  BY <1>1, <1>3, FracBounds

LEMMA SlippedBounds ==
    ASSUME NEW p \in Nat
    PROVE  /\ Slipped(p, "BUY") \in Nat /\ Slipped(p, "BUY") >= p
           /\ Slipped(p, "SELL") \in Nat
<1>1. SlippagePct \in Nat /\ SlippagePct <= 100
  BY TradingAssumption
<1>2. 100 + SlippagePct \in Nat /\ 100 - SlippagePct \in Nat
  BY <1>1
<1>3. /\ Slipped(p, "BUY") = Frac(p, 100 + SlippagePct)
      /\ Slipped(p, "SELL") = Frac(p, 100 - SlippagePct)
  BY Zenon DEF Slipped
<1>4. 100 + SlippagePct >= 100
  BY <1>1
<1> QED
  BY <1>2, <1>3, <1>4, FracBounds

LEMMA PaperFeeBounds ==
    ASSUME NEW m \in Nat PROVE Frac(m, FeePct) \in Nat /\ Frac(m, FeePct) <= m
<1>1. FeePct \in Nat /\ FeePct <= 100
  BY TradingAssumption
<1> QED
  BY <1>1, FracBounds

----------------------------------------------------------------------------
(* Paper trading: what a fill does to a book *)

\* A record with the fields of a paper book.
IsPaper(b) ==
    b = [cash |-> b.cash, pos |-> b.pos, realized |-> b.realized, today |-> b.today,
         dayKey |-> b.dayKey, peak |-> b.peak, fills |-> b.fills]

LEMMA PaperType ==
    ASSUME NEW b
    PROVE  b \in PaperBook <=> /\ IsPaper(b)
                               /\ b.cash \in Int /\ b.pos \in [Symbol -> Position]
                               /\ b.realized \in Int /\ b.today \in Int
                               /\ b.dayKey \in 0..MaxDay /\ b.peak \in Int
                               /\ b.fills \subseteq Nat
  BY DEF PaperBook, IsPaper

LEMMA PositionType ==
    ASSUME NEW b \in PaperBook, NEW s \in Symbol
    PROVE  /\ b.pos[s].qty \in Nat /\ b.pos[s].basis \in Int /\ b.pos[s].avg \in Int
           /\ b.pos[s] = [qty |-> b.pos[s].qty, basis |-> b.pos[s].basis, avg |-> b.pos[s].avg]
           /\ b.pos[s].avg * b.pos[s].qty \in Int
           /\ Remainder(b)[s] = b.pos[s].basis - b.pos[s].avg * b.pos[s].qty
           /\ Remainder(b)[s] \in Int
<1>1. /\ b.pos[s].qty \in Nat /\ b.pos[s].basis \in Int /\ b.pos[s].avg \in Int
      /\ b.pos[s] = [qty |-> b.pos[s].qty, basis |-> b.pos[s].basis, avg |-> b.pos[s].avg]
  BY PaperType DEF Position
<1>2. \A i, j \in Int : i * j \in Int
  OBVIOUS
<1>3. Remainder(b)[s] = b.pos[s].basis - b.pos[s].avg * b.pos[s].qty
  BY DEF Remainder
<1>4. b.pos[s].avg * b.pos[s].qty \in Int
  BY <1>1, <1>2
<1> QED
  BY <1>1, <1>3, <1>4

LEMMA AtCostInt ==
    ASSUME NEW b \in PaperBook
    PROVE  AtCost(b) \in Int /\ Sum([s \in Symbol |-> b.pos[s].basis]) \in Int
<1> DEFINE f == [s \in Symbol |-> b.pos[s].basis]
<1>1. DOMAIN f = Symbol /\ \A s \in Symbol : f[s] \in Int
  BY PositionType
<1> HIDE DEF f
<1>2. Sum(f) \in Int /\ b.cash \in Int
  BY <1>1, SumOfSymbols, PaperType
<1>3. AtCost(b) = b.cash + Sum(f)
  BY DEF AtCost, f
<1> QED
  BY <1>2, <1>3 DEF f

\* The peak is the only field a new peak changes.
LEMMA PeakFields ==
    ASSUME NEW b \in PaperBook
    PROVE  LET u == PeakUpdated(b) IN
           /\ u \in PaperBook
           /\ u.cash = b.cash /\ u.pos = b.pos /\ u.realized = b.realized /\ u.fills = b.fills
<1> DEFINE k == Max({b.peak, AtCost(b)})
           u == [b EXCEPT !.peak = k]
<1>1. PeakUpdated(b) = u
  BY Zenon DEF PeakUpdated
<1>2. k \in Int
  <2>1. b.peak \in Int /\ AtCost(b) \in Int
    BY PaperType, AtCostInt
  <2> QED
    BY <2>1, MaxOfTwo
<1> HIDE DEF k
<1>3. /\ IsPaper(u) /\ u.cash = b.cash /\ u.pos = b.pos /\ u.realized = b.realized
      /\ u.today = b.today /\ u.dayKey = b.dayKey /\ u.peak = k /\ u.fills = b.fills
  BY PaperType DEF IsPaper
<1> HIDE DEF u
<1>4. u \in PaperBook
  BY <1>2, <1>3, PaperType
<1> QED
  BY <1>1, <1>3, <1>4

\* What a BUY assigns, and what it leaves alone.
Assigned(b, c, ps, fs) == [b EXCEPT !.cash = c, !.pos = ps, !.fills = fs]

LEMMA FillFields ==
    ASSUME NEW b, IsPaper(b), NEW c, NEW ps, NEW fs,
           NEW a, a = Assigned(b, c, ps, fs)
    PROVE  /\ IsPaper(a) /\ a.cash = c /\ a.pos = ps
           /\ a.realized = b.realized /\ a.today = b.today /\ a.dayKey = b.dayKey
           /\ a.peak = b.peak /\ a.fills = fs
<1> DEFINE w == [b EXCEPT !.cash = c]
           x == [w EXCEPT !.pos = ps]
           y == [x EXCEPT !.fills = fs]
<1>1. /\ IsPaper(w) /\ w.cash = c /\ w.pos = b.pos /\ w.realized = b.realized
      /\ w.today = b.today /\ w.dayKey = b.dayKey /\ w.peak = b.peak /\ w.fills = b.fills
  BY DEF IsPaper
<1> HIDE DEF w
<1>2. /\ IsPaper(x) /\ x.cash = c /\ x.pos = ps /\ x.realized = b.realized
      /\ x.today = b.today /\ x.dayKey = b.dayKey /\ x.peak = b.peak /\ x.fills = b.fills
  BY <1>1 DEF IsPaper
<1> HIDE DEF x
<1>3. /\ IsPaper(y) /\ y.cash = c /\ y.pos = ps /\ y.realized = b.realized
      /\ y.today = b.today /\ y.dayKey = b.dayKey /\ y.peak = b.peak /\ y.fills = fs
  BY <1>1, <1>2 DEF IsPaper
<1>4. y = a
  BY Zenon DEF w, x, Assigned
<1> HIDE DEF y
<1> QED
  BY <1>3, <1>4

\* The balance at cost and the remainders, when the position of one symbol changes.
LEMMA OnePosition ==
    ASSUME NEW b \in PaperBook, NEW a \in PaperBook, NEW s \in Symbol,
           \A t \in Symbol \ {s} : a.pos[t] = b.pos[t]
    PROVE  /\ AtCost(a) - a.cash = AtCost(b) - b.cash - b.pos[s].basis + a.pos[s].basis
           /\ Sum(Remainder(a)) = Sum(Remainder(b)) - Remainder(b)[s] + Remainder(a)[s]
           /\ \A t \in Symbol \ {s} : Remainder(a)[t] = Remainder(b)[t]
<1> DEFINE f == [t \in Symbol |-> b.pos[t].basis]
           g == [t \in Symbol |-> a.pos[t].basis]
<1>1. /\ DOMAIN f = Symbol /\ DOMAIN g = Symbol
      /\ \A t \in Symbol : f[t] = b.pos[t].basis /\ g[t] = a.pos[t].basis
      /\ \A t \in Symbol : f[t] \in Int /\ g[t] \in Int
  BY PositionType
<1> HIDE DEF f, g
<1>2. Sum(g) = Sum(f) - f[s] + g[s]
  <2>1. \A t \in Symbol \ {s} : g[t] = f[t]
    BY <1>1
  <2> QED
    BY <1>1, <2>1, SumOfOneChange
<1>3. Sum(f) \in Int /\ Sum(g) \in Int /\ a.cash \in Int /\ b.cash \in Int
  BY <1>1, SumOfSymbols, PaperType
<1>4. AtCost(a) = a.cash + Sum(g) /\ AtCost(b) = b.cash + Sum(f)
  BY DEF AtCost, f, g
<1>5. AtCost(a) - a.cash = AtCost(b) - b.cash - b.pos[s].basis + a.pos[s].basis
  BY <1>1, <1>2, <1>3, <1>4
<1>6. /\ DOMAIN Remainder(a) = Symbol /\ DOMAIN Remainder(b) = Symbol
      /\ \A t \in Symbol : Remainder(a)[t] \in Int /\ Remainder(b)[t] \in Int
  BY PositionType DEF Remainder
<1>7. \A t \in Symbol \ {s} : Remainder(a)[t] = Remainder(b)[t]
  BY DEF Remainder
<1> QED
  BY <1>5, <1>6, <1>7, SumOfOneChange

\* A BUY that opens a position: all it costs is in the basis, the average loses less
\* than one unit of quote per unit of base.
LEMMA BuyBalanced ==
    ASSUME day \in 0..MaxDay, NEW b, NEW st \in Int, NEW bt \in Int, Balanced(b, st, bt),
           NEW s \in Symbol, b.pos[s].qty = 0,
           NEW q \in Nat \ {0}, NEW p \in Nat \ {0}, NEW fee \in Nat,
           q * p + fee <= b.cash, NEW n \in Nat
    PROVE  LET a == AfterBuy(b, s, q, p, fee, n) IN
           /\ Balanced(a, st, bt + q)
           /\ a.fills = b.fills \cup {n}
           /\ a.pos[s].qty = q /\ \A t \in Symbol \ {s} : a.pos[t] = b.pos[t]
<1> DEFINE basis == b.pos[s].basis + q * p + fee
           qty == b.pos[s].qty + q
           new == [qty |-> qty, basis |-> basis, avg |-> basis \div qty]
           cost == q * p + fee
           x == [b EXCEPT !.cash = @ - cost, !.pos[s] = new, !.fills = @ \cup {n}]
           a == AfterBuy(b, s, q, p, fee, n)
<1>0. a = PeakUpdated(x)
  BY Zenon DEF AfterBuy
<1>1. b \in PaperBook /\ b.cash \in Int /\ b.cash >= 0 /\ b.pos[s] = Flat
  BY PaperType DEF Balanced
<1>2. cost \in Nat /\ cost >= q /\ cost <= b.cash
  <2>1. q * p \in Nat /\ q * 1 <= q * p
    BY ProductLe
  <2> QED
    BY <2>1
<1>3. basis = cost /\ qty = q
  <2>1. b.pos[s].basis = 0 /\ q * p \in Nat
    BY <1>1, ProductLe DEF Flat
  <2> QED
    BY <2>1
<1> HIDE DEF cost, basis, qty
<1>4. new = [qty |-> q, basis |-> cost, avg |-> cost \div q]
  BY <1>3
<1>5. /\ cost \div q \in Int /\ (cost \div q) * q <= cost /\ cost < (cost \div q) * q + q
      /\ cost \div q >= 1
  BY <1>2, Division
<1>6. /\ new \in Position /\ new.qty = q /\ new.basis = cost /\ new.avg = cost \div q
      /\ new.avg >= 1
  BY <1>2, <1>4, <1>5 DEF Position
<1> HIDE DEF new
<1>7. /\ IsPaper(x) /\ x.cash = b.cash - cost /\ x.pos = [b.pos EXCEPT ![s] = new]
      /\ x.realized = b.realized /\ x.today = b.today /\ x.dayKey = b.dayKey
      /\ x.peak = b.peak /\ x.fills = b.fills \cup {n}
  <2> DEFINE c == b.cash - cost
             ps == [b.pos EXCEPT ![s] = new]
             fs == b.fills \cup {n}
  <2>1. x = Assigned(b, c, ps, fs)
    BY Zenon DEF Assigned
  <2>2. IsPaper(b)
    BY <1>1, PaperType
  <2> HIDE DEF c, ps, fs, x
  <2>3. /\ IsPaper(x) /\ x.cash = c /\ x.pos = ps
        /\ x.realized = b.realized /\ x.today = b.today /\ x.dayKey = b.dayKey
        /\ x.peak = b.peak /\ x.fills = fs
    BY <2>1, <2>2, FillFields
  <2> QED
    BY <2>3 DEF c, ps, fs
<1> HIDE DEF x
<1>8. x \in PaperBook
  BY <1>1, <1>2, <1>6, <1>7, PaperType
<1> HIDE DEF a
<1>9. /\ a \in PaperBook /\ a.cash = b.cash - cost /\ a.realized = b.realized
      /\ a.pos[s] = new /\ a.fills = b.fills \cup {n}
      /\ \A t \in Symbol \ {s} : a.pos[t] = b.pos[t]
  <2>1. b.pos \in [Symbol -> Position]
    BY <1>1, PaperType
  <2> QED
    BY <1>0, <1>7, <1>8, <2>1, PeakFields
<1>10. /\ AtCost(a) - a.cash = AtCost(b) - b.cash - b.pos[s].basis + a.pos[s].basis
       /\ Sum(Remainder(a)) = Sum(Remainder(b)) - Remainder(b)[s] + Remainder(a)[s]
       /\ \A t \in Symbol \ {s} : Remainder(a)[t] = Remainder(b)[t]
  BY <1>1, <1>9, OnePosition
<1>11. /\ AtCost(a) \in Int /\ AtCost(b) \in Int /\ b.realized \in Int
       /\ Sum(Remainder(b)) \in Int
  <2>1. DOMAIN Remainder(b) = Symbol /\ \A t \in Symbol : Remainder(b)[t] \in Int
    BY <1>1, PositionType DEF Remainder
  <2> QED
    BY <1>1, <1>9, <2>1, AtCostInt, PaperType, SumOfSymbols
<1>12. AtCost(a) = AtCost(b)
  BY <1>1, <1>2, <1>6, <1>9, <1>10, <1>11 DEF Flat
<1>13. /\ Remainder(b)[s] = 0
       /\ Remainder(a)[s] \in Int /\ Remainder(a)[s] >= 0 /\ Remainder(a)[s] < q
  <2>1. Remainder(b)[s] = b.pos[s].basis - b.pos[s].avg * b.pos[s].qty
    BY <1>1, PositionType
  <2>4. Remainder(b)[s] = 0
    BY <1>1, <2>1 DEF Flat
  <2>2. Remainder(a)[s] = cost - (cost \div q) * q
    BY <1>6, <1>9, PositionType
  <2>3. (cost \div q) * q \in Int
    BY <1>5
  <2> QED
    BY <1>2, <1>5, <2>2, <2>3, <2>4
<1>14. Sum(Remainder(a)) <= Sum(Remainder(b)) + q
  BY <1>10, <1>11, <1>13
<1>15. Sum(Remainder(a)) \in Int
  BY <1>10, <1>11, <1>13
<1>16. Balanced(a, st, bt + q)
  <2>1. a.cash >= 0 /\ st + a.realized - AtCost(a) >= 0
    BY <1>1, <1>2, <1>9, <1>11, <1>12 DEF Balanced
  <2>2. st + a.realized - AtCost(a) + Sum(Remainder(a)) <= bt + q
    <3>1. st + b.realized - AtCost(b) + Sum(Remainder(b)) <= bt
      BY DEF Balanced
    <3> QED
      BY <1>9, <1>11, <1>12, <1>14, <1>15, <3>1
  <2>3. ASSUME NEW t \in Symbol
        PROVE  /\ a.pos[t].qty = 0 => a.pos[t] = Flat
               /\ a.pos[t].qty > 0 => a.pos[t].avg >= 1
               /\ Remainder(a)[t] >= 0
    BY <1>6, <1>9, <1>10, <1>13 DEF Balanced
  <2> QED
    BY <1>9, <2>1, <2>2, <2>3 DEF Balanced
<1> QED
  BY <1>6, <1>9, <1>16 DEF a
\* What a SELL assigns, and what it leaves alone.
AssignedSale(b, c, ps, r, t, d, fs) ==
    [b EXCEPT !.cash = c, !.pos = ps, !.realized = r, !.today = t, !.dayKey = d, !.fills = fs]

LEMMA SaleFields ==
    ASSUME NEW b, IsPaper(b), NEW c, NEW ps, NEW r, NEW t, NEW d, NEW fs,
           NEW a, a = AssignedSale(b, c, ps, r, t, d, fs)
    PROVE  /\ IsPaper(a) /\ a.cash = c /\ a.pos = ps /\ a.realized = r
           /\ a.today = t /\ a.dayKey = d /\ a.peak = b.peak /\ a.fills = fs
<1> DEFINE w == [b EXCEPT !.realized = r]
           x == [w EXCEPT !.today = t]
           y == [x EXCEPT !.dayKey = d]
<1>1. /\ IsPaper(w) /\ w.realized = r
      /\ w.today = b.today /\ w.dayKey = b.dayKey /\ w.peak = b.peak /\ w.fills = b.fills
  BY DEF IsPaper
<1> HIDE DEF w
<1>2. /\ IsPaper(x) /\ x.realized = r
      /\ x.today = t /\ x.dayKey = b.dayKey /\ x.peak = b.peak /\ x.fills = b.fills
  BY <1>1 DEF IsPaper
<1> HIDE DEF x
<1>3. /\ IsPaper(y) /\ y.realized = r
      /\ y.today = t /\ y.dayKey = d /\ y.peak = b.peak /\ y.fills = b.fills
  BY <1>1, <1>2 DEF IsPaper
<1> HIDE DEF y
<1>4. AssignedSale(b, c, ps, r, t, d, fs) = Assigned(y, c, ps, fs)
  <2> DEFINE z == [y EXCEPT !.cash = c, !.pos = ps, !.fills = fs]
             u == [b EXCEPT !.cash = c, !.pos = ps, !.realized = r, !.today = t,
                            !.dayKey = d, !.fills = fs]
  <2>1. u = z
    <3>1. /\ b = [cash |-> b.cash, pos |-> b.pos, realized |-> b.realized, today |-> b.today,
                  dayKey |-> b.dayKey, peak |-> b.peak, fills |-> b.fills]
      BY DEF IsPaper
    <3> QED
      BY <3>1 DEF w, x, y
  <2> QED
    BY <2>1, Zenon DEF Assigned, AssignedSale
<1> QED
  BY <1>3, <1>4, FillFields

\* A SELL of part of a position keeps its average; one that closes it forgets what the
\* average lost.
LEMMA SellBalanced ==
    ASSUME day \in 0..MaxDay, NEW b, NEW st \in Int, NEW bt \in Int, Balanced(b, st, bt),
           NEW s \in Symbol, NEW q \in Nat \ {0}, q <= b.pos[s].qty,
           NEW p \in Nat, NEW fee \in Nat, fee <= q * p, NEW n \in Nat
    PROVE  LET a == AfterSell(b, s, q, p, fee, n) IN
           /\ Balanced(a, st, bt)
           /\ a.fills = b.fills \cup {n}
           /\ a.pos[s].qty = b.pos[s].qty - q
           /\ \A t \in Symbol \ {s} : a.pos[t] = b.pos[t]
<1> DEFINE old == b.pos[s]
           gain == Realized(b, s, q, p, fee)
           left == [old EXCEPT !.qty = @ - q, !.basis = @ - old.avg * q]
           new == IF left.qty = 0 THEN Flat ELSE left
           today == TodayPnl(b) + gain
           x == [b EXCEPT !.cash = @ + q * p - fee, !.pos[s] = new, !.realized = @ + gain,
                          !.today = today, !.dayKey = day, !.fills = @ \cup {n}]
           a == AfterSell(b, s, q, p, fee, n)
           taken == q * p
           cost == b.pos[s].avg * q
<1>0. a = PeakUpdated(x)
  BY Zenon DEF AfterSell
<1>1. /\ b \in PaperBook /\ b.cash \in Int /\ b.cash >= 0 /\ b.realized \in Int
      /\ b.today \in Int /\ b.fills \subseteq Nat /\ b.pos \in [Symbol -> Position]
      /\ b.pos[s].qty \in Nat /\ b.pos[s].basis \in Int /\ b.pos[s].avg \in Int
      /\ b.pos[s].avg >= 1
      /\ b.pos[s] = [qty |-> b.pos[s].qty, basis |-> b.pos[s].basis, avg |-> b.pos[s].avg]
  <2>1. b \in PaperBook /\ b.cash >= 0 /\ (b.pos[s].qty > 0 => b.pos[s].avg >= 1)
    BY DEF Balanced
  <2>2. b.pos[s].qty \in Nat
    BY <2>1, PositionType
  <2> QED
    BY <2>1, <2>2, PaperType, PositionType
<1>2. taken \in Nat /\ cost \in Int /\ taken >= fee
  <2>1. \A i, j \in Nat : i * j \in Nat
    OBVIOUS
  <2>2. \A i, j \in Int : i * j \in Int
    OBVIOUS
  <2> QED
    BY <1>1, <2>1, <2>2
<1>3. gain = taken - cost - fee /\ gain \in Int
  <2>1. \A i, j, k \in Int : i * (j - k) = i * j - k * i
    OBVIOUS
  <2>2. gain = q * (p - b.pos[s].avg) - fee
    BY Zenon DEF Realized
  <2> HIDE DEF gain
  <2>3. q * (p - b.pos[s].avg) = q * p - b.pos[s].avg * q
    BY <1>1, <2>1
  <2> QED
    BY <1>2, <2>2, <2>3
<1>4. left = [qty |-> b.pos[s].qty - q, basis |-> b.pos[s].basis - cost, avg |-> b.pos[s].avg]
  <2> DEFINE part == [old EXCEPT !.qty = @ - q]
             k == part.basis - old.avg * q
  <2>1. old = [qty |-> old.qty, basis |-> old.basis, avg |-> old.avg]
    BY <1>1
  <2>2. left = [part EXCEPT !.basis = k]
    BY <2>1
  <2>3. part = [qty |-> old.qty - q, basis |-> old.basis, avg |-> old.avg]
    BY <2>1
  <2>4. k = old.basis - cost
    BY <2>3
  <2> HIDE DEF part, k, cost
  <2>5. [part EXCEPT !.basis = k] = [qty |-> old.qty - q, basis |-> k, avg |-> old.avg]
    BY <2>3
  <2> QED
    BY <2>2, <2>4, <2>5
<1>5. today \in Int
  <2>1. TodayPnl(b) \in Int
    BY <1>1 DEF TodayPnl
  <2> QED
    BY <1>3, <2>1
<1> HIDE DEF taken, cost, gain, today, left
<1>6. /\ new \in Position
      /\ new.qty = b.pos[s].qty - q
      /\ new.qty = 0 => new = Flat /\ new.basis = 0 /\ new.avg = 0
      /\ new.qty > 0 => new.basis = b.pos[s].basis - cost /\ new.avg = b.pos[s].avg
  BY <1>1, <1>2, <1>4 DEF Position, Flat
<1> HIDE DEF new
<1>7. /\ IsPaper(x) /\ x.cash = b.cash + taken - fee /\ x.pos = [b.pos EXCEPT ![s] = new]
      /\ x.realized = b.realized + gain /\ x.today = today /\ x.dayKey = day
      /\ x.peak = b.peak /\ x.fills = b.fills \cup {n}
  <2> DEFINE c == b.cash + taken - fee
             ps == [b.pos EXCEPT ![s] = new]
             r == b.realized + gain
             fs == b.fills \cup {n}
  <2>1. x = AssignedSale(b, c, ps, r, today, day, fs)
    BY Zenon DEF AssignedSale, taken
  <2>2. IsPaper(b)
    BY <1>1, PaperType
  <2> HIDE DEF c, ps, r, fs, x
  <2>3. /\ IsPaper(x) /\ x.cash = c /\ x.pos = ps
        /\ x.realized = r /\ x.today = today /\ x.dayKey = day
        /\ x.peak = b.peak /\ x.fills = fs
    BY <2>1, <2>2, SaleFields
  <2> QED
    BY <2>3 DEF c, ps, r, fs
<1> HIDE DEF x
<1>8. x \in PaperBook
  <2>1. /\ b.cash + taken - fee \in Int /\ b.realized + gain \in Int
        /\ [b.pos EXCEPT ![s] = new] \in [Symbol -> Position]
        /\ b.fills \cup {n} \subseteq Nat /\ b.peak \in Int
    BY <1>1, <1>2, <1>3, <1>6, PaperType
  <2> QED
    BY <1>5, <1>7, <2>1, PaperType
<1> HIDE DEF a
<1>9. /\ a \in PaperBook /\ a.cash = b.cash + taken - fee /\ a.realized = b.realized + gain
      /\ a.pos[s] = new /\ a.fills = b.fills \cup {n}
      /\ \A t \in Symbol \ {s} : a.pos[t] = b.pos[t]
  BY <1>0, <1>1, <1>7, <1>8, PeakFields
<1>10. /\ AtCost(a) - a.cash = AtCost(b) - b.cash - b.pos[s].basis + new.basis
       /\ Sum(Remainder(a)) = Sum(Remainder(b)) - Remainder(b)[s] + Remainder(a)[s]
       /\ \A t \in Symbol \ {s} : Remainder(a)[t] = Remainder(b)[t]
  <2>1. /\ AtCost(a) - a.cash = AtCost(b) - b.cash - b.pos[s].basis + a.pos[s].basis
        /\ Sum(Remainder(a)) = Sum(Remainder(b)) - Remainder(b)[s] + Remainder(a)[s]
        /\ \A t \in Symbol \ {s} : Remainder(a)[t] = Remainder(b)[t]
    BY <1>1, <1>9, OnePosition
  <2> QED
    BY <1>9, <2>1
<1>11. /\ AtCost(a) \in Int /\ AtCost(b) \in Int /\ Sum(Remainder(b)) \in Int
  <2>1. DOMAIN Remainder(b) = Symbol /\ \A t \in Symbol : Remainder(b)[t] \in Int
    BY <1>1, PositionType DEF Remainder
  <2> QED
    BY <1>1, <1>9, <2>1, AtCostInt, SumOfSymbols
<1>12. /\ Remainder(b)[s] = b.pos[s].basis - b.pos[s].avg * b.pos[s].qty
       /\ Remainder(b)[s] \in Int /\ Remainder(b)[s] >= 0
       /\ Remainder(a)[s] = new.basis - new.avg * new.qty
       /\ b.pos[s].avg * b.pos[s].qty \in Int
  BY <1>1, <1>9, PositionType DEF Balanced
<1>13. /\ st + a.realized - AtCost(a) >= st + b.realized - AtCost(b)
       /\ st + a.realized - AtCost(a) + Sum(Remainder(a))
             = st + b.realized - AtCost(b) + Sum(Remainder(b))
       /\ Remainder(a)[s] >= 0
  <2>1. CASE new.qty = 0
    <3>1. Remainder(a)[s] = 0
      BY <1>6, <1>12, <2>1
    <3>2. cost = b.pos[s].avg * b.pos[s].qty
      <4>1. b.pos[s].qty = q
        BY <1>1, <1>6, <2>1
      <4> QED
        BY <4>1 DEF cost
    <3>3. AtCost(a) = AtCost(b) + taken - fee - b.pos[s].basis
      <4>1. AtCost(a) - a.cash = AtCost(b) - b.cash - b.pos[s].basis
        BY <1>1, <1>6, <1>10, <1>11, <2>1
      <4> QED
        BY <1>1, <1>2, <1>9, <1>11, <4>1
    <3>4. st + a.realized - AtCost(a) = st + b.realized - AtCost(b) + Remainder(b)[s]
      BY <1>1, <1>2, <1>3, <1>9, <1>11, <1>12, <3>2, <3>3
    <3> QED
      BY <1>1, <1>10, <1>11, <1>12, <3>1, <3>4
  <2>2. CASE new.qty > 0
    <3>1. AtCost(a) = AtCost(b) + taken - fee - cost
      BY <1>1, <1>2, <1>6, <1>9, <1>10, <1>11, <2>2
    <3>2. new.avg * new.qty = b.pos[s].avg * b.pos[s].qty - cost
      <4>1. \A i, j, k \in Int : i * (j - k) = i * j - i * k
        OBVIOUS
      <4> QED
        BY <1>1, <1>6, <2>2, <4>1 DEF cost
    <3>3. Remainder(a)[s] = Remainder(b)[s]
      BY <1>1, <1>2, <1>6, <1>12, <2>2, <3>2
    <3>4. st + a.realized - AtCost(a) = st + b.realized - AtCost(b)
      BY <1>1, <1>2, <1>3, <1>9, <1>11, <3>1
    <3> QED
      BY <1>1, <1>10, <1>11, <1>12, <3>3, <3>4
  <2> QED
    BY <1>1, <1>6, <2>1, <2>2
<1>14. Balanced(a, st, bt)
  <2>1. a.cash >= 0 /\ st + a.realized - AtCost(a) >= 0
    <3>1. st + b.realized - AtCost(b) >= 0
      BY DEF Balanced
    <3> QED
      BY <1>1, <1>2, <1>3, <1>9, <1>11, <1>13, <3>1
  <2>2. st + a.realized - AtCost(a) + Sum(Remainder(a)) <= bt
    BY <1>13 DEF Balanced
  <2>3. ASSUME NEW t \in Symbol
        PROVE  /\ a.pos[t].qty = 0 => a.pos[t] = Flat
               /\ a.pos[t].qty > 0 => a.pos[t].avg >= 1
               /\ Remainder(a)[t] >= 0
    BY <1>1, <1>6, <1>9, <1>10, <1>13 DEF Balanced
  <2> QED
    BY <1>9, <2>1, <2>2, <2>3 DEF Balanced
<1> QED
  BY <1>6, <1>9, <1>14 DEF a

LEMMA NewBookBalanced ==
    ASSUME NEW c \in Nat, NEW bt \in Nat PROVE Balanced(NewBook(c), c, bt)
<1> DEFINE b == NewBook(c)
<1>1. b \in PaperBook /\ b.cash = c /\ b.realized = 0 /\ b.pos = [s \in Symbol |-> Flat]
  <2>1. 0 \in 0..MaxDay
    BY TradingAssumption
  <2>2. [s \in Symbol |-> Flat] \in [Symbol -> Position]
    BY DEF Flat, Position
  <2> QED
    BY <2>1, <2>2 DEF NewBook, PaperBook
<1> HIDE DEF b
<1>2. \A s \in Symbol : b.pos[s] = Flat
  BY <1>1
<1>3. IsFiniteSet(Symbol)
  BY TradingAssumption
<1>4. AtCost(b) = c
  <2> DEFINE f == [s \in Symbol |-> b.pos[s].basis]
  <2>1. DOMAIN f = Symbol /\ \A s \in Symbol : f[s] = 0
    BY <1>2 DEF Flat
  <2>2. AtCost(b) = b.cash + Sum(f)
    BY DEF AtCost
  <2> HIDE DEF f
  <2>3. Sum(f) = SumFunctionOnSet(f, Symbol)
    BY <2>1, SumOfSymbols
  <2> QED
    BY <1>1, <1>3, <2>1, <2>2, <2>3, SumZero
<1>5. \A s \in Symbol : Remainder(b)[s] = 0
  <2> SUFFICES ASSUME NEW s \in Symbol PROVE Remainder(b)[s] = 0
    OBVIOUS
  <2>1. Remainder(b)[s] = b.pos[s].basis - b.pos[s].avg * b.pos[s].qty
    BY DEF Remainder
  <2> QED
    BY <1>2, <2>1 DEF Flat
<1>6. Sum(Remainder(b)) = 0
  <2>1. DOMAIN Remainder(b) = Symbol /\ \A s \in Symbol : Remainder(b)[s] \in Int
    BY <1>5 DEF Remainder
  <2> QED
    BY <1>3, <1>5, <2>1, SumOfSymbols, SumZero
<1>7. Balanced(b, c, bt)
  <2>1. \A s \in Symbol : Flat.qty = 0 /\ b.pos[s].qty = 0
    BY <1>2 DEF Flat
  <2>2. /\ b.cash >= 0 /\ c + b.realized - AtCost(b) >= 0
        /\ c + b.realized - AtCost(b) + Sum(Remainder(b)) <= bt
    BY <1>1, <1>4, <1>6
  <2> QED
    BY <1>1, <1>2, <1>5, <2>1, <2>2 DEF Balanced
<1> QED
  BY <1>7 DEF b

\* A book stays balanced when more is bought elsewhere.
LEMMA BalancedLater ==
    ASSUME NEW b, NEW st \in Int, NEW bt \in Int, Balanced(b, st, bt), NEW more \in Nat
    PROVE  Balanced(b, st, bt + more)
<1>1. b \in PaperBook
  BY DEF Balanced
<1>2. AtCost(b) \in Int /\ b.realized \in Int /\ Sum(Remainder(b)) \in Int
  <2>1. DOMAIN Remainder(b) = Symbol /\ \A t \in Symbol : Remainder(b)[t] \in Int
    BY <1>1, PositionType DEF Remainder
  <2> QED
    BY <1>1, <2>1, AtCostInt, PaperType, SumOfSymbols
<1>3. st + b.realized - AtCost(b) + Sum(Remainder(b)) <= bt + more
  <2>1. st + b.realized - AtCost(b) + Sum(Remainder(b)) <= bt
    BY DEF Balanced
  <2> QED
    BY <1>2, <2>1
<1> QED
  BY <1>3 DEF Balanced

\* What is lost without a trace in the profit is at most what the remainders lost.
LEMMA BalancedLoss ==
    ASSUME NEW b, NEW st \in Int, NEW bt \in Int, Balanced(b, st, bt)
    PROVE  /\ b.cash >= 0
           /\ \A s \in Symbol : b.pos[s].qty >= 0 /\ (b.pos[s].qty = 0 => b.pos[s] = Flat)
           /\ st + b.realized - AtCost(b) >= 0 /\ st + b.realized - AtCost(b) <= bt
<1>1. b \in PaperBook
  BY DEF Balanced
<1>2. /\ AtCost(b) \in Int /\ b.realized \in Int
      /\ Sum(Remainder(b)) \in Int /\ Sum(Remainder(b)) >= 0
  <2>1. /\ DOMAIN Remainder(b) = Symbol
        /\ \A t \in Symbol : Remainder(b)[t] \in Int /\ Remainder(b)[t] >= 0
    BY <1>1, PositionType DEF Remainder, Balanced
  <2> QED
    BY <1>1, <2>1, AtCostInt, PaperType, SumOfSymbols
<1>3. \A s \in Symbol : b.pos[s].qty \in Nat
  BY <1>1, PositionType
<1>4. /\ st + b.realized - AtCost(b) >= 0
      /\ st + b.realized - AtCost(b) + Sum(Remainder(b)) <= bt
  BY DEF Balanced
<1> QED
  BY <1>2, <1>3, <1>4 DEF Balanced

----------------------------------------------------------------------------
(* Paper trading: what the risk manager approves *)

\* A BUY is approved for a fresh quote of a portfolio that can be valued, outside the
\* cooldown, and for no more than the exposure cap leaves.
LEMMA BuyApproved ==
    ASSUME NEW c, c.price \in Nat, c.position \in Int,
           c.value \in Int \cup {NoValue}, c.exposure \in Int \cup {NoValue},
           BuyQuantity(c) > 0
    PROVE  /\ BuyQuantity(c) \in Nat /\ BuyQuantity(c) >= MinOrder
           /\ c.fresh /\ c.price > 0
           /\ c.value # NoValue /\ c.exposure # NoValue /\ CooldownGateOpen(c)
           /\ ExposurePct > 0 =>
                 BuyQuantity(c) * c.price <= Frac(c.value, ExposurePct) - c.exposure
<1> DEFINE room == Min(Caps(c))
           q == IF room > 0 THEN FloorTick(room \div c.price) ELSE 0
           n == BuyQuantity(c)
<1>1. /\ Admissible(c) /\ c.value # NoValue /\ c.exposure # NoValue /\ CooldownGateOpen(c)
      /\ n = q /\ Executable(q, c.price)
  BY DEF BuyQuantity
<1> HIDE DEF n
<1>2. c.fresh /\ c.price > 0 /\ c.price \in Nat \ {0} /\ c.value \in Int /\ c.exposure \in Int
  BY <1>1 DEF Admissible
<1>3. /\ room \in Int
      /\ ExposurePct > 0 => room <= Frac(c.value, ExposurePct) - c.exposure
  BY <1>2, RoomOfCaps
<1>4. Frac(c.value, ExposurePct) \in Int
  <2>1. ExposurePct \in Int
    BY RiskAssumption
  <2> QED
    BY <1>2, <2>1, FracInt
<1> HIDE DEF room
<1>5. n >= MinOrder /\ n > 0
  BY <1>1 DEF Executable
<1>6. room > 0 /\ n = FloorTick(room \div c.price)
  BY <1>1, <1>5
<1> HIDE DEF q
<1>7. room \div c.price \in Int /\ (room \div c.price) * c.price <= room
  BY <1>2, <1>3, Division
<1>8. n \in Int /\ n <= room \div c.price
  BY <1>6, <1>7, FloorTickLe
<1>9. n \in Nat /\ n * c.price <= room /\ n * c.price \in Int
  <2> DEFINE k == room \div c.price
  <2>1. n \in Nat /\ k \in Nat /\ n <= k
    BY <1>5, <1>7, <1>8
  <2> HIDE DEF k
  <2>2. c.price * n <= c.price * k /\ c.price * n \in Nat
    BY <1>2, <2>1, ProductLe
  <2>3. k * c.price <= room
    BY <1>7 DEF k
  <2>4. \A i, j \in Nat : i * j = j * i /\ i * j \in Nat
    OBVIOUS
  <2>5. n * c.price = c.price * n /\ k * c.price = c.price * k
    BY <1>2, <2>1, <2>4
  <2> QED
    BY <1>3, <2>1, <2>2, <2>3, <2>5
<1> QED
  BY <1>1, <1>2, <1>3, <1>4, <1>5, <1>9 DEF n

\* A SELL is approved for no more than the position.
LEMMA SellApproved ==
    ASSUME NEW c, c.position \in Nat, SellQuantity(c) > 0
    PROVE  /\ SellQuantity(c) \in Nat /\ SellQuantity(c) >= MinOrder
           /\ SellQuantity(c) <= c.position
<1> DEFINE q == FloorTick(c.position)
<1>1. SellQuantity(c) = q /\ Executable(q, c.price)
  BY DEF SellQuantity
<1>2. q \in Int /\ q <= c.position
  BY FloorTickLe
<1> HIDE DEF q
<1>3. q > 0 /\ q >= MinOrder
  BY <1>1 DEF Executable
<1> QED
  BY <1>1, <1>2, <1>3

----------------------------------------------------------------------------
(* Paper trading: what a cycle decides *)

LEMMA QuoteFacts ==
    ASSUME NEW pr \in [Symbol -> Quote], NEW s \in Symbol
    PROVE  /\ pr[s].bid \in Nat \ {0} /\ pr[s].ask \in Nat \ {0} /\ pr[s].last \in Nat \ {0}
  BY TradingAssumption

LEMMA ExposureInt ==
    ASSUME NEW b \in PaperBook, NEW pr \in [Symbol -> Quote]
    PROVE  Exposure(b, pr) \in Int /\ Equity(b, pr) \in Int
<1> DEFINE f == [s \in Symbol |-> b.pos[s].qty * pr[s].last]
<1>1. DOMAIN f = Symbol /\ \A s \in Symbol : f[s] \in Int
  <2> SUFFICES ASSUME NEW s \in Symbol PROVE b.pos[s].qty * pr[s].last \in Int
    OBVIOUS
  <2>1. b.pos[s].qty \in Nat /\ pr[s].last \in Nat
    BY PositionType, QuoteFacts
  <2> QED
    BY <2>1, ProductLe
<1> HIDE DEF f
<1>2. Sum(f) \in Int
  BY <1>1, SumOfSymbols
<1>3. Exposure(b, pr) = Sum(f)
  BY DEF Exposure, f
<1>4. b.cash \in Int
  BY PaperType
<1> QED
  BY <1>2, <1>3, <1>4 DEF Equity

\* Quotes that agree on what is held give the same exposure.
LEMMA SameExposure ==
    ASSUME NEW b \in PaperBook, NEW p1 \in [Symbol -> Quote], NEW p2 \in [Symbol -> Quote],
           \A s \in Symbol : b.pos[s].qty > 0 => p1[s] = p2[s]
    PROVE  Exposure(b, p1) = Exposure(b, p2) /\ Equity(b, p1) = Equity(b, p2)
<1>1. ASSUME NEW s \in Symbol PROVE b.pos[s].qty * p1[s].last = b.pos[s].qty * p2[s].last
  <2>1. b.pos[s].qty \in Nat /\ p1[s].last \in Nat /\ p2[s].last \in Nat
    BY PositionType, QuoteFacts
  <2>2. CASE b.pos[s].qty > 0
    BY <2>2
  <2>3. CASE b.pos[s].qty = 0
    BY <2>1, <2>3
  <2> QED
    BY <2>1, <2>2, <2>3
<1>2. [s \in Symbol |-> b.pos[s].qty * p1[s].last] = [s \in Symbol |-> b.pos[s].qty * p2[s].last]
  BY <1>1
<1>3. Exposure(b, p1) = Exposure(b, p2)
  BY <1>2 DEF Exposure
<1> QED
  BY <1>3 DEF Equity

LEMMA ViewFacts ==
    ASSUME NEW v \in Views
    PROVE  /\ v.quote \in [Symbol -> Quote] /\ v.fresh \subseteq Symbol
           /\ v.candles \subseteq Symbol
           /\ \A s \in Symbol : s \in v.fresh <=> v.quote[s] = price[s]
  BY DEF Views

LEMMA ContextFacts ==
    ASSUME book \in PaperBook, NEW v \in Views, NEW s \in Symbol,
           NEW side \in {"BUY", "SELL"}
    PROVE  LET c == RiskContext(s, v, side) IN
           /\ c.price = (IF side = "BUY" THEN v.quote[s].ask ELSE v.quote[s].bid)
           /\ c.price \in Nat \ {0}
           /\ c.fresh <=> s \in v.fresh
           /\ c.position = book.pos[s].qty /\ c.position \in Nat
           /\ c.value \in Int \cup {NoValue} /\ c.exposure \in Int \cup {NoValue}
           /\ c.value # NoValue => /\ Open(book) \ {s} \subseteq v.fresh
                                   /\ c.value = Equity(book, v.quote)
                                   /\ c.exposure = Exposure(book, v.quote)
           /\ c.cooling = cooling
<1> DEFINE valued == Open(book) \ {s} \subseteq v.fresh
           c == RiskContext(s, v, side)
<1>1. /\ c.price = (IF side = "BUY" THEN v.quote[s].ask ELSE v.quote[s].bid)
      /\ c.fresh = (s \in v.fresh)
      /\ c.position = book.pos[s].qty
      /\ c.value = (IF valued THEN Equity(book, v.quote) ELSE NoValue)
      /\ c.exposure = (IF valued THEN Exposure(book, v.quote) ELSE NoValue)
      /\ c.cooling = cooling
  BY Zenon DEF RiskContext
<1> HIDE DEF c, valued
<1>2. /\ Equity(book, v.quote) \in Int /\ Exposure(book, v.quote) \in Int
      /\ v.quote[s].ask \in Nat \ {0} /\ v.quote[s].bid \in Nat \ {0}
      /\ book.pos[s].qty \in Nat
  BY ViewFacts, ExposureInt, QuoteFacts, PositionType
<1>3. c.price \in Nat \ {0} /\ c.position \in Nat
  BY <1>1, <1>2
<1>4. c.value \in Int \cup {NoValue} /\ c.exposure \in Int \cup {NoValue}
  BY <1>1, <1>2
<1>5. c.value # NoValue => valued /\ c.value = Equity(book, v.quote)
                           /\ c.exposure = Exposure(book, v.quote)
  BY <1>1
<1>6. c.fresh <=> s \in v.fresh
  BY <1>1, Zenon
<1> QED
  BY <1>1, <1>3, <1>4, <1>5, <1>6 DEF c, valued

\* A position is sold, and only a symbol without one is bought.
LEMMA SignalFacts ==
    ASSUME book \in PaperBook, NEW s \in Symbol, NEW v
    PROVE  /\ Signal(s, v) = "BUY" => book.pos[s].qty = 0
           /\ Signal(s, v) = "SELL" => book.pos[s].qty > 0
  BY PositionType, Zenon DEF Signal

\* What is selected is a symbol with an approved order on the side of its signal.
LEMMA SelectedFacts ==
    ASSUME known \subseteq Symbol, NEW v \in Views, NEW s \in Selected(v)
    PROVE  \E side \in {"BUY", "SELL"} :
              /\ s \in Symbol /\ s \in known
              /\ Signal(s, v) = side
              /\ ApprovedQuantity(RiskContext(s, v, side), side) > 0
<1> DEFINE sells == Candidates(v, "SELL")
           buys == Candidates(v, "BUY")
           tightest == {t \in buys : \A u \in buys : ~Tighter(v.quote[u], v.quote[t])}
<1>1. \A side : \A t \in Candidates(v, side) :
         /\ t \in Symbol /\ t \in known /\ Signal(t, v) = side
         /\ ApprovedQuantity(RiskContext(t, v, side), side) > 0
  <2>1. TAKE side
  <2>2. TAKE t \in Candidates(v, side)
  <2>3. t \in Evaluated(v) /\ Signal(t, v) = side
        /\ \E c \in {RiskContext(t, v, side)} : ApprovedQuantity(c, side) > 0
    BY Zenon DEF Candidates
  <2>4. t \in known
    BY <2>3 DEF Evaluated
  <2>5. ApprovedQuantity(RiskContext(t, v, side), side) > 0
    BY <2>3, Zenon
  <2> QED
    BY <2>3, <2>4, <2>5
<1>2. Selected(v) = CASE sells # {} -> {Min(sells)}
                      [] sells = {} /\ tightest # {} -> {Min(tightest)}
                      [] OTHER -> {}
  BY Zenon DEF Selected
<1>3. tightest \subseteq buys
  OBVIOUS
<1>4. sells \subseteq Symbol /\ buys \subseteq Symbol
  BY <1>1
<1> HIDE DEF sells, buys, tightest
<1>5. \A S : S \subseteq Symbol /\ S # {} => Min(S) \in S
  <2> SUFFICES ASSUME NEW S, S \subseteq Symbol, S # {} PROVE Min(S) \in S
    OBVIOUS
  <2>1. IsFiniteSet(Symbol) /\ Symbol \subseteq Int
    BY TradingAssumption
  <2>2. IsFiniteSet(S)
    BY <2>1, FS_Subset
  <2> QED
    BY <2>1, <2>2, Extrema
<1>6. s \in sells \/ s \in buys
  BY <1>2, <1>3, <1>4, <1>5
<1>7. CASE s \in sells
  BY <1>1, <1>7 DEF sells
<1>8. CASE s \in buys
  BY <1>1, <1>8 DEF buys
<1> QED
  BY <1>6, <1>7, <1>8

----------------------------------------------------------------------------
(* Paper trading: what a cycle executes *)

\* An order that was executed on the view v: a BUY where nothing is held, for no more
\* than the exposure cap leaves, or a SELL of no more than is held.
BuyOf(s, v, q) ==
    /\ book.pos[s].qty = 0
    /\ q \in Nat /\ q >= MinOrder
    /\ s \in v.fresh /\ Open(book) \ {s} \subseteq v.fresh
    /\ Cooldown => ~cooling
    /\ ExposurePct > 0 =>
          q * v.quote[s].ask <= Frac(Equity(book, v.quote), ExposurePct) - Exposure(book, v.quote)
    /\ FillBuy(s, q, Slipped(v.quote[s].ask, "BUY"))

SellOf(s, v, q) ==
    /\ q \in Nat /\ q >= MinOrder /\ q <= book.pos[s].qty
    /\ FillSell(s, q, Slipped(v.quote[s].bid, "SELL"))

LEMMA ExecuteFacts ==
    ASSUME book \in PaperBook, known \subseteq Symbol,
           NEW v \in Views, NEW s \in Selected(v), Execute(s, v)
    PROVE  /\ s \in Symbol
           /\ orders' = orders + 1 /\ start' = start /\ ids' = ids \cup {orders + 1}
           /\ Persist
           /\ \E q : BuyOf(s, v, q) \/ SellOf(s, v, q)
<1>1. PICK side \in {"BUY", "SELL"} :
         /\ s \in Symbol /\ Signal(s, v) = side
         /\ ApprovedQuantity(RiskContext(s, v, side), side) > 0
  BY SelectedFacts
<1> DEFINE c == RiskContext(s, v, side)
           q == ApprovedQuantity(c, side)
<1>2. /\ orders' = orders + 1 /\ start' = start /\ ids' = ids \cup {orders + 1}
      /\ Persist
  BY Zenon DEF Execute, ExecutedIds
<1>3. IF side = "BUY" THEN FillBuy(s, q, Slipped(c.price, side))
                      ELSE FillSell(s, q, Slipped(c.price, side))
  <2>1. \E d \in {Signal(s, v)} : \E e \in {RiskContext(s, v, d)} :
           \E m \in {ApprovedQuantity(e, d)}, p \in {Slipped(e.price, d)} :
              IF d = "BUY" THEN FillBuy(s, m, p) ELSE FillSell(s, m, p)
    BY Zenon DEF Execute
  <2> QED
    BY <1>1, <2>1, Zenon
<1>4. /\ c.price = (IF side = "BUY" THEN v.quote[s].ask ELSE v.quote[s].bid)
      /\ c.price \in Nat \ {0}
      /\ c.fresh <=> s \in v.fresh
      /\ c.position = book.pos[s].qty /\ c.position \in Nat
      /\ c.value \in Int \cup {NoValue} /\ c.exposure \in Int \cup {NoValue}
      /\ c.value # NoValue => /\ Open(book) \ {s} \subseteq v.fresh
                              /\ c.value = Equity(book, v.quote)
                              /\ c.exposure = Exposure(book, v.quote)
      /\ c.cooling = cooling
  BY <1>1, ContextFacts
<1>5. q = (IF side = "SELL" THEN SellQuantity(c) ELSE BuyQuantity(c)) /\ q > 0
  BY <1>1, Zenon DEF ApprovedQuantity
<1> HIDE DEF c, q
<1>6. CASE side = "BUY"
  <2>1. q = BuyQuantity(c) /\ BuyQuantity(c) > 0 /\ c.price = v.quote[s].ask
    BY <1>4, <1>5, <1>6
  <2>2. /\ q \in Nat /\ q >= MinOrder /\ c.fresh /\ c.value # NoValue
        /\ CooldownGateOpen(c)
        /\ ExposurePct > 0 => q * c.price <= Frac(c.value, ExposurePct) - c.exposure
    BY <1>4, <2>1, BuyApproved
  <2>3. Cooldown => ~cooling
    BY <1>4, <2>2 DEF CooldownGateOpen
  <2>4. book.pos[s].qty = 0
    BY <1>1, <1>6, SignalFacts
  <2>5. FillBuy(s, q, Slipped(v.quote[s].ask, "BUY"))
    BY <1>3, <1>6, <2>1
  <2>6. ExposurePct > 0 =>
          q * v.quote[s].ask <= Frac(Equity(book, v.quote), ExposurePct) - Exposure(book, v.quote)
    BY <1>4, <2>1, <2>2
  <2>7. BuyOf(s, v, q)
    BY <1>4, <2>2, <2>3, <2>4, <2>5, <2>6 DEF BuyOf
  <2> QED
    BY <1>1, <1>2, <2>7
<1>7. CASE side = "SELL"
  <2>1. q = SellQuantity(c) /\ SellQuantity(c) > 0 /\ c.price = v.quote[s].bid
    BY <1>4, <1>5, <1>7
  <2>2. q \in Nat /\ q >= MinOrder /\ q <= book.pos[s].qty
    BY <1>4, <2>1, SellApproved
  <2>3. FillSell(s, q, Slipped(v.quote[s].bid, "SELL"))
    BY <1>3, <1>7, <2>1
  <2>4. SellOf(s, v, q)
    BY <2>2, <2>3 DEF SellOf
  <2> QED
    BY <1>1, <1>2, <2>4
<1> QED
  BY <1>1, <1>6, <1>7

\* What a cycle does.
LEMMA CycleFacts ==
    ASSUME book \in PaperBook, known \subseteq Symbol, NEW v \in Views, Cycle(v)
    PROVE  /\ up /\ up' = up /\ known' = known /\ UNCHANGED world /\ cross' = Crossed(v)
           /\ \/ UNCHANGED <<disk, book, ids, cooling, paused, hist>>
              \/ \E s \in Symbol :
                    /\ orders' = orders + 1 /\ start' = start /\ ids' = ids \cup {orders + 1}
                    /\ Persist
                    /\ \E q : BuyOf(s, v, q) \/ SellOf(s, v, q)
<1>1. up /\ up' = up /\ known' = known /\ UNCHANGED world /\ cross' = Crossed(v)
  BY DEF Cycle
<1>2. \/ UNCHANGED <<disk, book, ids, cooling, paused, hist>>
      \/ \E s \in Selected(v) : Execute(s, v)
  BY Zenon DEF Cycle
<1>3. CASE \E s \in Selected(v) : Execute(s, v)
  BY <1>1, <1>3, ExecuteFacts, Zenon
<1> QED
  BY <1>1, <1>2, <1>3

----------------------------------------------------------------------------
(* Paper trading: its invariant *)

LEMMA InvFacts ==
    ASSUME PaperInv
    PROVE  /\ book \in PaperBook /\ disk.book \in PaperBook /\ known \subseteq Symbol
           /\ day \in 0..MaxDay /\ start \in Nat /\ bought \in Nat /\ orders \in Nat
           /\ Balanced(book, start, bought) /\ Balanced(disk.book, start, bought)
<1>1. start \in Nat /\ bought \in Nat /\ orders \in Nat
  BY TradingAssumption DEF PaperInv, TrTypeOK
<1> QED
  BY <1>1 DEF PaperInv, TrTypeOK

LEMMA BuyKeeps ==
    ASSUME PaperInv, NEW v \in Views, NEW s \in Symbol, NEW q, BuyOf(s, v, q), start' = start
    PROVE  /\ bought' \in Nat
           /\ Balanced(book', start', bought') /\ Balanced(disk.book, start', bought')
           /\ book'.fills \subseteq book.fills \cup {orders + 1}
           /\ cooling' = cooling /\ paused' = paused /\ ~paused
           /\ book'.pos[s].qty - book.pos[s].qty <= q
           /\ \A t \in Symbol \ {s} : book'.pos[t] = book.pos[t]
<1> DEFINE p == Slipped(v.quote[s].ask, "BUY")
           n == orders + 1
           filled == Frac(q, FillPct)
           fee == Frac(filled * p, FeePct)
<1>1. /\ book \in PaperBook /\ day \in 0..MaxDay /\ start \in Int /\ bought \in Nat
      /\ n \in Nat /\ book.pos[s].qty = 0
      /\ Balanced(book, start, bought) /\ Balanced(disk.book, start, bought)
  BY InvFacts DEF BuyOf
<1>2. q \in Nat /\ q >= MinOrder /\ FillBuy(s, q, p)
  BY DEF BuyOf
<1>3. v.quote[s].ask \in Nat \ {0}
  BY ViewFacts, QuoteFacts
<1>4. p \in Nat \ {0}
  BY <1>3, SlippedBounds
<1>5. filled \in Nat \ {0} /\ filled <= q
  BY <1>2, FilledBounds
<1> DEFINE refused == Overdraws(filled, p, fee)
<1>6. /\ refused => book' = book /\ bought' = bought
      /\ ~refused => book' = AfterBuy(book, s, filled, p, fee, n) /\ bought' = bought + filled
      /\ cooling' = cooling /\ paused' = paused
  BY <1>2, Zenon DEF FillBuy
<1>7. ~refused => filled * p + fee <= book.cash
  <2>1. book.cash \in Int /\ book.cash >= 0 /\ filled * p \in Nat
    BY <1>1, <1>4, <1>5, PaperType, ProductLe DEF Balanced
  <2>2. Max({book.cash, 0}) = book.cash
    BY <2>1, MaxZero
  <2>3. fee \in Nat
    BY <2>1, PaperFeeBounds
  <2> HIDE DEF filled, p, fee
  <2> QED
    BY <2>1, <2>2, <2>3 DEF Overdraws
<1>8. fee \in Nat
  <2>1. filled * p \in Nat
    BY <1>4, <1>5, ProductLe
  <2> QED
    BY <2>1, PaperFeeBounds
<1>9. ~paused
  BY DEF PaperInv, BuyOf
<1> HIDE DEF p, n, filled, fee, refused
<1>10. CASE refused
  BY <1>1, <1>2, <1>6, <1>9, <1>10
<1>11. CASE ~refused
  <2>1. /\ Balanced(book', start, bought')
        /\ book'.fills = book.fills \cup {n}
        /\ book'.pos[s].qty = filled
        /\ \A t \in Symbol \ {s} : book'.pos[t] = book.pos[t]
    <3> DEFINE a == AfterBuy(book, s, filled, p, fee, n)
    <3>1. /\ Balanced(a, start, bought + filled)
          /\ a.fills = book.fills \cup {n}
          /\ a.pos[s].qty = filled /\ \A t \in Symbol \ {s} : a.pos[t] = book.pos[t]
      BY <1>1, <1>4, <1>5, <1>7, <1>8, <1>11, BuyBalanced
    <3>2. book' = a /\ bought' = bought + filled
      BY <1>6, <1>11
    <3> HIDE DEF a
    <3> QED
      BY <3>1, <3>2
  <2>2. Balanced(disk.book, start, bought') /\ bought' \in Nat
    BY <1>1, <1>5, <1>6, <1>11, BalancedLater
  <2>3. book'.pos[s].qty - book.pos[s].qty <= q
    BY <1>1, <1>2, <1>5, <2>1
  <2> QED
    BY <1>6, <1>9, <2>1, <2>2, <2>3 DEF n
<1> QED
  BY <1>10, <1>11

LEMMA SellKeeps ==
    ASSUME PaperInv, NEW v \in Views, NEW s \in Symbol, NEW q, SellOf(s, v, q), start' = start
    PROVE  /\ bought' = bought
           /\ Balanced(book', start', bought') /\ Balanced(disk.book, start', bought')
           /\ book'.fills \subseteq book.fills \cup {orders + 1}
           /\ cooling' \in BOOLEAN /\ paused' \in BOOLEAN /\ (paused' => cooling' /\ Cooldown)
           /\ book'.pos[s].qty <= book.pos[s].qty
           /\ \A t \in Symbol \ {s} : book'.pos[t] = book.pos[t]
<1> DEFINE p == Slipped(v.quote[s].bid, "SELL")
           n == orders + 1
           filled == Frac(q, FillPct)
           fee == Frac(filled * p, FeePct)
<1>1. /\ book \in PaperBook /\ day \in 0..MaxDay /\ start \in Int /\ bought \in Nat
      /\ n \in Nat
      /\ Balanced(book, start, bought) /\ Balanced(disk.book, start, bought)
  BY InvFacts
<1>2. q \in Nat /\ q >= MinOrder /\ q <= book.pos[s].qty /\ FillSell(s, q, p)
  BY DEF SellOf
<1>3. v.quote[s].bid \in Nat \ {0} /\ book.pos[s].qty \in Nat
  BY <1>1, ViewFacts, QuoteFacts, PositionType
<1>4. p \in Nat
  BY <1>3, SlippedBounds
<1>5. filled \in Nat \ {0} /\ filled <= book.pos[s].qty
  <2>1. filled \in Nat /\ filled >= 1 /\ filled <= q
    BY <1>2, FilledBounds
  <2> HIDE DEF filled
  <2> QED
    BY <1>2, <1>3, <2>1
<1>6. fee \in Nat /\ fee <= filled * p
  <2>1. filled * p \in Nat
    BY <1>4, <1>5, ProductLe
  <2> QED
    BY <2>1, PaperFeeBounds
<1> DEFINE loss == Realized(book, s, filled, p, fee) < 0
<1>7. /\ book' = AfterSell(book, s, filled, p, fee, n)
      /\ cooling' = (cooling \/ (Cooldown /\ book.pos[s].avg > 0 /\ loss))
      /\ paused' = (paused \/ (loss /\ Cooldown))
      /\ bought' = bought
  BY <1>2, Zenon DEF FillSell, LosingClose
<1>8. book.pos[s].avg > 0
  <2>1. book.pos[s].qty > 0
    BY <1>3, <1>5
  <2>2. book.pos[s].avg \in Int /\ book.pos[s].avg >= 1
    BY <1>1, <2>1, PositionType DEF Balanced
  <2> QED
    BY <2>2
<1> HIDE DEF p, n, filled, fee, loss
<1>9. /\ Balanced(book', start, bought)
      /\ book'.fills = book.fills \cup {n}
      /\ book'.pos[s].qty = book.pos[s].qty - filled
      /\ \A t \in Symbol \ {s} : book'.pos[t] = book.pos[t]
  BY <1>1, <1>4, <1>5, <1>6, <1>7, SellBalanced
<1>10. cooling' \in BOOLEAN /\ paused' \in BOOLEAN /\ (paused' => cooling' /\ Cooldown)
  <2>1. paused \in BOOLEAN /\ cooling \in BOOLEAN /\ (paused => cooling /\ Cooldown)
    BY DEF PaperInv, TrTypeOK
  <2>2. paused' \in BOOLEAN /\ cooling' \in BOOLEAN
    BY <1>7, Zenon
  <2>3. paused' => cooling' /\ Cooldown
    BY <1>7, <1>8, <2>1, Zenon
  <2> QED
    BY <2>2, <2>3
<1>11. book'.pos[s].qty <= book.pos[s].qty
  BY <1>3, <1>5, <1>9
<1> QED
  BY <1>1, <1>7, <1>9, <1>10, <1>11 DEF n

LEMMA PaperInit == TrInit => PaperInv
<1> SUFFICES ASSUME TrInit PROVE PaperInv
  OBVIOUS
<1> DEFINE b == NewBook(start)
<1>1. /\ price \in [Symbol -> Quote] /\ trend \in [Symbol -> Trend] /\ day = 0
      /\ start \in Balance /\ disk = [book |-> b, ids |-> {}]
      /\ up = FALSE /\ known = {} /\ book = b /\ ids = {}
      /\ cross = NoCross /\ cooling = FALSE /\ paused = FALSE
      /\ orders = 0 /\ bought = 0 /\ faults = 0
  BY DEF TrInit
<1>2. start \in Nat /\ 0 \in 0..MaxDay /\ 0 \in 0..MaxFaults /\ 0 \in Nat
  BY <1>1, TradingAssumption
<1>3. Balanced(b, start, 0) /\ b.fills = {}
  BY <1>2, NewBookBalanced DEF NewBook
<1> HIDE DEF b
<1>4. disk.book = b /\ disk.ids = {} /\ b \in PaperBook
  BY <1>1, <1>3 DEF Balanced
<1>5. cross \in [Symbol -> {"unknown", "above", "not above"}]
  BY <1>1 DEF NoCross
<1>6. TrTypeOK
  BY <1>1, <1>2, <1>4, <1>5 DEF TrTypeOK
<1> QED
  BY <1>1, <1>3, <1>4, <1>6 DEF PaperInv

\* A save writes the book and the ids of this very step, or nothing.
LEMMA PersistFacts ==
    ASSUME Persist, faults \in 0..MaxFaults
    PROVE  /\ faults' \in 0..MaxFaults
           /\ (disk'.book = book' /\ disk'.ids = ids') \/ disk' = disk
<1>1. MaxFaults \in Nat
  BY TradingAssumption
<1>2. CASE Saved
  BY <1>2 DEF Saved
<1>3. CASE faults < MaxFaults /\ faults' = faults + 1 /\ UNCHANGED disk
  BY <1>1, <1>3
<1> QED
  BY <1>2, <1>3 DEF Persist

\* One executed order.
LEMMA OrderKeeps ==
    ASSUME PaperInv, NEW v \in Views, Cycle(v), NEW s \in Symbol,
           orders' = orders + 1, start' = start, ids' = ids \cup {orders + 1}, Persist,
           NEW q, BuyOf(s, v, q) \/ SellOf(s, v, q)
    PROVE  PaperInv'
<1>1. /\ up /\ up' = up /\ known' = known /\ UNCHANGED world /\ cross' = Crossed(v)
  BY InvFacts, CycleFacts
<1>2. /\ bought' \in Nat
      /\ Balanced(book', start', bought') /\ Balanced(disk.book, start', bought')
      /\ book'.fills \subseteq book.fills \cup {orders + 1}
      /\ cooling' \in BOOLEAN /\ paused' \in BOOLEAN /\ (paused' => cooling' /\ Cooldown)
  <2>1. CASE BuyOf(s, v, q)
    <3>1. /\ bought' \in Nat
          /\ Balanced(book', start', bought') /\ Balanced(disk.book, start', bought')
          /\ book'.fills \subseteq book.fills \cup {orders + 1}
          /\ cooling' = cooling /\ paused' = paused
      BY <2>1, BuyKeeps
    <3> QED
      BY <3>1 DEF PaperInv, TrTypeOK
  <2>2. CASE SellOf(s, v, q)
    BY <2>2, SellKeeps, InvFacts
  <2> QED
    BY <2>1, <2>2
<1>3. /\ faults' \in 0..MaxFaults
      /\ (disk'.book = book' /\ disk'.ids = ids') \/ disk' = disk
  BY PersistFacts DEF PaperInv, TrTypeOK
<1>4. /\ orders' \in Nat /\ ids' \subseteq 1..orders' /\ disk.ids \subseteq 1..orders'
      /\ book'.fills \subseteq ids' /\ disk.ids \subseteq ids'
      /\ disk.book.fills \subseteq disk.ids
  <2>1. /\ orders \in Nat /\ ids \subseteq 1..orders /\ disk.ids \subseteq 1..orders
        /\ book.fills \subseteq ids /\ disk.ids \subseteq ids
        /\ disk.book.fills \subseteq disk.ids
    BY <1>1 DEF PaperInv, TrTypeOK
  <2>2. orders' \in Nat /\ 1..orders \subseteq 1..orders' /\ orders + 1 \in 1..orders'
    BY <2>1
  <2>3. ids' \subseteq 1..orders' /\ disk.ids \subseteq 1..orders'
    BY <2>1, <2>2
  <2> QED
    BY <1>2, <2>1, <2>2, <2>3
<1>5. /\ disk'.book \in PaperBook /\ disk'.ids \subseteq 1..orders'
      /\ Balanced(disk'.book, start', bought')
      /\ disk'.book.fills \subseteq disk'.ids /\ disk'.ids \subseteq ids'
      /\ book' \in PaperBook
  <2>1. book' \in PaperBook /\ disk.book \in PaperBook
    BY <1>2 DEF Balanced
  <2>2. CASE disk'.book = book' /\ disk'.ids = ids'
    BY <1>2, <1>4, <2>1, <2>2
  <2>3. CASE disk' = disk
    BY <1>2, <1>4, <2>1, <2>3
  <2> QED
    BY <1>3, <2>2, <2>3
<1>6. cross' \in [Symbol -> {"unknown", "above", "not above"}]
  BY <1>1 DEF Crossed, PaperInv, TrTypeOK
<1>7. TrTypeOK'
  BY <1>1, <1>2, <1>3, <1>4, <1>5, <1>6 DEF PaperInv, TrTypeOK, world
<1> QED
  BY <1>2, <1>4, <1>5, <1>7 DEF PaperInv

\* A process that is gone, whatever it left on disk.
LEMMA GoneKeeps ==
    ASSUME PaperInv, Gone, faults' \in 0..MaxFaults,
           (disk'.book = book /\ disk'.ids = ids) \/ disk' = disk
    PROVE  PaperInv'
<1>1. /\ up' = FALSE /\ known' = {} /\ book' = NewBook(start) /\ ids' = {}
      /\ cross' = NoCross /\ cooling' = FALSE /\ paused' = FALSE
      /\ start' = start /\ orders' = orders /\ bought' = bought /\ UNCHANGED world
  BY DEF Gone
<1>2. Balanced(NewBook(start), start, bought) /\ NewBook(start).fills = {}
  BY InvFacts, NewBookBalanced DEF NewBook
<1>3. /\ disk'.book \in PaperBook /\ disk'.ids \subseteq 1..orders
      /\ Balanced(disk'.book, start, bought) /\ disk'.book.fills \subseteq disk'.ids
  BY DEF PaperInv, TrTypeOK
<1>4. cross' \in [Symbol -> {"unknown", "above", "not above"}]
  BY <1>1 DEF NoCross
<1>5. book' \in PaperBook
  BY <1>1, <1>2 DEF Balanced
<1>6. TrTypeOK'
  BY <1>1, <1>3, <1>4, <1>5 DEF PaperInv, TrTypeOK, world
<1> QED
  BY <1>1, <1>2, <1>3, <1>6 DEF PaperInv

LEMMA PaperStep == PaperInv /\ [TrNext]_trVars => PaperInv'
<1> SUFFICES ASSUME PaperInv, [TrNext]_trVars PROVE PaperInv'
  OBVIOUS
<1>1. ASSUME NEW v \in Views, Cycle(v) PROVE PaperInv'
  <2>1. /\ up /\ up' = up /\ known' = known /\ UNCHANGED world /\ cross' = Crossed(v)
    BY <1>1, InvFacts, CycleFacts
  <2>2. CASE UNCHANGED <<disk, book, ids, cooling, paused, hist>>
    <3>1. cross' \in [Symbol -> {"unknown", "above", "not above"}]
      BY <2>1 DEF Crossed, PaperInv, TrTypeOK
    <3>2. UNCHANGED <<disk, book, ids, cooling, paused, start, orders, bought, faults>>
      BY <2>2 DEF hist
    <3>3. TrTypeOK'
      BY <2>1, <3>1, <3>2 DEF PaperInv, TrTypeOK, world
    <3> QED
      BY <2>1, <3>2, <3>3 DEF PaperInv
  <2>3. ASSUME NEW s \in Symbol,
               orders' = orders + 1, start' = start, ids' = ids \cup {orders + 1}, Persist,
               NEW q, BuyOf(s, v, q) \/ SellOf(s, v, q)
        PROVE  PaperInv'
    BY <1>1, <2>3, OrderKeeps
  <2> QED
    BY <1>1, <2>2, <2>3, InvFacts, CycleFacts
<1>2. CASE Start
  <2>1. /\ up' = TRUE /\ known' \subseteq Symbol
        /\ book' = disk.book /\ ids' = disk.ids
        /\ cross' = NoCross /\ cooling' = FALSE /\ paused' = FALSE
        /\ UNCHANGED world /\ disk' = disk
        /\ start' = start /\ orders' = orders /\ bought' = bought /\ faults' = faults
    BY <1>2 DEF Start, hist
  <2>2. cross' \in [Symbol -> {"unknown", "above", "not above"}]
    BY <2>1 DEF NoCross
  <2>3. TrTypeOK'
    BY <2>1, <2>2 DEF PaperInv, TrTypeOK, world
  <2> QED
    BY <2>1, <2>3 DEF PaperInv
<1>3. CASE Stop
  <2>1. /\ Gone
        /\ \/ disk' = [book |-> book, ids |-> ids] /\ UNCHANGED faults
           \/ faults < MaxFaults /\ faults' = faults + 1 /\ UNCHANGED disk
    BY <1>3 DEF Stop
  <2>2. faults \in 0..MaxFaults /\ MaxFaults \in Nat
    BY TradingAssumption DEF PaperInv, TrTypeOK
  <2>3. faults' \in 0..MaxFaults
    BY <2>1, <2>2
  <2>4. (disk'.book = book /\ disk'.ids = ids) \/ disk' = disk
    BY <2>1
  <2> QED
    BY <2>1, <2>3, <2>4, GoneKeeps
<1>4. CASE Die
  <2>1. Gone /\ faults < MaxFaults /\ faults' = faults + 1 /\ disk' = disk
    BY <1>4 DEF Die
  <2>2. faults \in 0..MaxFaults /\ MaxFaults \in Nat
    BY TradingAssumption DEF PaperInv, TrTypeOK
  <2>3. faults' \in 0..MaxFaults
    BY <2>1, <2>2
  <2> QED
    BY <2>1, <2>3, GoneKeeps
<1>5. CASE CooldownEnds
  BY <1>5 DEF CooldownEnds, PaperInv, TrTypeOK, world, hist
<1>6. CASE PriceMoves
  <2>1. /\ price' \in [Symbol -> Quote]
        /\ UNCHANGED <<trend, day, disk, up, known, ids, cross, cooling, paused, book,
                       start, orders, bought, faults>>
    BY <1>6 DEF PriceMoves, mem, hist, PaperInv, TrTypeOK
  <2> QED
    BY <2>1 DEF PaperInv, TrTypeOK
<1>7. CASE TrendMoves
  <2>1. /\ trend' \in [Symbol -> Trend]
        /\ UNCHANGED <<price, day, disk, up, known, ids, cross, cooling, paused, book,
                       start, orders, bought, faults>>
    BY <1>7 DEF TrendMoves, mem, hist, PaperInv, TrTypeOK
  <2> QED
    BY <2>1 DEF PaperInv, TrTypeOK
<1>8. CASE DayTurns
  <2>1. /\ day < MaxDay /\ day' = day + 1
        /\ UNCHANGED <<price, trend, disk, up, known, ids, cross, cooling, paused, book,
                       start, orders, bought, faults>>
    BY <1>8 DEF DayTurns, mem, hist
  <2>2. day' \in 0..MaxDay
    <3>1. MaxDay \in Nat /\ day \in 0..MaxDay
      BY InvFacts, TradingAssumption
    <3> QED
      BY <2>1, <3>1
  <2> QED
    BY <2>1, <2>2 DEF PaperInv, TrTypeOK
<1>9. CASE UNCHANGED trVars
  BY <1>9 DEF PaperInv, TrTypeOK, trVars, world, mem, hist
<1> QED
  BY <1>1, <1>2, <1>3, <1>4, <1>5, <1>6, <1>7, <1>8, <1>9 DEF TrNext

----------------------------------------------------------------------------
(* Paper trading: theorems *)

\* Whatever cycles, saves that fail, kills and restarts do, the book in memory and the
\* one on disk are balanced, and the ids in memory hold those on disk.
THEOREM PaperInvariant == TrSpec => []PaperInv
<1>1. TrInit => PaperInv
  BY PaperInit
<1>2. PaperInv /\ [TrNext]_trVars => PaperInv'
  BY PaperStep
<1> QED
  BY <1>1, <1>2, PTL DEF TrSpec

\* What PaperEngine keeps and PaperStateStore holds has its type.
THEOREM PaperTypeCorrect == TrSpec => []TrTypeOK
<1>1. PaperInv => TrTypeOK
  BY DEF PaperInv
<1> QED
  BY <1>1, PaperInvariant, PTL

\* No fill of PaperExecutionEngine overdraws the cash, and Portfolio.applyFill realizes a
\* profit that explains the equity at cost, but for what rounding the average loses.
THEOREM PaperBooksAlwaysBalance == TrSpec => []PaperBooksBalance
<1>1. PaperInv => PaperBooksBalance
  <2> SUFFICES ASSUME PaperInv, NEW b \in {book, disk.book}
               PROVE  /\ b.cash >= 0
                      /\ \A s \in Symbol : b.pos[s].qty >= 0 /\ (b.pos[s].qty = 0 => b.pos[s] = Flat)
                      /\ start + b.realized - AtCost(b) >= 0
                      /\ start + b.realized - AtCost(b) <= bought
    BY DEF PaperBooksBalance
  <2>1. start \in Int /\ bought \in Int /\ Balanced(b, start, bought)
    BY InvFacts
  <2> QED
    BY <2>1, BalancedLoss
<1> QED
  BY <1>1, PaperInvariant, PTL

\* How the book of a process changes while it runs.
LEMMA UpStep ==
    ASSUME PaperInv, [TrNext]_trVars, up
    PROVE  \/ book' = book /\ bought' = bought
           \/ book' = NewBook(start) /\ bought' = bought
           \/ \E v \in Views, s \in Symbol : \E q :
                 /\ UNCHANGED <<price, start>>
                 /\ BuyOf(s, v, q) \/ SellOf(s, v, q)
<1>1. ASSUME NEW v \in Views, Cycle(v)
      PROVE  \/ book' = book /\ bought' = bought
             \/ \E s \in Symbol : \E q :
                   /\ UNCHANGED <<price, start>>
                   /\ BuyOf(s, v, q) \/ SellOf(s, v, q)
  <2>1. UNCHANGED price
    BY <1>1, InvFacts, CycleFacts DEF world
  <2>2. CASE UNCHANGED <<disk, book, ids, cooling, paused, hist>>
    BY <2>2 DEF hist
  <2> QED
    BY <1>1, <2>1, <2>2, InvFacts, CycleFacts
<1>2. CASE Stop \/ Die
  BY <1>2 DEF Stop, Die, Gone
<1>3. ~Start
  BY DEF Start
<1>4. CASE CooldownEnds \/ PriceMoves \/ TrendMoves \/ DayTurns \/ UNCHANGED trVars
  BY <1>4 DEF CooldownEnds, PriceMoves, TrendMoves, DayTurns, trVars, hist
<1> QED
  BY <1>1, <1>2, <1>3, <1>4 DEF TrNext

\* armCooldownOnLosingClose and checkCooldown: after a losing close nothing is bought
\* until the cooldown is over.
THEOREM PausedAfterEveryLoss == TrSpec => PausedAfterLoss
<1>1. PaperInv /\ [TrNext]_trVars => [up /\ bought' > bought => ~paused]_trVars
  <2> SUFFICES ASSUME PaperInv, [TrNext]_trVars, up, bought' > bought PROVE ~paused
    OBVIOUS
  <2>1. bought \in Nat
    BY InvFacts
  <2>2. \E v \in Views, s \in Symbol : \E q :
           UNCHANGED <<price, start>> /\ (BuyOf(s, v, q) \/ SellOf(s, v, q))
    BY <2>1, UpStep
  <2>3. ASSUME NEW v \in Views, NEW s \in Symbol, NEW q, start' = start,
               BuyOf(s, v, q) \/ SellOf(s, v, q)
        PROVE  ~paused
    <3>1. CASE BuyOf(s, v, q)
      BY <2>3, <3>1, BuyKeeps
    <3>2. ~SellOf(s, v, q)
      BY <2>1, <2>3, SellKeeps
    <3> QED
      BY <2>3, <3>1, <3>2
  <2> QED
    BY <2>2, <2>3
<1> QED
  BY <1>1, PaperInvariant, PTL DEF TrSpec, PausedAfterLoss

\* persist saves the order ids of the book with it, and all that was saved before
\* (restoreExecutedOrderIds), also when a save failed or the process was killed.
THEOREM EverySaveKnowsItsOrders == TrSpec => SavedBookKnowsItsOrders
<1>1. PaperInv /\ PaperInv' /\ [TrNext]_trVars
         => [disk'.book.fills \subseteq disk'.ids /\ disk.ids \subseteq disk'.ids]_trVars
  <2> SUFFICES ASSUME PaperInv, PaperInv', [TrNext]_trVars
               PROVE  disk'.book.fills \subseteq disk'.ids /\ disk.ids \subseteq disk'.ids
    OBVIOUS
  <2>1. disk'.book.fills \subseteq disk'.ids
    BY DEF PaperInv
  <2>2. up => disk.ids \subseteq ids
    BY DEF PaperInv
  <2>3. ASSUME NEW v \in Views, Cycle(v) PROVE disk.ids \subseteq disk'.ids
    <3>1. CASE UNCHANGED <<disk, book, ids, cooling, paused, hist>>
      BY <3>1
    <3>2. ASSUME ids' = ids \cup {orders + 1}, Persist PROVE disk.ids \subseteq disk'.ids
      <4>1. (disk'.book = book' /\ disk'.ids = ids') \/ disk' = disk
        BY <3>2, PersistFacts DEF PaperInv, TrTypeOK
      <4>2. up
        BY <2>3 DEF Cycle
      <4> QED
        BY <2>2, <3>2, <4>1, <4>2
    <3> QED
      BY <2>3, <3>1, <3>2, InvFacts, CycleFacts
  <2>4. CASE Start
    BY <2>1, <2>4 DEF Start
  <2>5. CASE Stop \/ Die
    BY <2>1, <2>2, <2>5 DEF Stop, Die
  <2>6. CASE CooldownEnds \/ PriceMoves \/ TrendMoves \/ DayTurns \/ UNCHANGED trVars
    BY <2>1, <2>6 DEF CooldownEnds, PriceMoves, TrendMoves, DayTurns, trVars
  <2> QED
    BY <2>1, <2>3, <2>4, <2>5, <2>6 DEF TrNext
<1> QED
  BY <1>1, PaperInvariant, PTL DEF TrSpec, SavedBookKnowsItsOrders

\* With an exposure cap configured (computeBuyCaps; 0 means none), no BUY brings the
\* exposure of all symbols, at the prices of the market, beyond it.
THEOREM EveryBuyWithinExposure ==
    ASSUME ExposurePct > 0 PROVE TrSpec => BuyWithinExposure
<1> DEFINE More(s) == book'.pos[s].qty - book.pos[s].qty
           Within(s) == Exposure(book, price) + More(s) * price[s].ask
                           <= Frac(Equity(book, price), ExposurePct)
<1>1. PaperInv /\ [TrNext]_trVars => \A s \in Symbol : up /\ More(s) > 0 => Within(s)
  <2> SUFFICES ASSUME PaperInv, [TrNext]_trVars, NEW s \in Symbol, up, More(s) > 0
               PROVE  Within(s)
    OBVIOUS
  <2>1. /\ book \in PaperBook /\ book.pos[s].qty \in Nat
        /\ price \in [Symbol -> Quote] /\ price[s].ask \in Nat
    BY InvFacts, PositionType, QuoteFacts DEF PaperInv, TrTypeOK
  <2>2. book' # book /\ book' # NewBook(start)
    <3>1. book' = NewBook(start) => book'.pos[s].qty = 0
      BY DEF NewBook, Flat
    <3> QED
      BY <2>1, <3>1
  <2>3. PICK v \in Views, t \in Symbol :
           \E q : UNCHANGED <<price, start>> /\ (BuyOf(t, v, q) \/ SellOf(t, v, q))
    BY <2>2, UpStep
  <2>4. PICK q : start' = start /\ (BuyOf(t, v, q) \/ SellOf(t, v, q))
    BY <2>3
  <2>5. ~SellOf(t, v, q)
    <3> SUFFICES ASSUME SellOf(t, v, q) PROVE FALSE
      OBVIOUS
    <3>1. /\ book'.pos[t].qty <= book.pos[t].qty
          /\ \A u \in Symbol \ {t} : book'.pos[u] = book.pos[u]
          /\ book' \in PaperBook
      BY <2>4, SellKeeps DEF Balanced
    <3>2. book'.pos[s].qty \in Nat
      BY <3>1, PositionType
    <3> QED
      BY <2>1, <3>1, <3>2
  <2>6. /\ book'.pos[t].qty - book.pos[t].qty <= q
        /\ \A u \in Symbol \ {t} : book'.pos[u] = book.pos[u]
        /\ book' \in PaperBook
    BY <2>4, <2>5, BuyKeeps DEF Balanced
  <2>7. book'.pos[s].qty \in Nat
    BY <2>6, PositionType
  <2>8. t = s
    BY <2>1, <2>6, <2>7
  <2>9. /\ q \in Nat
        /\ s \in v.fresh /\ Open(book) \ {s} \subseteq v.fresh
        /\ q * v.quote[s].ask
              <= Frac(Equity(book, v.quote), ExposurePct) - Exposure(book, v.quote)
    BY <2>4, <2>5, <2>8 DEF BuyOf
  <2>10. /\ v.quote[s] = price[s]
         /\ Exposure(book, v.quote) = Exposure(book, price)
         /\ Equity(book, v.quote) = Equity(book, price)
    <3>1. /\ v.quote \in [Symbol -> Quote]
          /\ \A u \in Symbol : u \in v.fresh <=> v.quote[u] = price[u]
      BY ViewFacts
    <3>2. \A u \in Symbol : book.pos[u].qty > 0 => v.quote[u] = price[u]
      BY <2>9, <3>1 DEF Open
    <3> QED
      BY <2>1, <2>9, <3>1, <3>2, SameExposure
  <2>11. More(s) \in Nat /\ More(s) <= q
    BY <2>1, <2>6, <2>7, <2>8
  <2>12. /\ Exposure(book, price) \in Int
         /\ Frac(Equity(book, price), ExposurePct) \in Int
    <3>1. ExposurePct \in Int
      BY RiskAssumption
    <3> QED
      BY <2>1, <3>1, ExposureInt, FracInt
  <2>13. /\ More(s) * price[s].ask <= q * price[s].ask
         /\ More(s) * price[s].ask \in Int /\ q * price[s].ask \in Int
    <3> HIDE DEF More
    <3>1. \A i, j, k \in Nat : i <= j => i * k <= j * k /\ i * k \in Nat /\ j * k \in Nat
      OBVIOUS
    <3> QED
      BY <2>1, <2>9, <2>11, <3>1
  <2> HIDE DEF More
  <2> QED
    BY <2>9, <2>10, <2>12, <2>13
<1>2. (\A s \in Symbol : up /\ More(s) > 0 => Within(s))
         => [\A s \in Symbol :
               LET more == book'.pos[s].qty - book.pos[s].qty IN
               up /\ more > 0 =>
                  Exposure(book, price) + more * price[s].ask <= Frac(Equity(book, price), ExposurePct)
            ]_trVars
  BY Zenon
<1> QED
  BY <1>1, <1>2, PaperInvariant, PTL DEF TrSpec, BuyWithinExposure
=============================================================================
