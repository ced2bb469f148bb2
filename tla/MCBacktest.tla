----------------------------- MODULE MCBacktest -----------------------------
(* A small instance of Backtest: four candles, among them the legs of a      *)
(* pullback (a high bar, its low, a recovery), and series of which the last  *)
(* four bars are free; the longest ones begin as an entry of the pullback    *)
(* strategy does.                                                            *)
EXTENDS Backtest

Low      == [open |-> 30, high |-> 30, low |-> 10, close |-> 10]
Peak     == [open |-> 70, high |-> 90, low |-> 70, close |-> 70]
Dip      == [open |-> 60, high |-> 60, low |-> 50, close |-> 50]
Recovered == [open |-> 60, high |-> 60, low |-> 60, close |-> 60]

MCCandle == {Low, Peak, Dip, Recovered}

Opening == <<Low, Low, Peak>>

MCSeriesOf(m) ==
    LET head == SubSeq(Opening, 1, Max({Min({m - 4, Len(Opening)}), 0})) IN
    {s \in {head \o t : t \in [1..Min({m, 4}) -> MCCandle]} : Len(s) = m}
=============================================================================
