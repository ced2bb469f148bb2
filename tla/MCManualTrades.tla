--------------------------- MODULE MCManualTrades ---------------------------
(****************************************************************************)
(* Instances of ManualTrades for TLC.                                       *)
(****************************************************************************)
EXTENDS ManualTrades

CONSTANTS i1, i2, x1

MCFits  == [x \in XOrder |-> Intent]
MCSize  == [i \in Intent |-> 1]
MCPrice == {1, 2}
MCTyped ==
    LET typed(S) == {[x |-> x, done |-> e[1], filled |-> e[2], sound |-> e[3]] :
                        x \in XOrder, e \in S}
    IN  [i \in Intent |-> IF i = i1 THEN typed({<<FALSE, -1, TRUE>>, <<TRUE, 1, TRUE>>, <<TRUE, 0, FALSE>>})
                                   ELSE typed({<<FALSE, -1, TRUE>>})]
MCQuote == [o \in BuyIntents |-> 2]
=============================================================================
