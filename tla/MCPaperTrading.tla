--------------------------- MODULE MCPaperTrading ---------------------------
(* A small instance of PaperTrading: two symbols, a cheap and a dear quote,  *)
(* and percentages large enough to matter among such small amounts.          *)
EXTENDS PaperTrading

MCQuote == {[bid |-> 120, ask |-> 127, last |-> 127], [bid |-> 60, ask |-> 70, last |-> 65]}
=============================================================================
