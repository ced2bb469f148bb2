--------------------------- MODULE MCManagedFunds ---------------------------
(****************************************************************************)
(* An instance of ManagedFunds for TLC: a BUY with two executions and a     *)
(* SELL, which costs of one unit more than the BUY brings tell apart.       *)
(****************************************************************************)
EXTENDS ManagedFunds, TLC

CONSTANTS b1, s1, e1, e2, e3, c1

MCOrderOf == (e1 :> b1) @@ (e2 :> b1) @@ (e3 :> s1)
MCQty     == (e1 :> 1) @@ (e2 :> 1) @@ (e3 :> 2)
MCCost    == (e1 :> 1) @@ (e2 :> 2) @@ (e3 :> 3)
MCReserve == b1 :> 4
=============================================================================
