-------------------------- MODULE MCLiveAccounting --------------------------
(* Small instances of LiveAccounting: a BUY executed in up to two parts, a   *)
(* SELL executed in one, and more cash and position than either needs alone. *)
EXTENDS LiveAccounting, TLC

CONSTANTS b1, s1, e1, e2, e3

ActorSymmetry == Permutations(Actor)

\* The BUY executes in two parts.
MCOrderOf == (e1 :> b1) @@ (e2 :> b1) @@ (e3 :> s1)
MCQty     == (e1 :> 1) @@ (e2 :> 2) @@ (e3 :> 2)
MCCost    == (e1 :> 3) @@ (e2 :> 5) @@ (e3 :> 7)

\* The BUY executes at once.
WholeOrderOf == (e1 :> b1) @@ (e3 :> s1)
WholeQty     == (e1 :> 1) @@ (e3 :> 2)
WholeCost    == (e1 :> 3) @@ (e3 :> 7)

MCReserve == b1 :> 9
=============================================================================
