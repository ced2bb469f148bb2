---------------------------- MODULE MCStateFiles ----------------------------
(* Instances of StateFiles for TLC: each bot is the task of its own process. *)
EXTENDS StateFiles, TLC

CONSTANTS P1, P2, o0, o1, o2

OneTaskEach == (PaperBot :> P1) @@ (LiveBot :> P2)

\* No property tells one order from another.
OrdersAlike == Permutations(Order)

\* What the steps and the properties of the run read: not a snapshot after the last
\* incident, not what was accounted, which only LiveLossIsDetected is about, and not what
\* a temporary file holds, which follows from the job (PendingIsCurrent is proved).
Keys(book) == IF book = None THEN None ELSE book.resv
Copied(f)  == IF f = "live" THEN Keys(snap[f]) ELSE snap[f]
StillRead ==
    <<lockVars, disk["paper"], Keys(disk["live"]), disk["orders"], disk["marker"], torn, legacy,
      IF incidents < MaxIncidents THEN [f \in DOMAIN snap |-> Copied(f)] ELSE [f \in {} |-> None],
      todo, [t \in Bot |-> Len(pend[t])], on, mem, incidents, saved.trades, saved.orders>>
=============================================================================
