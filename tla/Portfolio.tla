----------------------------- MODULE Portfolio -----------------------------
(****************************************************************************)
(* The managed-money book of class Portfolio, as far as LIVE orders change  *)
(* it: cash, position, the pool of reserved quote with the reservation of   *)
(* each order, the executions applied and the orders attested.  Portfolio   *)
(* is immutable in the code: each method here is an operator from a book to *)
(* a book, next to the condition under which the method does not throw.     *)
(*                                                                          *)
(* One market: a BUY turns quote into base, a SELL base into quote.  What   *)
(* an execution is worth (quantity * price, with its quote fee) is given;   *)
(* cost basis, P&L, provenance of the position and peak equity are not      *)
(* modelled.                                                                *)
(* Definitions whose name starts with Wrong are deliberate mistakes that    *)
(* nothing uses; each shows that some property would notice it.             *)
(****************************************************************************)
EXTENDS Integers, FiniteSets, Functions

CONSTANTS
    Order, Buys,   \* the orders, and the BUY orders among them
    Exec,          \* the executions that may happen
    OrderOf,       \* the order of each execution
    Qty,           \* base quantity of each execution
    Cost,          \* quote paid (BUY) or received (SELL) by it, fee included
    Reserve        \* worst-case cost of each BUY order, fixed when it is placed

ASSUME PortfolioAssumption ==
    /\ IsFiniteSet(Order) /\ Buys \subseteq Order
    /\ IsFiniteSet(Exec)
    /\ OrderOf \in [Exec -> Order]
    /\ Qty \in [Exec -> Nat \ {0}]
    /\ Cost \in [Exec -> Nat \ {0}]
    /\ Reserve \in [Buys -> Nat \ {0}]

Book ==
    [cash : Int, pos : Int, reserved : Int,
     resv : [Order -> [st : {"NONE", "ACTIVE", "RELEASED"}, left : Int]],
     applied : SUBSET Exec, attested : SUBSET Order]

EmptyBook(cash, pos) ==
    [cash |-> cash, pos |-> pos, reserved |-> 0,
     resv |-> [o \in Order |-> [st |-> "NONE", left |-> 0]],
     applied |-> {}, attested |-> {}]

\* Totals over executions, and over all executions of an order.
TotalCost(S) == SumFunctionOnSet(Cost, S)
TotalQty(S)  == SumFunctionOnSet(Qty, S)
ExecsOf(o)   == {e \in Exec : OrderOf[e] = o}
IsBuy(e)     == OrderOf[e] \in Buys

Active(p, o) == p.resv[o].st = "ACTIVE"

\* What the reservations of S have left, in all.
Left(p, S) == SumFunctionOnSet([o \in Order |-> p.resv[o].left], S)

\* deployableQuote: never negative.
Deployable(p) == IF p.cash > p.reserved THEN p.cash - p.reserved ELSE 0

----------------------------------------------------------------------------
(* Reservations *)

\* One reservation per order in its lifetime, within the deployable quote.
CanReserve(p, o) == p.resv[o].st = "NONE" /\ Reserve[o] <= Deployable(p)

ReserveOrder(p, o) ==
    [p EXCEPT !.reserved = @ + Reserve[o],
              !.resv[o] = [st |-> "ACTIVE", left |-> Reserve[o]]]

\* Wrong: the pool of reserved quote keeps what the order has consumed.
WrongConsume(p, o, amount) == [p EXCEPT !.resv[o].left = @ - amount]

\* consumeOrderReservation followed by releaseQuote, which leaves the pool alone
\* when it holds less than the amount.
Consume(p, o, amount) ==
    [p EXCEPT !.resv[o].left = @ - amount,
              !.reserved = IF amount > @ THEN @ ELSE @ - amount]

\* Wrong: the whole reservation goes back to the pool, the consumed part too.
WrongReleaseOrders(p, S) ==
    LET ending == {o \in S : Active(p, o)} IN
    [p EXCEPT !.reserved = @ - SumFunctionOnSet(Reserve, ending),
              !.resv = [o \in Order |->
                           IF o \in ending THEN [st |-> "RELEASED", left |-> 0] ELSE @[o]]]

\* releaseOrderReservation for each order of S: what an active reservation has left
\* goes back to the pool, exactly once.
ReleaseOrders(p, S) ==
    LET ending == {o \in S : Active(p, o)} IN
    [p EXCEPT !.reserved = @ - Left(p, ending),
              !.resv = [o \in Order |->
                           IF o \in ending THEN [st |-> "RELEASED", left |-> 0] ELSE @[o]]]

----------------------------------------------------------------------------
(* Fills *)

\* applyFill: no position is ever sold short.
CanFill(p, o, qty) == o \in Buys \/ qty <= p.pos

Fill(p, o, qty, cost) ==
    IF o \in Buys THEN [p EXCEPT !.cash = @ - cost, !.pos = @ + qty]
                  ELSE [p EXCEPT !.cash = @ + cost, !.pos = @ - qty]

\* Wrong: an execution that was applied before is applied again.
WrongCanApplyLiveFill(p, e) ==
    LET o == OrderOf[e] IN
    /\ CanFill(p, o, Qty[e])
    /\ o \in Buys => Cost[e] <= (IF Active(p, o) THEN p.resv[o].left ELSE Deployable(p))

\* applyLiveFill and the check its two callers make before it: an execution is
\* applied once; a BUY stays within its active reservation, else within the
\* deployable quote.
CanApplyLiveFill(p, e) ==
    LET o == OrderOf[e] IN
    /\ e \notin p.applied
    /\ CanFill(p, o, Qty[e])
    /\ o \in Buys => Cost[e] <= (IF Active(p, o) THEN p.resv[o].left ELSE Deployable(p))

\* The fill, the consumption and the mark "applied" land in one book.
ApplyLiveFill(p, e) ==
    LET o == OrderOf[e]
        q == [Fill(p, o, Qty[e], Cost[e]) EXCEPT !.applied = @ \cup {e}]
    IN  IF o \in Buys /\ Active(p, o) THEN Consume(q, o, Cost[e]) ELSE q

\* settleLiveOrderAttested, for an order not attested before: refused when nothing
\* was filled, an execution of it is accounted, or a BUY is not covered by its reservation.
CanSettle(p, o) ==
    /\ TotalQty(ExecsOf(o)) > 0
    /\ \A e \in p.applied : OrderOf[e] # o
    /\ CanFill(p, o, TotalQty(ExecsOf(o)))
    /\ o \in Buys => Active(p, o) /\ TotalCost(ExecsOf(o)) <= p.resv[o].left

SettleAttested(p, o) ==
    LET cost == TotalCost(ExecsOf(o))
        q == [Fill(p, o, TotalQty(ExecsOf(o)), cost) EXCEPT !.attested = @ \cup {o}]
    IN  IF o \in Buys THEN ReleaseOrders(Consume(q, o, cost), {o}) ELSE q
=============================================================================
