------------------------ MODULE LiveAccountingProofs ------------------------
(****************************************************************************)
(* The accounting of LIVE executions, for any number of orders, executions  *)
(* and actors and any amounts.                                              *)
(*                                                                          *)
(* Marks: an attested order is FILLED in the ledger, so the monitor does    *)
(* not adopt it and commitProven refuses it; the two paths meet in the book *)
(* only under the lock, where each works on a copy that holds all the       *)
(* stored book holds.  This needs the ledger to be saved whenever an        *)
(* attestation is, and so does what rests on it: no execution is accounted  *)
(* twice or forgotten, and the balances follow from what was accounted.     *)
(*                                                                          *)
(* Amounts: every method of the book keeps the pool of reserved quote equal *)
(* to what the active reservations have left, and within the cash; it does  *)
(* so in any order of calls, hence for every fault and interleaving.        *)
(*                                                                          *)
(* The hand-over of funds (ManagedFunds) changes the book with the same     *)
(* methods: every saved book loads again, and with the bot quiet the book   *)
(* never claims more than the account holds.                                *)
(****************************************************************************)
EXTENDS LiveAccounting, ManagedFunds, Sums

\* A record with the fields of a book.
IsBook(p) ==
    p = [cash |-> p.cash, pos |-> p.pos, reserved |-> p.reserved, resv |-> p.resv,
         applied |-> p.applied, attested |-> p.attested]

----------------------------------------------------------------------------
(* What the methods do to each field of the book *)

LEMMA FillFields ==
    ASSUME NEW p, IsBook(p), NEW o, NEW qty, NEW cost
    PROVE  LET f == Fill(p, o, qty, cost) IN
           /\ IsBook(f)
           /\ f.cash = IF o \in Buys THEN p.cash - cost ELSE p.cash + cost
           /\ f.pos = IF o \in Buys THEN p.pos + qty ELSE p.pos - qty
           /\ f.reserved = p.reserved /\ f.resv = p.resv
           /\ f.applied = p.applied /\ f.attested = p.attested
<1>1. CASE o \in Buys
  <2> DEFINE f == [p EXCEPT !.cash = p.cash - cost, !.pos = p.pos + qty]
  <2>1. Fill(p, o, qty, cost) = f
    BY <1>1, Zenon DEF Fill
  <2> QED
    BY <1>1, <2>1 DEF IsBook
<1>2. CASE o \notin Buys
  <2> DEFINE f == [p EXCEPT !.cash = p.cash + cost, !.pos = p.pos - qty]
  <2>1. Fill(p, o, qty, cost) = f
    BY <1>2, Zenon DEF Fill
  <2> QED
    BY <1>2, <2>1 DEF IsBook
<1> QED
  BY <1>1, <1>2

\* A new pool and new reservations.
WithPool(p, x, r) == [p EXCEPT !.reserved = x, !.resv = r]

LEMMA PoolFields ==
    ASSUME NEW p, IsBook(p), NEW x, NEW r
    PROVE  LET w == WithPool(p, x, r) IN
           /\ IsBook(w)
           /\ w.cash = p.cash /\ w.pos = p.pos
           /\ w.reserved = x /\ w.resv = r
           /\ w.applied = p.applied /\ w.attested = p.attested
<1> DEFINE s == [p EXCEPT !.reserved = x]
<1>1. /\ IsBook(s) /\ s.cash = p.cash /\ s.pos = p.pos /\ s.reserved = x
      /\ s.applied = p.applied /\ s.attested = p.attested
  BY DEF IsBook
<1>2. WithPool(p, x, r) = [s EXCEPT !.resv = r]
  BY Zenon DEF WithPool
<1> HIDE DEF s
<1> QED
  BY <1>1, <1>2 DEF IsBook

\* A reservation that has x left.
WithLeft(r, o, x) == [r EXCEPT ![o].left = x]

LEMMA ConsumeFields ==
    ASSUME NEW p, IsBook(p), NEW o, NEW amount
    PROVE  LET c == Consume(p, o, amount) IN
           /\ IsBook(c)
           /\ c.cash = p.cash /\ c.pos = p.pos
           /\ c.reserved = IF amount > p.reserved THEN p.reserved ELSE p.reserved - amount
           /\ c.resv = WithLeft(p.resv, o, p.resv[o].left - amount)
           /\ c.applied = p.applied /\ c.attested = p.attested
<1> DEFINE x == IF amount > p.reserved THEN p.reserved ELSE p.reserved - amount
           r == WithLeft(p.resv, o, p.resv[o].left - amount)
<1>1. Consume(p, o, amount) = WithPool(p, x, r)
  BY Zenon DEF WithPool, Consume, WithLeft
<1> HIDE DEF x, r
<1>2. Consume(p, o, amount).reserved = x /\ Consume(p, o, amount).resv = r
  BY <1>1, PoolFields
<1> QED
  BY <1>1, <1>2, PoolFields DEF x, r

\* The reservations of S ended.
Ended(p, S) == {o \in S : Active(p, o)}
Ending(p, S) ==
    [o \in Order |-> IF o \in Ended(p, S) THEN [st |-> "RELEASED", left |-> 0]
                                          ELSE p.resv[o]]

LEMMA ReleaseFields ==
    ASSUME NEW p, IsBook(p), NEW S
    PROVE  LET r == ReleaseOrders(p, S) IN
           /\ IsBook(r)
           /\ r.cash = p.cash /\ r.pos = p.pos
           /\ r.reserved = p.reserved - Left(p, Ended(p, S))
           /\ r.resv = Ending(p, S)
           /\ r.applied = p.applied /\ r.attested = p.attested
<1> DEFINE x == p.reserved - Left(p, Ended(p, S))
<1>1. ReleaseOrders(p, S) = WithPool(p, x, Ending(p, S))
  BY Zenon DEF WithPool, ReleaseOrders, Ended, Ending
<1> HIDE DEF x
<1>2. ReleaseOrders(p, S).reserved = x
  BY <1>1, PoolFields
<1> QED
  BY <1>1, <1>2, PoolFields DEF x

\* A new reservation of x.
WithNew(r, o, x) == [r EXCEPT ![o] = [st |-> "ACTIVE", left |-> x]]

LEMMA ReserveFields ==
    ASSUME NEW p, IsBook(p), NEW o
    PROVE  LET r == ReserveOrder(p, o) IN
           /\ IsBook(r)
           /\ r.cash = p.cash /\ r.pos = p.pos
           /\ r.reserved = p.reserved + Reserve[o]
           /\ r.resv = WithNew(p.resv, o, Reserve[o])
           /\ r.applied = p.applied /\ r.attested = p.attested
<1> DEFINE x == p.reserved + Reserve[o]
           r == WithNew(p.resv, o, Reserve[o])
<1>1. ReserveOrder(p, o) = WithPool(p, x, r)
  BY Zenon DEF WithPool, ReserveOrder, WithNew
<1> HIDE DEF x, r
<1>2. ReserveOrder(p, o).reserved = x /\ ReserveOrder(p, o).resv = r
  BY <1>1, PoolFields
<1> QED
  BY <1>1, <1>2, PoolFields DEF x, r

\* applyLiveFill: the fill, the consumption of an active reservation, the mark.
LEMMA ApplyFields ==
    ASSUME NEW p, IsBook(p), NEW e
    PROVE  LET o == OrderOf[e]
               a == ApplyLiveFill(p, e)
           IN
           /\ IsBook(a)
           /\ a.cash = IF o \in Buys THEN p.cash - Cost[e] ELSE p.cash + Cost[e]
           /\ a.pos = IF o \in Buys THEN p.pos + Qty[e] ELSE p.pos - Qty[e]
           /\ IF o \in Buys /\ Active(p, o)
              THEN /\ a.reserved = IF Cost[e] > p.reserved THEN p.reserved
                                                           ELSE p.reserved - Cost[e]
                   /\ a.resv = WithLeft(p.resv, o, p.resv[o].left - Cost[e])
              ELSE a.reserved = p.reserved /\ a.resv = p.resv
           /\ a.applied = p.applied \cup {e} /\ a.attested = p.attested
<1> DEFINE o == OrderOf[e]
           f == Fill(p, o, Qty[e], Cost[e])
           q == [f EXCEPT !.applied = @ \cup {e}]
           c == Consume(q, o, Cost[e])
<1>1. /\ IsBook(f)
      /\ f.cash = IF o \in Buys THEN p.cash - Cost[e] ELSE p.cash + Cost[e]
      /\ f.pos = IF o \in Buys THEN p.pos + Qty[e] ELSE p.pos - Qty[e]
      /\ f.reserved = p.reserved /\ f.resv = p.resv
      /\ f.applied = p.applied /\ f.attested = p.attested
  BY FillFields
<1>2. ApplyLiveFill(p, e) = IF o \in Buys /\ Active(p, o) THEN c ELSE q
  <2>1. q.resv = p.resv
    BY <1>1 DEF IsBook
  <2>2. Active(q, o) <=> Active(p, o)
    BY <2>1 DEF Active
  <2> QED
    BY <2>2 DEF ApplyLiveFill
<1> HIDE DEF f
<1>3. /\ IsBook(q) /\ q.cash = f.cash /\ q.pos = f.pos
      /\ q.reserved = f.reserved /\ q.resv = f.resv
      /\ q.applied = p.applied \cup {e} /\ q.attested = p.attested
  BY <1>1 DEF IsBook
<1> HIDE DEF q
<1>4. /\ IsBook(c) /\ c.cash = q.cash /\ c.pos = q.pos
      /\ c.reserved = IF Cost[e] > q.reserved THEN q.reserved ELSE q.reserved - Cost[e]
      /\ c.resv = WithLeft(q.resv, o, q.resv[o].left - Cost[e])
      /\ c.applied = q.applied /\ c.attested = q.attested
  BY <1>3, ConsumeFields
<1> HIDE DEF c, o
<1> SUFFICES /\ IsBook(ApplyLiveFill(p, e))
             /\ ApplyLiveFill(p, e).cash = q.cash /\ ApplyLiveFill(p, e).pos = q.pos
             /\ IF o \in Buys /\ Active(p, o)
                THEN ApplyLiveFill(p, e) = c
                ELSE ApplyLiveFill(p, e).reserved = p.reserved /\ ApplyLiveFill(p, e).resv = p.resv
             /\ ApplyLiveFill(p, e).applied = p.applied \cup {e}
             /\ ApplyLiveFill(p, e).attested = p.attested
  BY <1>1, <1>3, <1>4 DEF o
<1> QED
  BY <1>1, <1>2, <1>3, <1>4

\* settleLiveOrderAttested: the whole order is filled, its reservation ends.
LEMMA SettleFields ==
    ASSUME NEW p, IsBook(p), NEW o
    PROVE  LET cost == TotalCost(ExecsOf(o))
               s == SettleAttested(p, o)
           IN
           /\ IsBook(s)
           /\ s.cash = IF o \in Buys THEN p.cash - cost ELSE p.cash + cost
           /\ s.pos = IF o \in Buys THEN p.pos + TotalQty(ExecsOf(o))
                                    ELSE p.pos - TotalQty(ExecsOf(o))
           /\ IF o \in Buys
              THEN \E c : /\ IsBook(c) /\ c.cash = p.cash - cost
                          /\ c.pos = p.pos + TotalQty(ExecsOf(o))
                          /\ c.reserved = IF cost > p.reserved THEN p.reserved
                                                               ELSE p.reserved - cost
                          /\ c.resv = WithLeft(p.resv, o, p.resv[o].left - cost)
                          /\ c.applied = p.applied /\ c.attested = p.attested \cup {o}
                          /\ s = ReleaseOrders(c, {o})
              ELSE s.reserved = p.reserved /\ s.resv = p.resv
           /\ s.applied = p.applied /\ s.attested = p.attested \cup {o}
<1> DEFINE cost == TotalCost(ExecsOf(o))
           qty == TotalQty(ExecsOf(o))
           f == Fill(p, o, qty, cost)
           q == [f EXCEPT !.attested = @ \cup {o}]
           c == Consume(q, o, cost)
           r == ReleaseOrders(c, {o})
<1>0. SettleAttested(p, o) = IF o \in Buys THEN r ELSE q
  BY DEF SettleAttested
<1> HIDE DEF cost, qty
<1>1. /\ IsBook(f)
      /\ f.cash = IF o \in Buys THEN p.cash - cost ELSE p.cash + cost
      /\ f.pos = IF o \in Buys THEN p.pos + qty ELSE p.pos - qty
      /\ f.reserved = p.reserved /\ f.resv = p.resv
      /\ f.applied = p.applied /\ f.attested = p.attested
  BY FillFields
<1> HIDE DEF f
<1>2. /\ IsBook(q) /\ q.cash = f.cash /\ q.pos = f.pos
      /\ q.reserved = f.reserved /\ q.resv = f.resv
      /\ q.applied = p.applied /\ q.attested = p.attested \cup {o}
  BY <1>1 DEF IsBook
<1> HIDE DEF q
<1>3. /\ IsBook(c) /\ c.cash = q.cash /\ c.pos = q.pos
      /\ c.reserved = IF cost > q.reserved THEN q.reserved ELSE q.reserved - cost
      /\ c.resv = WithLeft(q.resv, o, q.resv[o].left - cost)
      /\ c.applied = q.applied /\ c.attested = q.attested
  BY <1>2, ConsumeFields
<1> HIDE DEF c
<1>4. /\ IsBook(r) /\ r.cash = c.cash /\ r.pos = c.pos
      /\ r.reserved = c.reserved - Left(c, Ended(c, {o}))
      /\ r.resv = Ending(c, {o})
      /\ r.applied = c.applied /\ r.attested = c.attested
  BY <1>3, ReleaseFields
<1> HIDE DEF r
<1>5. CASE o \in Buys
  BY <1>0, <1>1, <1>2, <1>3, <1>4, <1>5 DEF cost, qty, r
<1>6. CASE o \notin Buys
  BY <1>0, <1>1, <1>2, <1>6 DEF cost, qty
<1> QED
  BY <1>5, <1>6

\* What they do to the two marks.
LEMMA ApplyMarks ==
    ASSUME NEW p, IsBook(p), NEW e
    PROVE  /\ IsBook(ApplyLiveFill(p, e))
           /\ ApplyLiveFill(p, e).applied = p.applied \cup {e}
           /\ ApplyLiveFill(p, e).attested = p.attested
  BY ApplyFields

LEMMA ReserveMarks ==
    ASSUME NEW p, IsBook(p), NEW o
    PROVE  /\ IsBook(ReserveOrder(p, o))
           /\ ReserveOrder(p, o).applied = p.applied
           /\ ReserveOrder(p, o).attested = p.attested
  BY ReserveFields

LEMMA SettleMarks ==
    ASSUME NEW p, IsBook(p), NEW o
    PROVE  /\ IsBook(SettleAttested(p, o))
           /\ SettleAttested(p, o).applied = p.applied
           /\ SettleAttested(p, o).attested = p.attested \cup {o}
  BY SettleFields

----------------------------------------------------------------------------
(* What the methods do to the amounts *)

Resv == [Order -> [st : {"NONE", "ACTIVE", "RELEASED"}, left : Int]]

LEMMA BookType ==
    ASSUME NEW p
    PROVE  p \in Book <=> /\ IsBook(p)
                          /\ p.cash \in Int /\ p.pos \in Int /\ p.reserved \in Int
                          /\ p.resv \in Resv
                          /\ p.applied \subseteq Exec /\ p.attested \subseteq Order
  BY DEF Book, IsBook, Resv

Actives(p) == {o \in Order : Active(p, o)}

\* The pool is what the active reservations have left, within the cash.
AddsUp(p) ==
    /\ p \in Book
    /\ \A o \in Order : p.resv[o].left >= 0 /\ (~Active(p, o) => p.resv[o].left = 0)
    /\ p.reserved = Left(p, Actives(p))
    /\ p.reserved <= p.cash

\* Sums over reservations are sums of integers over finite sets.
LEMMA LeftFacts ==
    ASSUME NEW p, p.resv \in Resv, NEW S \in SUBSET Order
    PROVE  /\ IsFiniteSet(S)
           /\ \A o \in S : [x \in Order |-> p.resv[x].left][o] = p.resv[o].left
           /\ \A o \in Order : p.resv[o].left \in Int
           /\ Left(p, S) \in Int
<1>1. IsFiniteSet(S)
  BY PortfolioAssumption, FS_Subset
<1>2. \A o \in Order : p.resv[o].left \in Int
  BY DEF Resv
<1> DEFINE f == [x \in Order |-> p.resv[x].left]
<1>3. \A o \in S : f[o] \in Int
  BY <1>2
<1>4. SumFunctionOnSet(f, S) \in Int
  <2> HIDE DEF f
  <2> QED
    BY <1>1, <1>3, SumInt
<1> QED
  BY <1>1, <1>2, <1>4 DEF Left

\* An active reservation is a part of the pool.
LEMMA LeftWithinPool ==
    ASSUME NEW p, AddsUp(p)
    PROVE  /\ p.reserved \in Nat
           /\ \A o \in Actives(p) : p.resv[o].left <= p.reserved
<1> DEFINE f == [x \in Order |-> p.resv[x].left]
           A == Actives(p)
<1>1. p.resv \in Resv /\ A \subseteq Order
  BY BookType DEF AddsUp, Actives
<1>2. IsFiniteSet(A) /\ p.reserved = SumFunctionOnSet(f, A)
  BY <1>1, LeftFacts DEF AddsUp, Left
<1>3. \A o \in A : f[o] \in Nat
  BY <1>1, LeftFacts DEF AddsUp
<1>4. \A S \in SUBSET A : /\ SumFunctionOnSet(f, S) \in Nat
                          /\ SumFunctionOnSet(f, S) <= SumFunctionOnSet(f, A)
  <2> HIDE DEF f, A
  <2> QED
    BY <1>2, <1>3, SumLe
<1>5. ASSUME NEW o \in A PROVE p.resv[o].left <= p.reserved
  <2>1. f[o] = p.resv[o].left
    BY <1>1
  <2>2. SumFunctionOnSet(f, {o}) = f[o]
    <3>1. f[o] \in Int
      BY <1>3
    <3> HIDE DEF f
    <3> QED
      BY <3>1, SumOne
  <2> QED
    BY <1>2, <1>4, <2>1, <2>2
<1> QED
  BY <1>2, <1>4, <1>5

LEMMA EmptyAddsUp ==
    ASSUME NEW c \in Nat, NEW q \in Int PROVE AddsUp(EmptyBook(c, q))
<1> DEFINE p == EmptyBook(c, q)
<1>1. p \in Book
  BY DEF EmptyBook, Book
<1>2. Actives(p) = {}
  BY DEF EmptyBook, Actives, Active
<1>3. Left(p, {}) = 0
  BY SumEmpty DEF Left
<1> QED
  BY <1>1, <1>2, <1>3 DEF AddsUp, EmptyBook, Active

\* A new reservation within the deployable quote.
LEMMA ReserveAddsUp ==
    ASSUME NEW p, AddsUp(p), NEW o \in Buys, CanReserve(p, o)
    PROVE  AddsUp(ReserveOrder(p, o))
<1> DEFINE r == ReserveOrder(p, o)
           A == Actives(p)
<1>0. o \in Order /\ Reserve[o] \in Nat \ {0}
  BY PortfolioAssumption
<1>1. IsBook(p) /\ p.resv \in Resv /\ p.cash \in Int /\ p.reserved \in Int
  BY BookType DEF AddsUp
<1>2. /\ IsBook(r) /\ r.cash = p.cash /\ r.pos = p.pos
      /\ r.reserved = p.reserved + Reserve[o]
      /\ r.resv = WithNew(p.resv, o, Reserve[o])
      /\ r.applied = p.applied /\ r.attested = p.attested
  <2>1. IsBook(p)
    BY <1>1
  <2> QED
    BY <2>1, ReserveFields
<1> HIDE DEF r
<1>3. r \in Book
  <2>1. r.resv \in Resv
    BY <1>0, <1>1, <1>2 DEF Resv, WithNew
  <2> QED
    BY <1>0, <1>2, <2>1, BookType DEF AddsUp
<1>4. Actives(r) = A \cup {o} /\ o \notin A
  BY <1>0, <1>1, <1>2 DEF Actives, Active, Resv, CanReserve, WithNew
<1>5. r.reserved = Left(r, Actives(r))
  <2> DEFINE f == [x \in Order |-> p.resv[x].left]
             g == [x \in Order |-> r.resv[x].left]
  <2>1. g[o] = Reserve[o] /\ \A x \in A : g[x] = f[x] /\ g[x] \in Int
    BY <1>0, <1>1, <1>2, <1>4 DEF Resv, Actives, WithNew
  <2>2. IsFiniteSet(A)
    BY <1>1, LeftFacts DEF Actives
  <2>3. /\ SumFunctionOnSet(g, A \cup {o}) = g[o] + SumFunctionOnSet(g, A)
        /\ SumFunctionOnSet(g, A) = SumFunctionOnSet(f, A)
    <3> HIDE DEF f, g, A
    <3> QED
      BY <1>0, <1>4, <2>1, <2>2, SumAdd, SumSame
  <2>4. SumFunctionOnSet(f, A) = p.reserved
    BY DEF AddsUp, Left
  <2> QED
    BY <1>0, <1>1, <1>2, <1>4, <2>1, <2>3, <2>4 DEF Left
<1>6. r.reserved <= r.cash
  BY <1>0, <1>1, <1>2 DEF CanReserve, Deployable
<1>7. \A x \in Order : r.resv[x].left >= 0 /\ (~Active(r, x) => r.resv[x].left = 0)
  BY <1>0, <1>1, <1>2 DEF AddsUp, Active, Resv, WithNew
<1> QED
  BY <1>3, <1>5, <1>6, <1>7 DEF AddsUp, r

\* Paying from an active reservation: cash, pool and reservation shrink alike.
LEMMA ConsumeAddsUp ==
    ASSUME NEW p, AddsUp(p), NEW o \in Order, Active(p, o),
           NEW amount \in Nat, amount <= p.resv[o].left,
           NEW c, IsBook(c), c.cash = p.cash - amount, c.pos \in Int,
           c.reserved = IF amount > p.reserved THEN p.reserved ELSE p.reserved - amount,
           c.resv = WithLeft(p.resv, o, p.resv[o].left - amount),
           c.applied \subseteq Exec, c.attested \subseteq Order
    PROVE  AddsUp(c)
<1> DEFINE A == Actives(p)
<1>1. p.resv \in Resv /\ p.cash \in Int /\ p.reserved \in Nat /\ p.resv[o].left \in Int
  BY BookType, LeftWithinPool DEF AddsUp, Resv
<1>2. o \in A
  BY DEF Actives
<1>3. c.reserved = p.reserved - amount
  BY <1>1, <1>2, LeftWithinPool
<1>4. /\ c.resv \in Resv /\ c.resv[o].left = p.resv[o].left - amount
      /\ \A x \in Order : c.resv[x].st = p.resv[x].st
      /\ \A x \in Order \ {o} : c.resv[x].left = p.resv[x].left
  BY <1>1 DEF WithLeft, Resv
<1>5. c \in Book
  BY <1>1, <1>3, <1>4, BookType
<1>6. Actives(c) = A
  BY <1>4 DEF Actives, Active
<1>7. c.reserved = Left(c, Actives(c))
  <2> DEFINE f == [x \in Order |-> p.resv[x].left]
             g == [x \in Order |-> c.resv[x].left]
  <2>1. /\ \A x \in A : f[x] \in Int
        /\ g[o] \in Int /\ f[o] = p.resv[o].left /\ g[o] = p.resv[o].left - amount
        /\ \A x \in A \ {o} : g[x] = f[x]
    BY <1>1, <1>4 DEF Resv, Actives
  <2>2. IsFiniteSet(A)
    BY <1>1, LeftFacts DEF Actives
  <2>3. SumFunctionOnSet(g, A) = SumFunctionOnSet(f, A) - f[o] + g[o]
    <3> HIDE DEF f, g, A
    <3> QED
      BY <1>2, <2>1, <2>2, SumUpdate
  <2>4. SumFunctionOnSet(f, A) = p.reserved
    BY DEF AddsUp, Left
  <2>5. Left(c, Actives(c)) = SumFunctionOnSet(g, A)
    BY <1>6 DEF Left
  <2> HIDE DEF f, g, A
  <2> QED
    BY <1>1, <1>3, <2>1, <2>3, <2>4, <2>5
<1>8. c.reserved <= c.cash
  BY <1>1, <1>3 DEF AddsUp
<1>9. \A x \in Order : c.resv[x].left >= 0 /\ (~Active(c, x) => c.resv[x].left = 0)
  BY <1>1, <1>4 DEF AddsUp, Active, Resv
<1> QED
  BY <1>5, <1>7, <1>8, <1>9 DEF AddsUp

\* What the ending reservations have left goes back to the pool.
LEMMA ReleaseAddsUp ==
    ASSUME NEW p, AddsUp(p), NEW S \in SUBSET Order
    PROVE  AddsUp(ReleaseOrders(p, S))
<1> DEFINE r == ReleaseOrders(p, S)
           A == Actives(p)
           E == Ended(p, S)
<1>1. IsBook(p) /\ p.resv \in Resv /\ p.cash \in Int /\ p.reserved \in Int
  BY BookType DEF AddsUp
<1>2. /\ IsBook(r) /\ r.cash = p.cash /\ r.pos = p.pos
      /\ r.reserved = p.reserved - Left(p, E) /\ r.resv = Ending(p, S)
      /\ r.applied = p.applied /\ r.attested = p.attested
  BY <1>1, ReleaseFields
<1> HIDE DEF r
<1>3. E \subseteq A /\ A \subseteq Order
  BY DEF Ended, Actives
<1>4. /\ r.resv \in Resv
      /\ \A x \in E : r.resv[x].st = "RELEASED" /\ r.resv[x].left = 0
      /\ \A x \in Order \ E : r.resv[x] = p.resv[x]
  <2>1. E \subseteq Order
    BY <1>3
  <2> HIDE DEF E
  <2>2. Ending(p, S) = [x \in Order |-> IF x \in E THEN [st |-> "RELEASED", left |-> 0]
                                                   ELSE p.resv[x]]
    BY DEF Ending, E
  <2> QED
    BY <1>1, <1>2, <2>1, <2>2 DEF Resv
<1>5. Left(p, E) \in Int
  BY <1>1, <1>3, LeftFacts
<1>6. r \in Book
  BY <1>1, <1>2, <1>4, <1>5, BookType DEF AddsUp
<1>7. Actives(r) = A \ E
  BY <1>3, <1>4 DEF Actives, Active
<1>8. /\ r.reserved = Left(r, Actives(r))
      /\ Left(p, E) >= 0
  <2> DEFINE f == [x \in Order |-> p.resv[x].left]
             g == [x \in Order |-> r.resv[x].left]
  <2>1. /\ \A x \in A : f[x] \in Nat
        /\ \A x \in A \ E : g[x] = f[x]
    <3>1. \A x \in A : f[x] \in Int /\ f[x] >= 0
      BY <1>1, <1>3 DEF Resv, AddsUp
    <3>2. \A x \in A \ E : g[x] = f[x]
      BY <1>3, <1>4
    <3> HIDE DEF f, g, A, E
    <3> QED
      BY <3>1, <3>2
  <2>2. IsFiniteSet(A) /\ IsFiniteSet(A \ E) /\ IsFiniteSet(E)
    BY <1>1, <1>3, LeftFacts DEF Actives
  <2>3. /\ SumFunctionOnSet(f, A \ E) = SumFunctionOnSet(f, A) - SumFunctionOnSet(f, E)
        /\ SumFunctionOnSet(g, A \ E) = SumFunctionOnSet(f, A \ E)
        /\ SumFunctionOnSet(f, E) \in Nat
    <3>1. \A x \in A : f[x] \in Int
      BY <2>1
    <3> HIDE DEF f, g, A, E
    <3> QED
      BY <1>3, <2>1, <2>2, <3>1, SumMinus, SumSame, SumLe
  <2>4. SumFunctionOnSet(f, A) = p.reserved
    BY DEF AddsUp, Left
  <2> QED
    BY <1>2, <1>7, <2>3, <2>4 DEF Left
<1>9. r.reserved <= r.cash
  BY <1>1, <1>2, <1>5, <1>8 DEF AddsUp
<1>10. \A x \in Order : r.resv[x].left >= 0 /\ (~Active(r, x) => r.resv[x].left = 0)
  BY <1>3, <1>4 DEF AddsUp, Active
<1> QED
  BY <1>6, <1>8, <1>9, <1>10 DEF AddsUp, r

\* applyLiveFill: from the reservation while it is active, else from what is
\* deployable; a SELL only adds cash.
LEMMA ApplyAddsUp ==
    ASSUME NEW p, AddsUp(p), NEW e \in Exec, CanApplyLiveFill(p, e)
    PROVE  AddsUp(ApplyLiveFill(p, e))
<1> DEFINE o == OrderOf[e]
           a == ApplyLiveFill(p, e)
<1>0. o \in Order /\ Cost[e] \in Nat \ {0} /\ Qty[e] \in Nat \ {0}
  BY PortfolioAssumption
<1>1. /\ IsBook(p) /\ p.resv \in Resv /\ p.cash \in Int /\ p.pos \in Int
      /\ p.reserved \in Nat /\ p.applied \subseteq Exec /\ p.attested \subseteq Order
  BY BookType, LeftWithinPool DEF AddsUp
<1>2. /\ IsBook(a)
      /\ a.cash = IF o \in Buys THEN p.cash - Cost[e] ELSE p.cash + Cost[e]
      /\ a.pos = IF o \in Buys THEN p.pos + Qty[e] ELSE p.pos - Qty[e]
      /\ IF o \in Buys /\ Active(p, o)
         THEN /\ a.reserved = IF Cost[e] > p.reserved THEN p.reserved
                                                      ELSE p.reserved - Cost[e]
              /\ a.resv = WithLeft(p.resv, o, p.resv[o].left - Cost[e])
         ELSE a.reserved = p.reserved /\ a.resv = p.resv
      /\ a.applied = p.applied \cup {e} /\ a.attested = p.attested
  BY <1>1, ApplyFields
<1> HIDE DEF a
<1>3. a.applied \subseteq Exec /\ a.attested \subseteq Order /\ a.pos \in Int
  BY <1>0, <1>1, <1>2
<1>4. CASE o \in Buys /\ Active(p, o)
  <2>1. Cost[e] <= p.resv[o].left
    BY <1>4 DEF CanApplyLiveFill
  <2>2. AddsUp(a)
    BY <1>0, <1>2, <1>3, <1>4, <2>1, ConsumeAddsUp
  <2> QED
    BY <2>2 DEF a
<1>5. CASE ~(o \in Buys /\ Active(p, o))
  <2>1. a.cash \in Int /\ a.reserved <= a.cash
    <3>1. CASE o \in Buys
      <4>1. Cost[e] <= Deployable(p)
        BY <1>5, <3>1 DEF CanApplyLiveFill
      <4>2. p.reserved <= p.cash - Cost[e]
        BY <1>0, <1>1, <4>1 DEF Deployable
      <4> QED
        BY <1>0, <1>1, <1>2, <1>5, <3>1, <4>2
    <3>2. CASE o \notin Buys
      BY <1>0, <1>1, <1>2, <3>2 DEF AddsUp
    <3> QED
      BY <3>1, <3>2
  <2>2. a.resv = p.resv /\ a.reserved = p.reserved
    BY <1>2, <1>5
  <2>3. a \in Book
    BY <1>1, <1>2, <1>3, <2>1, <2>2, BookType
  <2>4. Actives(a) = Actives(p) /\ \A S : Left(a, S) = Left(p, S)
    BY <2>2 DEF Actives, Active, Left
  <2>5. AddsUp(a)
    BY <2>1, <2>2, <2>3, <2>4 DEF AddsUp, Active
  <2> QED
    BY <2>5 DEF a
<1> QED
  BY <1>4, <1>5

\* Totals of executions are sums of naturals.
LEMMA TotalsType ==
    ASSUME NEW S \in SUBSET Exec
    PROVE  TotalCost(S) \in Nat /\ TotalQty(S) \in Nat /\ IsFiniteSet(S)
<1>1. IsFiniteSet(S)
  BY PortfolioAssumption, FS_Subset
<1>2. (\A e \in S : Cost[e] \in Nat) /\ (\A e \in S : Qty[e] \in Nat)
  BY PortfolioAssumption
<1> QED
  BY <1>1, <1>2, SumLe DEF TotalCost, TotalQty

\* settleLiveOrderAttested: a BUY is paid from its reservation, which then ends.
LEMMA SettleAddsUp ==
    ASSUME NEW p, AddsUp(p), NEW o \in Order, CanSettle(p, o)
    PROVE  AddsUp(SettleAttested(p, o))
<1> DEFINE cost == TotalCost(ExecsOf(o))
           qty == TotalQty(ExecsOf(o))
           s == SettleAttested(p, o)
<1>0. cost \in Nat /\ qty \in Nat
  BY TotalsType DEF ExecsOf
<1>1. /\ IsBook(p) /\ p.resv \in Resv /\ p.cash \in Int /\ p.pos \in Int
      /\ p.reserved \in Nat /\ p.applied \subseteq Exec /\ p.attested \subseteq Order
  BY BookType, LeftWithinPool DEF AddsUp
<1>2. CASE o \in Buys
  <2>1. PICK c : /\ IsBook(c) /\ c.cash = p.cash - cost /\ c.pos = p.pos + qty
                 /\ c.reserved = IF cost > p.reserved THEN p.reserved
                                                      ELSE p.reserved - cost
                 /\ c.resv = WithLeft(p.resv, o, p.resv[o].left - cost)
                 /\ c.applied = p.applied /\ c.attested = p.attested \cup {o}
                 /\ s = ReleaseOrders(c, {o})
    BY <1>1, <1>2, SettleFields
  <2>2. Active(p, o) /\ cost <= p.resv[o].left
    BY <1>2 DEF CanSettle
  <2>3. c.pos \in Int /\ c.applied \subseteq Exec /\ c.attested \subseteq Order
    BY <1>0, <1>1, <2>1
  <2>4. AddsUp(c)
    <3> HIDE DEF cost, qty
    <3> QED
      BY <1>0, <2>1, <2>2, <2>3, ConsumeAddsUp
  <2> QED
    BY <2>1, <2>4, ReleaseAddsUp
<1>3. CASE o \notin Buys
  <2>1. /\ IsBook(s) /\ s.cash = p.cash + cost /\ s.pos = p.pos - qty
        /\ s.reserved = p.reserved /\ s.resv = p.resv
        /\ s.applied = p.applied /\ s.attested = p.attested \cup {o}
    BY <1>1, <1>3, SettleFields
  <2> HIDE DEF s, cost, qty
  <2>2. s \in Book /\ s.reserved <= s.cash
    <3>1. s.cash \in Int /\ s.pos \in Int /\ p.reserved <= p.cash + cost
      BY <1>0, <1>1, <2>1 DEF AddsUp
    <3> QED
      BY <1>1, <2>1, <3>1, BookType
  <2>3. Actives(s) = Actives(p) /\ \A S : Left(s, S) = Left(p, S)
    BY <2>1 DEF Actives, Active, Left
  <2>4. AddsUp(s)
    BY <2>1, <2>2, <2>3 DEF AddsUp, Active
  <2> QED
    BY <2>4 DEF s
<1> QED
  BY <1>2, <1>3

----------------------------------------------------------------------------
(* What the methods do to the balances the accounted executions explain *)

\* Cash and position follow from what the book says it accounted.
Explained(p) ==
    /\ p.cash = CashAfter(p.applied) + CashAfter(AttestedExecs(p)) - Cash0
    /\ p.pos = PosAfter(p.applied) + PosAfter(AttestedExecs(p)) - Pos0

\* Executions of one side that were not accounted move both balances by their
\* totals.
LEMMA BalancesAfter ==
    ASSUME NEW S \in SUBSET Exec, NEW N \in SUBSET Exec, S \cap N = {}
    PROVE  /\ CashAfter(S) \in Int /\ PosAfter(S) \in Int
           /\ (\A e \in N : IsBuy(e)) =>
                 /\ CashAfter(S \cup N) = CashAfter(S) - TotalCost(N)
                 /\ PosAfter(S \cup N) = PosAfter(S) + TotalQty(N)
           /\ (\A e \in N : ~IsBuy(e)) =>
                 /\ CashAfter(S \cup N) = CashAfter(S) + TotalCost(N)
                 /\ PosAfter(S \cup N) = PosAfter(S) - TotalQty(N)
<1>1. Bought(S) \subseteq Exec /\ Sold(S) \subseteq Exec
  BY DEF Bought, Sold
<1>2. /\ IsFiniteSet(N) /\ TotalCost(N) \in Nat /\ TotalQty(N) \in Nat
      /\ IsFiniteSet(Bought(S)) /\ TotalCost(Bought(S)) \in Nat /\ TotalQty(Bought(S)) \in Nat
      /\ IsFiniteSet(Sold(S)) /\ TotalCost(Sold(S)) \in Nat /\ TotalQty(Sold(S)) \in Nat
  BY <1>1, TotalsType
<1>3. ASSUME NEW T \in SUBSET Exec, IsFiniteSet(T), T \cap N = {}
      PROVE  /\ TotalCost(T \cup N) = TotalCost(T) + TotalCost(N)
             /\ TotalQty(T \cup N) = TotalQty(T) + TotalQty(N)
  <2>1. \A e \in T \cup N : Cost[e] \in Int /\ Qty[e] \in Int
    BY PortfolioAssumption
  <2> QED
    BY <1>2, <1>3, <2>1, SumUnion DEF TotalCost, TotalQty
<1>4. CashAfter(S) \in Int /\ PosAfter(S) \in Int
  BY <1>2, AccountingAssumption DEF CashAfter, PosAfter
<1>5. ASSUME \A e \in N : IsBuy(e)
      PROVE  /\ CashAfter(S \cup N) = CashAfter(S) - TotalCost(N)
             /\ PosAfter(S \cup N) = PosAfter(S) + TotalQty(N)
  <2>1. Bought(S \cup N) = Bought(S) \cup N /\ Sold(S \cup N) = Sold(S)
    BY <1>5 DEF Bought, Sold
  <2>2. Bought(S) \cap N = {}
    BY DEF Bought
  <2>3. /\ TotalCost(Bought(S) \cup N) = TotalCost(Bought(S)) + TotalCost(N)
        /\ TotalQty(Bought(S) \cup N) = TotalQty(Bought(S)) + TotalQty(N)
    BY <1>1, <1>2, <1>3, <2>2
  <2>4. /\ CashAfter(S \cup N) = Cash0 - (TotalCost(Bought(S)) + TotalCost(N)) + TotalCost(Sold(S))
        /\ PosAfter(S \cup N) = Pos0 + (TotalQty(Bought(S)) + TotalQty(N)) - TotalQty(Sold(S))
    BY <2>1, <2>3 DEF CashAfter, PosAfter
  <2>5. /\ CashAfter(S) = Cash0 - TotalCost(Bought(S)) + TotalCost(Sold(S))
        /\ PosAfter(S) = Pos0 + TotalQty(Bought(S)) - TotalQty(Sold(S))
    BY DEF CashAfter, PosAfter
  <2> QED
    BY <1>2, <2>4, <2>5, AccountingAssumption
<1>6. ASSUME \A e \in N : ~IsBuy(e)
      PROVE  /\ CashAfter(S \cup N) = CashAfter(S) + TotalCost(N)
             /\ PosAfter(S \cup N) = PosAfter(S) - TotalQty(N)
  <2>1. Sold(S \cup N) = Sold(S) \cup N /\ Bought(S \cup N) = Bought(S)
    BY <1>6 DEF Bought, Sold
  <2>2. Sold(S) \cap N = {}
    BY DEF Sold
  <2>3. /\ TotalCost(Sold(S) \cup N) = TotalCost(Sold(S)) + TotalCost(N)
        /\ TotalQty(Sold(S) \cup N) = TotalQty(Sold(S)) + TotalQty(N)
    BY <1>1, <1>2, <1>3, <2>2
  <2>4. /\ CashAfter(S \cup N) = Cash0 - TotalCost(Bought(S)) + (TotalCost(Sold(S)) + TotalCost(N))
        /\ PosAfter(S \cup N) = Pos0 + TotalQty(Bought(S)) - (TotalQty(Sold(S)) + TotalQty(N))
    BY <2>1, <2>3 DEF CashAfter, PosAfter
  <2>5. /\ CashAfter(S) = Cash0 - TotalCost(Bought(S)) + TotalCost(Sold(S))
        /\ PosAfter(S) = Pos0 + TotalQty(Bought(S)) - TotalQty(Sold(S))
    BY DEF CashAfter, PosAfter
  <2> QED
    BY <1>2, <2>4, <2>5, AccountingAssumption
<1> QED
  BY <1>4, <1>5, <1>6

LEMMA EmptyExplained == Explained(EmptyBook(Cash0, Pos0))
<1> DEFINE p == EmptyBook(Cash0, Pos0)
<1>1. p.applied = {} /\ AttestedExecs(p) = {} /\ p.cash = Cash0 /\ p.pos = Pos0
  BY DEF AttestedExecs, EmptyBook
<1>2. Bought({}) = {} /\ Sold({}) = {}
  BY DEF Bought, Sold
<1>3. TotalCost({}) = 0 /\ TotalQty({}) = 0
  BY SumEmpty DEF TotalCost, TotalQty
<1> QED
  BY <1>1, <1>2, <1>3, AccountingAssumption DEF Explained, CashAfter, PosAfter

\* A book with the same balances and marks.
LEMMA SameExplained ==
    ASSUME NEW p, Explained(p), NEW q, q.cash = p.cash, q.pos = p.pos,
           q.applied = p.applied, q.attested = p.attested
    PROVE  Explained(q)
  BY DEF Explained, AttestedExecs

\* What the attested orders of a book account is made of executions.
LEMMA AttestedType ==
    ASSUME NEW p \in Book
    PROVE  /\ p.applied \in SUBSET Exec /\ AttestedExecs(p) \in SUBSET Exec
           /\ CashAfter(p.applied) \in Int /\ PosAfter(p.applied) \in Int
           /\ CashAfter(AttestedExecs(p)) \in Int /\ PosAfter(AttestedExecs(p)) \in Int
           /\ Cash0 \in Int /\ Pos0 \in Int
<1>1. p.applied \in SUBSET Exec /\ AttestedExecs(p) \in SUBSET Exec
  BY BookType DEF AttestedExecs
<1>2. ASSUME NEW S \in SUBSET Exec PROVE CashAfter(S) \in Int /\ PosAfter(S) \in Int
  <2>1. {} \in SUBSET Exec /\ S \cap {} = {}
    OBVIOUS
  <2> QED
    BY <2>1, BalancesAfter
<1> QED
  BY <1>1, <1>2, AccountingAssumption

\* applyLiveFill of an execution that was not applied.
LEMMA ApplyExplained ==
    ASSUME NEW p \in Book, Explained(p), NEW e \in Exec, e \notin p.applied
    PROVE  Explained(ApplyLiveFill(p, e))
<1> DEFINE a == ApplyLiveFill(p, e)
<1>0. IsBook(p)
  BY BookType
<1>1. /\ a.cash = IF IsBuy(e) THEN p.cash - Cost[e] ELSE p.cash + Cost[e]
      /\ a.pos = IF IsBuy(e) THEN p.pos + Qty[e] ELSE p.pos - Qty[e]
      /\ a.applied = p.applied \cup {e} /\ a.attested = p.attested
  BY <1>0, ApplyFields DEF IsBuy
<1> HIDE DEF a
<1>2. AttestedExecs(a) = AttestedExecs(p)
  BY <1>1 DEF AttestedExecs
<1>3. TotalCost({e}) = Cost[e] /\ TotalQty({e}) = Qty[e] /\ Cost[e] \in Int /\ Qty[e] \in Int
  <2>1. Cost[e] \in Int /\ Qty[e] \in Int
    BY PortfolioAssumption
  <2> QED
    BY <2>1, SumOne DEF TotalCost, TotalQty
<1>4. p.applied \cap {e} = {} /\ {e} \in SUBSET Exec
  OBVIOUS
<1>5. CASE IsBuy(e)
  <2>1. /\ CashAfter(p.applied \cup {e}) = CashAfter(p.applied) - Cost[e]
        /\ PosAfter(p.applied \cup {e}) = PosAfter(p.applied) + Qty[e]
    BY <1>3, <1>4, <1>5, AttestedType, BalancesAfter
  <2> QED
    BY <1>1, <1>2, <1>3, <1>5, <2>1, AttestedType DEF Explained, a
<1>6. CASE ~IsBuy(e)
  <2>1. /\ CashAfter(p.applied \cup {e}) = CashAfter(p.applied) + Cost[e]
        /\ PosAfter(p.applied \cup {e}) = PosAfter(p.applied) - Qty[e]
    BY <1>3, <1>4, <1>6, AttestedType, BalancesAfter
  <2> QED
    BY <1>1, <1>2, <1>3, <1>6, <2>1, AttestedType DEF Explained, a
<1> QED
  BY <1>5, <1>6

\* settleLiveOrderAttested of an order that was not attested.
LEMMA SettleExplained ==
    ASSUME NEW p \in Book, Explained(p), NEW o \in Order, o \notin p.attested
    PROVE  Explained(SettleAttested(p, o))
<1> DEFINE s == SettleAttested(p, o)
           N == ExecsOf(o)
           A == AttestedExecs(p)
<1>0. IsBook(p)
  BY BookType
<1>1. /\ s.cash = IF o \in Buys THEN p.cash - TotalCost(N) ELSE p.cash + TotalCost(N)
      /\ s.pos = IF o \in Buys THEN p.pos + TotalQty(N) ELSE p.pos - TotalQty(N)
      /\ s.applied = p.applied /\ s.attested = p.attested \cup {o}
  BY <1>0, SettleFields
<1> HIDE DEF s
<1>2. AttestedExecs(s) = A \cup N /\ A \cap N = {} /\ N \in SUBSET Exec
  BY <1>1 DEF AttestedExecs, ExecsOf
<1>3. TotalCost(N) \in Int /\ TotalQty(N) \in Int
  BY <1>2, TotalsType
<1>4. CASE o \in Buys
  <2>1. \A e \in N : IsBuy(e)
    BY <1>4 DEF IsBuy, ExecsOf
  <2>2. CashAfter(A \cup N) = CashAfter(A) - TotalCost(N) /\ PosAfter(A \cup N) = PosAfter(A) + TotalQty(N)
    <3>1. A \in SUBSET Exec
      BY AttestedType
    <3> HIDE DEF N, A
    <3> QED
      BY <1>2, <2>1, <3>1, BalancesAfter
  <2> QED
    BY <1>1, <1>2, <1>3, <1>4, <2>2, AttestedType DEF Explained, s
<1>5. CASE o \notin Buys
  <2>1. \A e \in N : ~IsBuy(e)
    BY <1>5 DEF IsBuy, ExecsOf
  <2>2. CashAfter(A \cup N) = CashAfter(A) + TotalCost(N) /\ PosAfter(A \cup N) = PosAfter(A) - TotalQty(N)
    <3>1. A \in SUBSET Exec
      BY AttestedType
    <3> HIDE DEF N, A
    <3> QED
      BY <1>2, <2>1, <3>1, BalancesAfter
  <2> QED
    BY <1>1, <1>2, <1>3, <1>5, <2>2, AttestedType DEF Explained, s
<1> QED
  BY <1>4, <1>5

----------------------------------------------------------------------------
(* Shapes: what is needed of the types, amounts left aside *)

AccShape ==
    /\ status \in [Order -> Watched \cup {"FILLED", "CANCELED", "ABSENT"}]
    /\ xst \in [Order -> XStatus]
    /\ IsBook(disk) /\ disk.attested \subseteq Order
    /\ IsBook(work) /\ work.attested \subseteq Order
    /\ done \subseteq Exec
    /\ visible \subseteq done
    /\ owner \in Actor \cup {NoActor}
    /\ pc \in [Actor -> PC]
    /\ seen \in [Actor -> [Order -> XStatus]]
    /\ trades \in [Actor -> SUBSET done]
    /\ half \subseteq Order

\* Every step of the module, by name.
LEMMA AccSteps ==
    ASSUME AccNext
    PROVE  \/ \E a \in Actor :
                  \/ ReadStatuses(a) \/ MonitorOpens(a) \/ MonitorEnds(a)
                  \/ \E e \in Exec : MonitorApplies(a, e)
                  \/ MonitorSaves(a)
                  \/ TakeSnapshot(a) \/ NoSnapshotTaken(a) \/ ReadExchange(a)
                  \/ CommitOpens(a) \/ NothingToCommit(a) \/ CommitRefused(a)
                  \/ \E e \in Exec : CommitApplies(a, e)
                  \/ CommitHalts(a) \/ CommitSaves(a) \/ NoTrade(a)
                  \/ BookNotSaved(a)
                  \/ \E o \in Order : Place(a, o)
           \/ \E o \in Order : Attest(o) \/ Cancel(o)
           \/ \E e \in Exec : Execute(e) \/ Report(e)
  BY DEF AccNext, MonitorNext, ReconcileNext

LEMMA EmptyMarks ==
    ASSUME NEW c, NEW q
    PROVE  /\ IsBook(EmptyBook(c, q))
           /\ EmptyBook(c, q).applied = {}
           /\ EmptyBook(c, q).attested = {}
  BY DEF EmptyBook, IsBook

LEMMA AccShapeInit == ASSUME AccInit PROVE AccShape
  BY EmptyMarks DEF AccInit, AccShape, NothingSeen, XStatus, Working, Watched, PC

\* What is left when an actor forgets what it read.
LEMMA ForgetShape ==
    ASSUME AccShape, NEW a \in Actor, Forget(a), done' = done
    PROVE  /\ seen' \in [Actor -> [Order -> XStatus]]
           /\ trades' \in [Actor -> SUBSET done']
<1>1. NothingSeen \in [Order -> XStatus]
  BY DEF NothingSeen, XStatus
<1> QED
  BY <1>1 DEF AccShape, Forget

LEMMA GotoShape ==
    ASSUME pc \in [Actor -> PC], NEW a \in Actor, NEW l \in PC, Goto(a, l)
    PROVE  pc' \in [Actor -> PC]
  BY DEF Goto

LEMMA AccShapeStep == ASSUME AccShape, [AccNext]_accVars PROVE AccShape'
<1> USE DEF AccShape
<1>1. CASE UNCHANGED accVars
  BY <1>1 DEF accVars, stores, exch, sect, reads
<1>2. ASSUME NEW a \in Actor,
             ReadStatuses(a) \/ MonitorOpens(a) \/ MonitorEnds(a)
      PROVE  AccShape'
  <2>1. CASE ReadStatuses(a)
    BY <2>1 DEF ReadStatuses, StatusOf, TradesOf, Goto, PC, XStatus,
                stores, exch, sect
  <2>2. CASE MonitorOpens(a)
    <3>1. status' \in [Order -> Watched \cup {"FILLED", "CANCELED", "ABSENT"}]
      BY <2>2 DEF MonitorOpens, XStatus, Working, Watched
    <3>2. seen' \in [Actor -> [Order -> XStatus]]
      BY <2>2 DEF MonitorOpens, XStatus
    <3> QED
      BY <2>2, <3>1, <3>2 DEF MonitorOpens, EnterSection, Goto, PC, exch
  <2>3. CASE MonitorEnds(a)
    BY <2>3 DEF MonitorEnds, Goto, Forget, NothingSeen, PC, XStatus,
                stores, exch, sect
  <2> QED
    BY <1>2, <2>1, <2>2, <2>3
<1>3. ASSUME NEW a \in Actor, NEW e \in Exec,
             MonitorApplies(a, e) \/ CommitApplies(a, e)
      PROVE  AccShape'
  BY <1>3, ApplyMarks DEF MonitorApplies, CommitApplies, stores, exch, reads
<1>4. ASSUME NEW a \in Actor,
             MonitorSaves(a) \/ CommitSaves(a) \/ CommitHalts(a) \/ BookNotSaved(a)
      PROVE  AccShape'
  <2>0. {"monitored", "committed", "idle"} \subseteq PC
    BY DEF PC
  <2>1. CASE MonitorSaves(a)
    <3>1. IsBook(disk') /\ disk'.attested = work.attested
      BY <2>1, ReleaseFields DEF MonitorSaves
    <3>2. IsBook(work') /\ work'.attested = {}
      BY <2>1, EmptyMarks DEF MonitorSaves, LeaveSection
    <3>3. pc' \in [Actor -> PC]
      BY <2>1, <2>0, GotoShape DEF MonitorSaves
    <3>4. /\ seen' \in [Actor -> [Order -> XStatus]]
          /\ trades' \in [Actor -> SUBSET done']
      BY <2>1, ForgetShape DEF MonitorSaves, exch
    <3> QED
      BY <2>1, <3>1, <3>2, <3>3, <3>4 DEF MonitorSaves, LeaveSection, exch
  <2>2. CASE CommitSaves(a)
    <3>1. IsBook(disk') /\ disk'.attested = work.attested
      BY <2>2, ReleaseFields DEF CommitSaves
    <3>2. IsBook(work') /\ work'.attested = {}
      BY <2>2, EmptyMarks DEF CommitSaves, LeaveSection
    <3>3. pc' \in [Actor -> PC]
      BY <2>2, <2>0, GotoShape DEF CommitSaves
    <3> QED
      BY <2>2, <3>1, <3>2, <3>3 DEF CommitSaves, LeaveSection, exch, reads
  <2>3. CASE CommitHalts(a) \/ BookNotSaved(a)
    <3>1. IsBook(work') /\ work'.attested = {}
      BY <2>3, EmptyMarks DEF CommitHalts, BookNotSaved, LeaveSection
    <3>2. pc' \in [Actor -> PC]
      BY <2>3, <2>0 DEF CommitHalts, BookNotSaved, Goto
    <3>3. /\ seen' \in [Actor -> [Order -> XStatus]]
          /\ trades' \in [Actor -> SUBSET done']
      BY <2>3, ForgetShape DEF CommitHalts, BookNotSaved, exch
    <3> QED
      BY <2>3, <3>1, <3>2, <3>3
         DEF CommitHalts, BookNotSaved, LeaveSection, stores, exch
  <2> QED
    BY <1>4, <2>1, <2>2, <2>3
<1>5. ASSUME NEW a \in Actor,
             TakeSnapshot(a) \/ NoSnapshotTaken(a) \/ ReadExchange(a)
      PROVE  AccShape'
  <2>1. CASE TakeSnapshot(a) \/ NoSnapshotTaken(a)
    BY <2>1 DEF TakeSnapshot, NoSnapshotTaken, Goto, PC, stores, exch, sect, reads
  <2>2. CASE ReadExchange(a)
    <3>1. PICK S \in SUBSET snap[a].known, ok \in BOOLEAN :
              /\ seen' = [seen EXCEPT ![a] = StatusOf(S)]
              /\ trades' = [trades EXCEPT ![a] =
                              IF ok THEN TradesOf(snap[a].known) ELSE {}]
      BY <2>2 DEF ReadExchange
    <3>2. StatusOf(S) \in [Order -> XStatus]
      BY DEF StatusOf, XStatus
    <3>3. TradesOf(snap[a].known) \subseteq done
      BY DEF TradesOf
    <3> QED
      BY <2>2, <3>1, <3>2, <3>3 DEF ReadExchange, Goto, PC, stores, exch, sect
  <2> QED
    BY <1>5, <2>1, <2>2
<1>6. ASSUME NEW a \in Actor,
             CommitOpens(a) \/ NothingToCommit(a) \/ CommitRefused(a) \/ NoTrade(a)
      PROVE  AccShape'
  <2>1. CASE CommitOpens(a) \/ NothingToCommit(a)
    BY <2>1 DEF CommitOpens, NothingToCommit, EnterSection, Goto, PC,
                stores, exch, sect, reads
  <2>2. CASE CommitRefused(a) \/ NoTrade(a)
    <3>1. pc' \in [Actor -> PC]
      BY <2>2 DEF CommitRefused, NoTrade, Goto, PC
    <3>2. /\ seen' \in [Actor -> [Order -> XStatus]]
          /\ trades' \in [Actor -> SUBSET done']
      BY <2>2, ForgetShape DEF CommitRefused, NoTrade, exch
    <3> QED
      BY <2>2, <3>1, <3>2 DEF CommitRefused, NoTrade, stores, exch, sect
  <2> QED
    BY <1>6, <2>1, <2>2
<1>7. ASSUME NEW a \in Actor, NEW o \in Order, Place(a, o) PROVE AccShape'
  BY <1>7, ReserveMarks
     DEF Place, Goto, Forget, NothingSeen, PC, XStatus, Working, Watched, sect
<1>8. ASSUME NEW o \in Order, Attest(o) PROVE AccShape'
  BY <1>8, SettleMarks DEF Attest, exch, sect, reads
<1>9. ASSUME NEW o \in Order, Cancel(o) PROVE AccShape'
  BY <1>9 DEF Cancel, XStatus, stores, sect, reads
<1>10. ASSUME NEW e \in Exec, Execute(e) \/ Report(e) PROVE AccShape'
  BY <1>10 DEF Execute, Report, XStatus, Working, stores, sect, reads
<1> QED
  BY <1>1, <1>2, <1>3, <1>4, <1>5, <1>6, <1>7, <1>8, <1>9, <1>10, AccSteps
----------------------------------------------------------------------------
(* The invariant is inductive *)

InSection == {"adopting", "committing"}

LEMMA AccIInvInit == ASSUME AccInit PROVE AccIInv
<1>1. disk.applied = {} /\ disk.attested = {} /\ owner = NoActor
  BY EmptyMarks DEF AccInit
<1> QED
  BY <1>1, AccountingAssumption
     DEF AccInit, AccIInv, AttestedIsSettled, ReportsAreTrue, SectionHoldsBook,
         AdoptedIsNotAttested, AccountedOnce, Accounted, AttestedExecs, NothingSeen

\* A step of an actor outside the section that touches neither stores nor exchange.
LEMMA OutsideStep ==
    ASSUME AccShape, AccShape', AccIInv,
           NEW a \in Actor, pc[a] \notin InSection,
           NEW l \in PC \ InSection, Goto(a, l),
           UNCHANGED <<stores, exch, sect>>,
           \A b \in Actor \ {a} : seen'[b] = seen[b]
    PROVE  AccIInv'
<1>1. \A b \in Actor : pc'[b] \in InSection <=> pc[b] \in InSection
  BY DEF Goto, AccShape, InSection
<1>2. SectionHoldsBook'
  BY <1>1 DEF AccIInv, SectionHoldsBook, stores, exch, sect, InSection
<1>3. AdoptedIsNotAttested'
  BY DEF AccIInv, AdoptedIsNotAttested, stores, exch, Goto, AccShape, InSection
<1>4. ReportsAreTrue'
  BY DEF AccIInv, ReportsAreTrue, AccShape, exch
<1>5. AttestedIsSettled' /\ AccountedOnce'
  BY DEF AccIInv, AttestedIsSettled, AccountedOnce, Accounted, AttestedExecs, stores, exch
<1> QED
  BY <1>2, <1>3, <1>4, <1>5 DEF AccIInv

\* Entering the section: the working copy is the stored book.
LEMMA EnterStep ==
    ASSUME AccShape, AccShape', AccIInv,
           NEW a \in Actor, NEW l \in InSection, Goto(a, l), EnterSection(a),
           UNCHANGED <<disk, exch>>
    PROVE  SectionHoldsBook' /\ ReportsAreTrue' /\ AccountedOnce'
<1>1. \A b \in Actor : pc[b] \notin InSection
  BY AccountingAssumption DEF AccIInv, SectionHoldsBook, EnterSection, InSection
<1>2. \A b \in Actor : pc'[b] \in InSection <=> b = a
  BY <1>1 DEF Goto, AccShape, InSection
<1>3. SectionHoldsBook'
  BY <1>2, AccountingAssumption
     DEF AccIInv, SectionHoldsBook, AccountedOnce, Accounted, AttestedExecs, EnterSection, exch, InSection
<1>4. ReportsAreTrue' /\ AccountedOnce'
  BY DEF AccIInv, ReportsAreTrue, AccShape, AccountedOnce, Accounted, AttestedExecs, exch
<1> QED
  BY <1>3, <1>4

\* An execution that happened, of an order that is not attested or whose attestation
\* failed halfway, is applied to the working copy.
LEMMA ApplyStep ==
    ASSUME AccShape, AccIInv,
           NEW a \in Actor, pc[a] \in InSection,
           NEW e \in Exec, e \in trades[a], OrderOf[e] \notin work.attested \ half,
           work' = ApplyLiveFill(work, e),
           UNCHANGED <<stores, exch, owner, pc, reads>>
    PROVE  AccIInv'
<1>1. work'.applied = work.applied \cup {e} /\ work'.attested = work.attested
  BY ApplyMarks DEF AccShape
<1>2. owner # NoActor
  BY AccountingAssumption DEF AccIInv, SectionHoldsBook, InSection
<1>3. e \in done
  BY DEF AccShape
<1>4. SectionHoldsBook'
  BY <1>1, <1>2, <1>3 DEF AccIInv, SectionHoldsBook, stores, exch
<1>5. ReportsAreTrue' /\ AdoptedIsNotAttested'
  BY DEF AccIInv, ReportsAreTrue, AdoptedIsNotAttested, stores, exch, reads
<1>6. AttestedIsSettled' /\ AccountedOnce'
  BY DEF AccIInv, AttestedIsSettled, AccountedOnce, Accounted, AttestedExecs, stores, exch
<1> QED
  BY <1>4, <1>5, <1>6 DEF AccIInv

\* Leaving the section: the stored book is what it was, or has the marks of the
\* working copy.
LEMMA LeaveStep ==
    ASSUME AccShape, AccShape', AccIInv,
           NEW a \in Actor, pc[a] \in InSection,
           NEW l \in PC \ InSection, Goto(a, l), LeaveSection,
           UNCHANGED <<status, exch>>,
           \A b \in Actor \ {a} : seen'[b] = seen[b],
           \/ disk' = disk
           \/ disk'.applied = work.applied /\ disk'.attested = work.attested
    PROVE  AccIInv'
<1>1. owner = a /\ \A b \in Actor \ {a} : pc[b] \notin InSection
  BY DEF AccIInv, SectionHoldsBook, InSection
<1>2. \A b \in Actor : pc'[b] \notin InSection
  BY <1>1 DEF Goto, AccShape, InSection
<1>3. disk'.attested = disk.attested
  BY <1>1, AccountingAssumption DEF AccIInv, SectionHoldsBook
<1>4. SectionHoldsBook' /\ AdoptedIsNotAttested'
  BY <1>2, AccountingAssumption
     DEF SectionHoldsBook, AdoptedIsNotAttested, LeaveSection, InSection
<1>5. ReportsAreTrue' /\ AttestedIsSettled'
  BY <1>3 DEF AccIInv, ReportsAreTrue, AttestedIsSettled, AccShape, exch
<1>6. AccountedOnce'
  BY <1>1, AccountingAssumption
     DEF AccIInv, AccountedOnce, Accounted, AttestedExecs, SectionHoldsBook, exch
<1> QED
  BY <1>4, <1>5, <1>6 DEF AccIInv

LEMMA AccIInvStep ==
    ASSUME AccShape, AccIInv, [AccNext]_accVars
    PROVE  AccIInv'
<1>0. AccShape'
  BY AccShapeStep
<1>1. CASE UNCHANGED accVars
  BY <1>1 DEF accVars, stores, exch, sect, reads, AccIInv, AttestedIsSettled,
              ReportsAreTrue, SectionHoldsBook, AdoptedIsNotAttested, AccountedOnce,
              Accounted, AttestedExecs
<1>2. ASSUME NEW a \in Actor,
             \/ ReadStatuses(a) \/ MonitorEnds(a)
             \/ TakeSnapshot(a) \/ NoSnapshotTaken(a) \/ ReadExchange(a)
             \/ NothingToCommit(a) \/ CommitRefused(a) \/ NoTrade(a)
      PROVE  AccIInv'
  <2>1. /\ pc[a] \notin InSection
        /\ \E l \in PC \ InSection : Goto(a, l)
    BY <1>2 DEF ReadStatuses, MonitorEnds, TakeSnapshot, NoSnapshotTaken,
                ReadExchange, NothingToCommit, CommitRefused, NoTrade, PC, InSection
  <2>2. UNCHANGED <<stores, exch, sect>>
    BY <1>2 DEF ReadStatuses, MonitorEnds, TakeSnapshot, NoSnapshotTaken,
                ReadExchange, NothingToCommit, CommitRefused, NoTrade
  <2>3. \A b \in Actor \ {a} : seen'[b] = seen[b]
    BY <1>2 DEF ReadStatuses, MonitorEnds, TakeSnapshot, NoSnapshotTaken, Forget, reads,
                ReadExchange, NothingToCommit, CommitRefused, NoTrade, AccShape
  <2> QED
    BY <1>0, <2>1, <2>2, <2>3, OutsideStep
<1>3. ASSUME NEW a \in Actor, MonitorOpens(a) PROVE AccIInv'
  <2>1. SectionHoldsBook' /\ ReportsAreTrue' /\ AccountedOnce'
    BY <1>0, <1>3, EnterStep DEF MonitorOpens, InSection
  <2>2. AttestedIsSettled'
    BY <1>3 DEF MonitorOpens, AccIInv, AttestedIsSettled, AccShape, Unresolved, Watched, exch
  <2>3. \A b \in Actor \ {a} : pc'[b] # "adopting"
    BY <1>3, AccountingAssumption
       DEF MonitorOpens, EnterSection, Goto, AccIInv, SectionHoldsBook, AccShape
  <2>4. \A o \in Order : seen'[a][o] # "NONE" => o \notin disk'.attested \ half'
    BY <1>3 DEF MonitorOpens, AccIInv, AttestedIsSettled, AccShape, Unresolved, Watched, exch
  <2>5. AdoptedIsNotAttested'
    BY <2>3, <2>4 DEF AdoptedIsNotAttested
  <2> QED
    BY <2>1, <2>2, <2>5 DEF AccIInv
<1>4. ASSUME NEW a \in Actor, CommitOpens(a) PROVE AccIInv'
  <2>1. SectionHoldsBook' /\ ReportsAreTrue' /\ AccountedOnce'
    BY <1>0, <1>4, EnterStep DEF CommitOpens, InSection, stores
  <2>2. AttestedIsSettled'
    BY <1>4 DEF CommitOpens, AccIInv, AttestedIsSettled, stores, exch
  <2>3. AdoptedIsNotAttested'
    BY <1>4 DEF CommitOpens, AccIInv, AdoptedIsNotAttested, stores, exch, reads, Goto, AccShape
  <2> QED
    BY <2>1, <2>2, <2>3 DEF AccIInv
<1>5. ASSUME NEW a \in Actor, NEW e \in Exec, MonitorApplies(a, e) PROVE AccIInv'
  <2>1. work.attested = disk.attested
    BY <1>5, AccountingAssumption DEF MonitorApplies, AccIInv, SectionHoldsBook
  <2>2. OrderOf[e] \notin work.attested \ half
    BY <1>5, <2>1, PortfolioAssumption
       DEF MonitorApplies, MonitorMayApply, AccIInv, AdoptedIsNotAttested
  <2> QED
    BY <1>5, <2>2, ApplyStep DEF MonitorApplies, MonitorMayApply, InSection
<1>6. ASSUME NEW a \in Actor, NEW e \in Exec, CommitApplies(a, e) PROVE AccIInv'
  BY <1>6, ApplyStep DEF CommitApplies, Candidates, Excluded, InSection
<1>7. ASSUME NEW a \in Actor,
             MonitorSaves(a) \/ CommitSaves(a) \/ CommitHalts(a) \/ BookNotSaved(a)
      PROVE  AccIInv'
  <2>1. /\ pc[a] \in InSection
        /\ \E l \in PC \ InSection : Goto(a, l)
    BY <1>7 DEF MonitorSaves, MonitorIsDone, CommitSaves, CommitIsDone, CommitHalts,
                BookNotSaved, PC, InSection
  <2>2. LeaveSection /\ UNCHANGED <<status, exch>>
    BY <1>7 DEF MonitorSaves, CommitSaves, CommitHalts, BookNotSaved, stores
  <2>3. \A b \in Actor \ {a} : seen'[b] = seen[b]
    BY <1>7 DEF MonitorSaves, CommitSaves, CommitHalts, BookNotSaved, Forget, reads,
                AccShape
  <2>4. \/ disk' = disk
        \/ disk'.applied = work.applied /\ disk'.attested = work.attested
    BY <1>7, ReleaseFields
       DEF MonitorSaves, CommitSaves, CommitHalts, BookNotSaved, stores, AccShape
  <2> QED
    BY <1>0, <2>1, <2>2, <2>3, <2>4, LeaveStep
<1>8. ASSUME NEW a \in Actor, NEW o \in Order, Place(a, o) PROVE AccIInv'
  <2>1. disk'.applied = disk.applied /\ disk'.attested = disk.attested
    BY <1>8, ReserveMarks DEF Place, AccShape
  <2>2. AttestedIsSettled'
    BY <1>8, <2>1 DEF Place, AccIInv, AttestedIsSettled, AccShape
  <2>3. ReportsAreTrue'
    BY <1>0, <1>8 DEF Place, AccIInv, ReportsAreTrue, AccShape
  <2>4. SectionHoldsBook'
    BY <1>8, AccountingAssumption DEF Place, AccIInv, SectionHoldsBook, sect, Goto, AccShape
  <2>5. AdoptedIsNotAttested'
    BY <1>8, <2>1 DEF Place, AccIInv, AdoptedIsNotAttested, Goto, Forget, AccShape
  <2>6. AccountedOnce'
    BY <1>8, <2>1 DEF Place, AccIInv, AccountedOnce, Accounted, AttestedExecs
  <2> QED
    BY <2>2, <2>3, <2>4, <2>5, <2>6 DEF AccIInv
<1>9. ASSUME NEW o \in Order, Attest(o) PROVE AccIInv'
  <2>0. /\ UNCHANGED <<xst, done, visible, sect, pc, reads>>
        /\ owner = NoActor /\ xst[o] = "FILLED" /\ half \subseteq half'
        /\ \/ status' = [status EXCEPT ![o] = "FILLED"] /\ half' = half
           \/ status' = status /\ half' = half \cup {o}
    BY <1>9 DEF Attest
  <2>1. CASE o \in disk.attested
    <3>1. disk' = disk
      BY <1>9, <2>1 DEF Attest
    <3>2. AttestedIsSettled'
      BY <2>0, <3>1 DEF AccIInv, AttestedIsSettled, AccShape
    <3> QED
      BY <2>0, <3>1, <3>2
         DEF sect, reads, AccIInv, ReportsAreTrue, SectionHoldsBook,
             AdoptedIsNotAttested, AccountedOnce, Accounted, AttestedExecs
  <2>2. CASE o \notin disk.attested
    <3>1. CanSettle(disk, o) /\ disk' = SettleAttested(disk, o)
      BY <1>9, <2>2 DEF Attest
    <3>2. /\ disk'.applied = disk.applied
          /\ disk'.attested = disk.attested \cup {o}
      BY <3>1, SettleMarks DEF AccShape
    <3>4. AttestedIsSettled'
      BY <2>0, <3>2 DEF AccIInv, AttestedIsSettled, AccShape
    <3>5. ReportsAreTrue'
      BY <2>0 DEF AccIInv, ReportsAreTrue, reads
    <3>6. SectionHoldsBook' /\ AdoptedIsNotAttested'
      BY <2>0, AccountingAssumption
         DEF AccIInv, SectionHoldsBook, AdoptedIsNotAttested, sect
    <3>7. AccountedOnce'
      <4>1. ExecsOf(o) \subseteq done /\ \A e \in disk.applied : OrderOf[e] # o
        BY <2>0, <3>1 DEF CanSettle, AccIInv, ReportsAreTrue
      <4> QED
        BY <2>0, <3>2, <4>1 DEF AccIInv, AccountedOnce, Accounted, AttestedExecs, ExecsOf
    <3> QED
      BY <3>4, <3>5, <3>6, <3>7 DEF AccIInv
  <2> QED
    BY <2>1, <2>2
<1>10. ASSUME NEW o \in Order, Cancel(o) PROVE AccIInv'
  BY <1>10 DEF Cancel, stores, sect, reads, AccShape, AccIInv, AttestedIsSettled,
               ReportsAreTrue, SectionHoldsBook, AdoptedIsNotAttested, AccountedOnce,
               Accounted, AttestedExecs
<1>11. ASSUME NEW e \in Exec, Execute(e) PROVE AccIInv'
  <2>1. ReportsAreTrue'
    BY <1>11, PortfolioAssumption
       DEF Execute, AccIInv, ReportsAreTrue, AccShape, reads
  <2> QED
    BY <1>11, <2>1
       DEF Execute, stores, sect, reads, AccIInv, AttestedIsSettled, SectionHoldsBook,
           AdoptedIsNotAttested, AccountedOnce, Accounted, AttestedExecs
<1>12. ASSUME NEW e \in Exec, Report(e) PROVE AccIInv'
  BY <1>12 DEF Report, stores, sect, reads, AccIInv, AttestedIsSettled,
               ReportsAreTrue, SectionHoldsBook, AdoptedIsNotAttested, AccountedOnce,
               Accounted, AttestedExecs
<1> QED
  BY <1>1, <1>2, <1>3, <1>4, <1>5, <1>6, <1>7, <1>8, <1>9, <1>10, <1>11, <1>12, AccSteps

----------------------------------------------------------------------------
(* The amounts stay right *)

\* Both copies of the book add up; outside the section the working copy is empty.
MoneyIInv == AddsUp(disk) /\ AddsUp(work)

LEMMA MoneyInit == ASSUME AccInit PROVE MoneyIInv
  BY EmptyAddsUp, AccountingAssumption DEF AccInit, MoneyIInv

LEMMA LeaveAddsUp == ASSUME LeaveSection PROVE AddsUp(work')
  BY EmptyAddsUp, AccountingAssumption DEF LeaveSection

LEMMA MoneyStep == ASSUME MoneyIInv, [AccNext]_accVars PROVE MoneyIInv'
<1> USE DEF MoneyIInv
<1>1. CASE UNCHANGED <<disk, work>>
  BY <1>1
<1>2. ASSUME NEW a \in Actor,
             \/ ReadStatuses(a) \/ MonitorEnds(a)
             \/ TakeSnapshot(a) \/ NoSnapshotTaken(a) \/ ReadExchange(a)
             \/ NothingToCommit(a) \/ CommitRefused(a) \/ NoTrade(a)
      PROVE  UNCHANGED <<disk, work>>
  BY <1>2 DEF ReadStatuses, MonitorEnds, TakeSnapshot, NoSnapshotTaken,
              ReadExchange, NothingToCommit, CommitRefused, NoTrade, stores, sect
<1>3. ASSUME NEW a \in Actor, MonitorOpens(a) \/ CommitOpens(a) PROVE MoneyIInv'
  BY <1>3 DEF MonitorOpens, CommitOpens, EnterSection, stores
<1>4. ASSUME NEW a \in Actor, NEW e \in Exec, MonitorApplies(a, e) \/ CommitApplies(a, e)
      PROVE  MoneyIInv'
  BY <1>4, ApplyAddsUp DEF MonitorApplies, MonitorMayApply, CommitApplies, stores
<1>5. ASSUME NEW a \in Actor, MonitorSaves(a) PROVE MoneyIInv'
  <2>1. EndedUnfilled(a, trades[a]) \subseteq Order
    BY DEF EndedUnfilled
  <2> QED
    BY <1>5, <2>1, ReleaseAddsUp, LeaveAddsUp DEF MonitorSaves
<1>6. ASSUME NEW a \in Actor, CommitSaves(a) PROVE MoneyIInv'
  <2>1. Releases(a) \subseteq Order
    BY DEF Releases, EndedUnfilled
  <2> QED
    BY <1>6, <2>1, ReleaseAddsUp, LeaveAddsUp DEF CommitSaves
<1>7. ASSUME NEW a \in Actor, CommitHalts(a) \/ BookNotSaved(a) PROVE MoneyIInv'
  BY <1>7, LeaveAddsUp DEF CommitHalts, BookNotSaved, stores
<1>8. ASSUME NEW a \in Actor, NEW o \in Order, Place(a, o) PROVE MoneyIInv'
  <2>1. AddsUp(disk')
    BY <1>8, ReserveAddsUp DEF Place
  <2> QED
    BY <1>8, <2>1 DEF Place, sect
<1>9. ASSUME NEW o \in Order, Attest(o) PROVE MoneyIInv'
  <2>1. AddsUp(disk')
    BY <1>9, SettleAddsUp DEF Attest
  <2> QED
    BY <1>9, <2>1 DEF Attest, sect
<1>10. ASSUME (\E o \in Order : Cancel(o)) \/ \E e \in Exec : Execute(e) \/ Report(e)
       PROVE  UNCHANGED <<disk, work>>
  BY <1>10 DEF Cancel, Execute, Report, stores, sect
<1>11. CASE UNCHANGED accVars
  BY <1>11 DEF accVars, stores, sect
<1> QED
  BY <1>1, <1>2, <1>3, <1>4, <1>5, <1>6, <1>7, <1>8, <1>9, <1>10, <1>11, AccSteps

\* Both copies of the book explain their balances.
BalanceIInv == Explained(disk) /\ Explained(work)

LEMMA LeaveExplained == ASSUME LeaveSection PROVE Explained(work')
  BY EmptyExplained DEF LeaveSection, Explained, AttestedExecs

LEMMA ReleaseExplained ==
    ASSUME NEW p \in Book, Explained(p), NEW S PROVE Explained(ReleaseOrders(p, S))
<1>1. IsBook(p)
  BY BookType
<1>2. /\ ReleaseOrders(p, S).cash = p.cash /\ ReleaseOrders(p, S).pos = p.pos
      /\ ReleaseOrders(p, S).applied = p.applied
      /\ ReleaseOrders(p, S).attested = p.attested
  BY <1>1, ReleaseFields
<1> QED
  BY <1>2, SameExplained

LEMMA BalanceStep ==
    ASSUME MoneyIInv, BalanceIInv, [AccNext]_accVars
    PROVE  BalanceIInv'
<1> USE DEF BalanceIInv
<1>0. disk \in Book /\ work \in Book
  BY DEF MoneyIInv, AddsUp
<1>1. CASE UNCHANGED <<disk, work>>
  BY <1>1 DEF Explained, AttestedExecs
<1>2. ASSUME NEW a \in Actor,
             \/ ReadStatuses(a) \/ MonitorEnds(a)
             \/ TakeSnapshot(a) \/ NoSnapshotTaken(a) \/ ReadExchange(a)
             \/ NothingToCommit(a) \/ CommitRefused(a) \/ NoTrade(a)
      PROVE  UNCHANGED <<disk, work>>
  BY <1>2 DEF ReadStatuses, MonitorEnds, TakeSnapshot, NoSnapshotTaken,
              ReadExchange, NothingToCommit, CommitRefused, NoTrade, stores, sect
<1>3. ASSUME NEW a \in Actor, MonitorOpens(a) \/ CommitOpens(a) PROVE BalanceIInv'
  BY <1>3 DEF MonitorOpens, CommitOpens, EnterSection, stores, Explained, AttestedExecs
<1>4. ASSUME NEW a \in Actor, NEW e \in Exec, MonitorApplies(a, e) \/ CommitApplies(a, e)
      PROVE  BalanceIInv'
  <2>2. e \notin work.applied /\ work' = ApplyLiveFill(work, e) /\ disk' = disk
    BY <1>4 DEF MonitorApplies, MonitorMayApply, CommitApplies, CanApplyLiveFill, stores
  <2>3. Explained(work')
    BY <1>0, <2>2, ApplyExplained
  <2> QED
    BY <2>2, <2>3 DEF Explained, AttestedExecs
<1>5. ASSUME NEW a \in Actor, MonitorSaves(a) \/ CommitSaves(a) PROVE BalanceIInv'
  BY <1>0, <1>5, ReleaseExplained, LeaveExplained DEF MonitorSaves, CommitSaves
<1>6. ASSUME NEW a \in Actor, CommitHalts(a) \/ BookNotSaved(a) PROVE BalanceIInv'
  <2>1. disk' = disk /\ LeaveSection
    BY <1>6 DEF CommitHalts, BookNotSaved, stores
  <2> QED
    BY <2>1, LeaveExplained DEF Explained, AttestedExecs
<1>7. ASSUME NEW a \in Actor, NEW o \in Order, Place(a, o) PROVE BalanceIInv'
  <2>1. work' = work
    BY <1>7 DEF Place, sect
  <2>2. Explained(disk')
    <3>1. IsBook(disk)
      BY <1>0, BookType
    <3>2. CASE o \in Buys
      <4>1. /\ ReserveOrder(disk, o).cash = disk.cash
            /\ ReserveOrder(disk, o).pos = disk.pos
            /\ ReserveOrder(disk, o).applied = disk.applied
            /\ ReserveOrder(disk, o).attested = disk.attested
        BY <3>1, ReserveFields
      <4>2. disk' = ReserveOrder(disk, o)
        BY <1>7, <3>2 DEF Place
      <4> QED
        BY <4>1, <4>2, SameExplained
    <3>3. CASE o \notin Buys
      BY <1>7, <3>3 DEF Place, Explained, AttestedExecs
    <3> QED
      BY <3>2, <3>3
  <2> QED
    BY <2>1, <2>2 DEF Explained, AttestedExecs
<1>8. ASSUME NEW o \in Order, Attest(o) PROVE BalanceIInv'
  <2>1. work' = work
    BY <1>8 DEF Attest, sect
  <2>2. CASE o \in disk.attested
    BY <1>8, <2>1, <2>2 DEF Attest, Explained, AttestedExecs
  <2>3. CASE o \notin disk.attested
    <3>1. CanSettle(disk, o) /\ disk' = SettleAttested(disk, o)
      BY <1>8, <2>3 DEF Attest
    <3>2. Explained(disk')
      BY <1>0, <2>3, <3>1, SettleExplained
    <3> QED
      BY <2>1, <3>2 DEF Explained, AttestedExecs
  <2> QED
    BY <2>2, <2>3
<1>9. ASSUME (\E o \in Order : Cancel(o)) \/ \E e \in Exec : Execute(e) \/ Report(e)
      PROVE  UNCHANGED <<disk, work>>
  BY <1>9 DEF Cancel, Execute, Report, stores, sect
<1>10. CASE UNCHANGED accVars
  BY <1>10 DEF accVars, stores, sect, Explained, AttestedExecs
<1> QED
  BY <1>1, <1>2, <1>3, <1>4, <1>5, <1>6, <1>7, <1>8, <1>9, <1>10, AccSteps

----------------------------------------------------------------------------
(* Types of what a cycle keeps between its steps *)

ReadsShape ==
    /\ snap \in [Actor -> Snapshot]
    /\ gate \in [Actor -> SUBSET {"BUY", "SELL"}]

LEMMA ReadsShapeInit == ASSUME AccInit PROVE ReadsShape
  BY DEF AccInit, ReadsShape, NoSnapshot, Snapshot

LEMMA ReadsShapeStep ==
    ASSUME AccShape, ReadsShape, [AccNext]_accVars PROVE ReadsShape'
<1>0. NoSnapshot \in Snapshot
  BY DEF NoSnapshot, Snapshot
<1>1. ASSUME UNCHANGED <<snap, gate>> PROVE ReadsShape'
  BY <1>1 DEF ReadsShape
<1>2. ASSUME NEW a \in Actor, Forget(a) PROVE ReadsShape'
  BY <1>0, <1>2 DEF Forget, ReadsShape
<1>3. ASSUME NEW a \in Actor, TakeSnapshot(a) PROVE ReadsShape'
  <2> DEFINE s == [known |-> Known, attested |-> disk.attested,
                   agrees |-> IF CrossDomainOK THEN BalancesAgree ELSE {}]
  <2>1. s \in Snapshot
    BY DEF AccShape, Snapshot, Known, BalancesAgree
  <2>2. snap' = [snap EXCEPT ![a] = s] /\ gate' = gate
    BY <1>3 DEF TakeSnapshot
  <2> HIDE DEF s
  <2> QED
    BY <2>1, <2>2 DEF ReadsShape
<1>4. ASSUME NEW a \in Actor, ReadExchange(a) PROVE ReadsShape'
  <2>1. \A read, T : GateFor(read, T, snap[a]) \subseteq {"BUY", "SELL"}
    BY DEF GateFor, ReadsShape, Snapshot
  <2>2. PICK g \in SUBSET {"BUY", "SELL"} : gate' = [gate EXCEPT ![a] = g]
    BY <1>4, <2>1 DEF ReadExchange
  <2> QED
    BY <1>4, <2>2 DEF ReadExchange, ReadsShape
<1>5. ASSUME NEW a \in Actor,
             \/ MonitorEnds(a) \/ MonitorSaves(a) \/ CommitRefused(a) \/ NoTrade(a)
             \/ CommitHalts(a) \/ BookNotSaved(a) \/ \E o \in Order : Place(a, o)
      PROVE  ReadsShape'
  BY <1>2, <1>5 DEF MonitorEnds, MonitorSaves, CommitRefused, NoTrade, CommitHalts,
                    BookNotSaved, Place
<1>6. ASSUME NEW a \in Actor,
             \/ ReadStatuses(a) \/ MonitorOpens(a) \/ NoSnapshotTaken(a)
             \/ \E e \in Exec : MonitorApplies(a, e) \/ CommitApplies(a, e)
             \/ CommitOpens(a) \/ NothingToCommit(a) \/ CommitSaves(a)
      PROVE  ReadsShape'
  BY <1>1, <1>6 DEF ReadStatuses, MonitorOpens, NoSnapshotTaken, MonitorApplies,
                    CommitApplies, CommitOpens, NothingToCommit, CommitSaves, reads
<1>7. ASSUME \/ \E o \in Order : Attest(o) \/ Cancel(o)
             \/ \E e \in Exec : Execute(e) \/ Report(e)
      PROVE  ReadsShape'
  BY <1>1, <1>7 DEF Attest, Cancel, Execute, Report, reads
<1>8. CASE UNCHANGED accVars
  BY <1>1, <1>8 DEF accVars, reads
<1> QED
  BY <1>3, <1>4, <1>5, <1>6, <1>7, <1>8, AccSteps

----------------------------------------------------------------------------
(* Theorems *)

\* Whichever saves fail, the invariant holds of every reachable state: the lock's
\* section, the attested orders and what the exchange reported fit together
\* (monitorOnce, commitProven, resolve-live-order).
THEOREM AccountingInvariant == AccSpec => [](AccShape /\ AccIInv)
<1>1. AccInit => AccShape /\ AccIInv
  BY AccShapeInit, AccIInvInit
<1>2. AccShape /\ AccIInv /\ [AccNext]_accVars => (AccShape /\ AccIInv)'
  BY AccShapeStep, AccIInvStep
<1> QED
  BY <1>1, <1>2, PTL DEF AccSpec

\* Whichever saves fail, no execution is accounted that did not happen; and one is
\* accounted both by applyLiveFill and by settleLiveOrderAttested only after the save
\* of the ledger failed in an attestation of its order (resolve-live-order): nothing
\* else leads to it, no stale read, no interleaving, no failed save of the book.
THEOREM ExecutionsAccountedOnce == AccSpec => []AccountedOnce
<1>1. AccIInv => AccountedOnce
  BY DEF AccIInv
<1> QED
  BY <1>1, AccountingInvariant, PTL

\* No save of the book, by the monitor, by reconciliation or by the operator, loses
\* an applied execution or an attestation that another one saved before.
THEOREM AppliedIsNeverForgotten == AccSpec => AppliedNeverForgotten
<1> DEFINE Kept == /\ disk.applied \subseteq disk'.applied
                   /\ disk.attested \subseteq disk'.attested
<1>1. AccShape /\ AccIInv /\ [AccNext]_accVars => [Kept]_accVars
  <2> SUFFICES ASSUME AccShape, AccIInv, AccNext PROVE Kept \/ UNCHANGED accVars
    OBVIOUS
  <2>1. ASSUME NEW a \in Actor, MonitorSaves(a) \/ CommitSaves(a) PROVE Kept
    <3>1. owner = a /\ owner # NoActor
      BY <2>1, AccountingAssumption
         DEF MonitorSaves, MonitorIsDone, CommitSaves, CommitIsDone, AccIInv,
             SectionHoldsBook
    <3>2. disk'.applied = work.applied /\ disk'.attested = work.attested
      BY <2>1, ReleaseFields DEF MonitorSaves, CommitSaves, AccShape
    <3> QED
      BY <3>1, <3>2 DEF AccIInv, SectionHoldsBook
  <2>2. ASSUME NEW a \in Actor, NEW o \in Order, Place(a, o) PROVE Kept
    BY <2>2, ReserveMarks DEF Place, AccShape
  <2>3. ASSUME NEW o \in Order, Attest(o) PROVE Kept
    BY <2>3, SettleMarks DEF Attest, AccShape
  <2>4. ASSUME UNCHANGED disk PROVE Kept
    BY <2>4
  <2>5. ASSUME NEW a \in Actor,
               \/ ReadStatuses(a) \/ MonitorOpens(a) \/ MonitorEnds(a)
               \/ \E e \in Exec : MonitorApplies(a, e)
               \/ TakeSnapshot(a) \/ NoSnapshotTaken(a) \/ ReadExchange(a)
               \/ CommitOpens(a) \/ NothingToCommit(a) \/ CommitRefused(a)
               \/ \E e \in Exec : CommitApplies(a, e)
               \/ CommitHalts(a) \/ NoTrade(a) \/ BookNotSaved(a)
        PROVE  UNCHANGED disk
    BY <2>5 DEF ReadStatuses, MonitorOpens, MonitorEnds, MonitorApplies, TakeSnapshot,
                NoSnapshotTaken, ReadExchange, CommitOpens, NothingToCommit,
                CommitRefused, CommitApplies, CommitHalts, NoTrade, BookNotSaved, stores
  <2>6. ASSUME (\E o \in Order : Cancel(o)) \/ \E e \in Exec : Execute(e) \/ Report(e)
        PROVE  UNCHANGED disk
    BY <2>6 DEF Cancel, Execute, Report, stores
  <2> QED
    BY <2>1, <2>2, <2>3, <2>4, <2>5, <2>6, AccSteps
<1> QED
  BY <1>1, AccountingInvariant, PTL DEF AccSpec, AppliedNeverForgotten

\* Every variable keeps its type; in particular both copies of the book are books.
THEOREM AccTypeCorrect == AccSpec => []AccTypeOK
<1>1. AccInit => AccShape /\ ReadsShape /\ MoneyIInv
  BY AccShapeInit, ReadsShapeInit, MoneyInit
<1>2. AccShape /\ ReadsShape /\ MoneyIInv /\ [AccNext]_accVars
         => (AccShape /\ ReadsShape /\ MoneyIInv)'
  BY AccShapeStep, ReadsShapeStep, MoneyStep
<1>3. AccShape /\ ReadsShape /\ MoneyIInv => AccTypeOK
  <2> SUFFICES ASSUME AccShape, ReadsShape, MoneyIInv PROVE AccTypeOK
    OBVIOUS
  <2>1. trades \in [Actor -> SUBSET Exec]
    BY DEF AccShape
  <2> QED
    BY <2>1 DEF AccShape, ReadsShape, MoneyIInv, AddsUp, AccTypeOK
<1> QED
  BY <1>1, <1>2, <1>3, PTL DEF AccSpec

\* Whatever interleaves and whichever saves fail, the pool of reserved quote of the
\* stored book is what its active reservations have left, and the cash covers it
\* (Portfolio.reserveOrder, consumeOrderReservation, releaseOrderReservation,
\* applyLiveFill and settleLiveOrderAttested under all their callers).
THEOREM BooksAlwaysAddUp == AccSpec => []BooksAddUp
<1>1. AccInit => MoneyIInv
  BY MoneyInit
<1>2. MoneyIInv /\ [AccNext]_accVars => MoneyIInv'
  BY MoneyStep
<1>3. MoneyIInv => BooksAddUp
  BY DEF MoneyIInv, AddsUp, Actives, BooksAddUp
<1> QED
  BY <1>1, <1>2, <1>3, PTL DEF AccSpec

\* Whichever saves fail, the managed cash and position are what the executions applied
\* and the orders attested, each record once, make of the initial ones: no
\* interleaving of monitor, reconciliation and operator loses, repeats or halves an
\* amount.
THEOREM CashIsAlwaysAccounted == AccSpec => []CashIsAccounted
<1>1. AccInit => MoneyIInv /\ BalanceIInv
  BY MoneyInit, EmptyExplained DEF AccInit, BalanceIInv
<1>2. MoneyIInv /\ BalanceIInv /\ [AccNext]_accVars => MoneyIInv' /\ BalanceIInv'
  BY MoneyStep, BalanceStep
<1>3. BalanceIInv => CashIsAccounted
  BY DEF BalanceIInv, Explained, CashIsAccounted
<1> QED
  BY <1>1, <1>2, <1>3, PTL DEF AccSpec
----------------------------------------------------------------------------
(* The hand-over of funds: a saved book loads *)

\* A book that the program can write and read back.
Healthy(b) == b \in Holdings /\ Sound(b) /\ AddsUp(b.money)

\* The document holds such a book, whatever its version, and so does a command.
FundsHealthy ==
    /\ FundsTypeOK
    /\ doc.ver = 2 => doc.split
    /\ Healthy(Owned(doc))
    /\ \A c \in Command : run[c].at # "idle" =>
           Healthy(run[c].book) /\ (run[c].at \in {"asked", "verified"} => run[c].amount > 0)

\* While a command is at work the bot is quiet, and its book is the one on disk.
FundsQuiet ==
    /\ \A c, d \in AtWork : c = d
    /\ \A c \in AtWork : run[c].book = Owned(doc) /\ \A o \in Order : Resolved(o)
    /\ \A o \in Order : order[o] = "none" => Done(o) = {}
    /\ doc.book.money.applied \subseteq happened
    /\ \A o \in doc.book.money.attested : order[o] = "closed" /\ ExecsOf(o) \subseteq happened

\* What a command is about to take over is the owner's, but for what he took away since
\* the command read it again.
StillHis ==
    \A c \in Command : run[c].at = "verified" =>
        /\ run[c].op = "adopt"   => OwnersQuote + gone[c] >= run[c].amount
        /\ run[c].op = "onboard" => OwnersBase + gone[c] >= run[c].amount

----------------------------------------------------------------------------
(* What the methods do to a healthy book *)

\* A record with the fields of a book in memory.
IsHoldings(b) ==
    b = [money |-> b.money, bot |-> b.bot, ext |-> b.ext, snapshot |-> b.snapshot,
         authorized |-> b.authorized, source |-> b.source]

LEMMA HoldingsType ==
    ASSUME NEW b
    PROVE  b \in Holdings <=> /\ IsHoldings(b)
                              /\ b.money \in Book
                              /\ b.bot \in Int /\ b.ext \in Int /\ b.snapshot \in Int
                              /\ b.authorized \in BOOLEAN
                              /\ b.source \in {"BOT", "EXTERNAL_AUTHORIZED", "none"}
  BY DEF Holdings, IsHoldings

\* No reservation exceeds the worst case of its order, no order is attested unfilled.
Bounded(m) ==
    /\ \A o \in Buys : m.resv[o].left <= Reserve[o]
    /\ \A o \in m.attested : TotalQty(ExecsOf(o)) > 0

\* What is left to see of a book that serializePortfolio accepts.
LEMMA HealthyBook ==
    ASSUME NEW b \in Holdings, Writable(b), AddsUp(b.money), Bounded(b.money),
           b.money.pos >= 0, b.snapshot >= 0
    PROVE  Healthy(b)
<1>1. b.money.reserved >= 0 /\ b.money.reserved <= b.money.cash
  BY LeftWithinPool DEF AddsUp
<1> QED
  BY <1>1 DEF Healthy, Sound, Writable, Bounded

LEMMA HealthyFacts ==
    ASSUME NEW b, Healthy(b)
    PROVE  /\ IsHoldings(b) /\ b \in Holdings /\ b.money \in Book
           /\ b.bot \in Int /\ b.ext \in Int /\ b.snapshot \in Int
           /\ b.bot + b.ext = b.money.pos /\ b.money.pos >= 0 /\ b.snapshot >= 0
           /\ AddsUp(b.money) /\ Bounded(b.money)
  BY HoldingsType, PortfolioAssumption DEF Healthy, Sound, Bounded

\* The reservations of a book whose pool adds up can be written.
LEMMA ReservationsSound ==
    ASSUME NEW m, AddsUp(m), NEW o \in Order PROVE ReservationSound(m.resv[o])
<1>1. m.resv[o].left \in Int
  BY BookType DEF AddsUp, Resv
<1> QED
  BY <1>1 DEF AddsUp, Active, ReservationSound

\* Another book of the same position for the same owners.
LEMMA MoneyHealthy ==
    ASSUME NEW b, Healthy(b), NEW m, AddsUp(m), Bounded(m), m.pos = b.money.pos
    PROVE  Healthy([b EXCEPT !.money = m]) /\ [b EXCEPT !.money = m].money = m
<1> DEFINE n == [b EXCEPT !.money = m]
<1>1. /\ IsHoldings(n) /\ n.money = m /\ n.bot = b.bot /\ n.ext = b.ext
      /\ n.snapshot = b.snapshot /\ n.authorized = b.authorized /\ n.source = b.source
  BY HealthyFacts DEF IsHoldings
<1> HIDE DEF n
<1>2. m \in Book
  BY DEF AddsUp
<1>3. n \in Holdings
  BY <1>1, <1>2, HealthyFacts, HoldingsType
<1>4. Writable(n)
  BY <1>1, HealthyFacts, ReservationsSound DEF Writable
<1>5. Healthy(n)
  BY <1>1, <1>3, <1>4, HealthyFacts, HealthyBook
<1> QED
  BY <1>1, <1>5 DEF n

\* A new reservation has the worst case of its order left.
LEMMA ReserveHealthy ==
    ASSUME NEW m, AddsUp(m), Bounded(m), NEW o \in Buys, CanReserve(m, o)
    PROVE  LET r == ReserveOrder(m, o) IN
           /\ AddsUp(r) /\ Bounded(r)
           /\ r.cash = m.cash /\ r.pos = m.pos
           /\ r.applied = m.applied /\ r.attested = m.attested
<1> DEFINE r == ReserveOrder(m, o)
<1>1. AddsUp(r)
  BY ReserveAddsUp
<1>2. IsBook(m) /\ m.resv \in Resv
  BY BookType DEF AddsUp
<1>3. /\ r.cash = m.cash /\ r.pos = m.pos /\ r.resv = WithNew(m.resv, o, Reserve[o])
      /\ r.applied = m.applied /\ r.attested = m.attested
  BY <1>2, ReserveFields
<1> HIDE DEF r
<1>4. ASSUME NEW x \in Buys PROVE r.resv[x].left <= Reserve[x]
  <2>1. o \in Order /\ x \in Order /\ Reserve[x] \in Nat
    BY PortfolioAssumption
  <2> QED
    BY <1>2, <1>3, <2>1 DEF WithNew, Resv, Bounded
<1>5. Bounded(r)
  BY <1>3, <1>4 DEF Bounded
<1> QED
  BY <1>1, <1>3, <1>5 DEF r

\* An ended reservation has nothing left.
LEMMA ReleaseHealthy ==
    ASSUME NEW m, AddsUp(m), Bounded(m), NEW S \in SUBSET Order
    PROVE  LET r == ReleaseOrders(m, S) IN
           /\ AddsUp(r) /\ Bounded(r)
           /\ r.cash = m.cash /\ r.pos = m.pos
           /\ r.applied = m.applied /\ r.attested = m.attested
<1> DEFINE r == ReleaseOrders(m, S)
<1>1. AddsUp(r)
  BY ReleaseAddsUp
<1>2. IsBook(m) /\ m.resv \in Resv
  BY BookType DEF AddsUp
<1>3. /\ r.cash = m.cash /\ r.pos = m.pos /\ r.resv = Ending(m, S)
      /\ r.applied = m.applied /\ r.attested = m.attested
  BY <1>2, ReleaseFields
<1> HIDE DEF r
<1>4. ASSUME NEW x \in Buys PROVE r.resv[x].left <= Reserve[x]
  <2>1. x \in Order /\ Reserve[x] \in Nat
    BY PortfolioAssumption
  <2> QED
    BY <1>3, <2>1 DEF Ending, Bounded
<1>5. Bounded(r)
  BY <1>3, <1>4 DEF Bounded
<1> QED
  BY <1>1, <1>3, <1>5 DEF r

\* An execution takes at most what is left; a SELL takes at most the position.
LEMMA ApplyHealthy ==
    ASSUME NEW m, AddsUp(m), Bounded(m), m.pos >= 0, NEW e \in Exec, CanApplyLiveFill(m, e)
    PROVE  LET a == ApplyLiveFill(m, e) IN
           /\ AddsUp(a) /\ Bounded(a) /\ a.pos >= 0
           /\ a.cash = IF IsBuy(e) THEN m.cash - Cost[e] ELSE m.cash + Cost[e]
           /\ a.pos = IF IsBuy(e) THEN m.pos + Qty[e] ELSE m.pos - Qty[e]
           /\ a.applied = m.applied \cup {e} /\ a.attested = m.attested
<1> DEFINE a == ApplyLiveFill(m, e)
           o == OrderOf[e]
<1>0. o \in Order /\ Cost[e] \in Nat /\ Qty[e] \in Nat
  BY PortfolioAssumption
<1>1. AddsUp(a)
  BY ApplyAddsUp
<1>2. IsBook(m) /\ m.resv \in Resv /\ m.pos \in Int /\ m.cash \in Int
  BY BookType DEF AddsUp
<1>3. /\ a.cash = IF IsBuy(e) THEN m.cash - Cost[e] ELSE m.cash + Cost[e]
      /\ a.pos = IF IsBuy(e) THEN m.pos + Qty[e] ELSE m.pos - Qty[e]
      /\ a.resv = m.resv \/ a.resv = WithLeft(m.resv, o, m.resv[o].left - Cost[e])
      /\ a.applied = m.applied \cup {e} /\ a.attested = m.attested
  BY <1>2, ApplyFields DEF IsBuy
<1> HIDE DEF a
<1>4. ASSUME NEW x \in Buys PROVE a.resv[x].left <= Reserve[x]
  <2>1. /\ x \in Order /\ Reserve[x] \in Nat
        /\ m.resv[x].left <= Reserve[x] /\ m.resv[x].left \in Int
    BY <1>2, PortfolioAssumption DEF Bounded, Resv
  <2> QED
    BY <1>0, <1>2, <1>3, <2>1 DEF WithLeft, Resv
<1>5. Bounded(a)
  BY <1>3, <1>4 DEF Bounded
<1>6. a.pos >= 0
  BY <1>0, <1>2, <1>3 DEF CanApplyLiveFill, CanFill, IsBuy
<1> QED
  BY <1>1, <1>3, <1>5, <1>6 DEF a

\* An attestation fills something, and ends the reservation of a BUY.
LEMMA SettleHealthy ==
    ASSUME NEW m, AddsUp(m), Bounded(m), m.pos >= 0, NEW o \in Order, CanSettle(m, o)
    PROVE  LET s == SettleAttested(m, o)
               cost == TotalCost(ExecsOf(o))
               qty == TotalQty(ExecsOf(o))
           IN
           /\ AddsUp(s) /\ Bounded(s) /\ s.pos >= 0
           /\ s.cash = IF o \in Buys THEN m.cash - cost ELSE m.cash + cost
           /\ s.pos = IF o \in Buys THEN m.pos + qty ELSE m.pos - qty
           /\ s.applied = m.applied /\ s.attested = m.attested \cup {o}
<1> DEFINE s == SettleAttested(m, o)
           cost == TotalCost(ExecsOf(o))
           qty == TotalQty(ExecsOf(o))
<1>0. cost \in Nat /\ qty \in Nat /\ qty > 0
  BY TotalsType DEF ExecsOf, CanSettle
<1>1. AddsUp(s)
  BY SettleAddsUp
<1>2. IsBook(m) /\ m.resv \in Resv /\ m.pos \in Int /\ m.cash \in Int
  BY BookType DEF AddsUp
<1>3. /\ s.cash = IF o \in Buys THEN m.cash - cost ELSE m.cash + cost
      /\ s.pos = IF o \in Buys THEN m.pos + qty ELSE m.pos - qty
      /\ s.applied = m.applied /\ s.attested = m.attested \cup {o}
      /\ \/ s.resv = m.resv
         \/ \E c : c.resv = WithLeft(m.resv, o, m.resv[o].left - cost)
                   /\ IsBook(c) /\ s = ReleaseOrders(c, {o})
  <2>1. CASE o \in Buys
    <3>1. PICK c : /\ IsBook(c) /\ c.resv = WithLeft(m.resv, o, m.resv[o].left - cost)
                   /\ s = ReleaseOrders(c, {o})
      BY <1>2, <2>1, SettleFields
    <3>2. \E x : x.resv = WithLeft(m.resv, o, m.resv[o].left - cost)
                 /\ IsBook(x) /\ s = ReleaseOrders(x, {o})
      BY <3>1
    <3> QED
      BY <1>2, <2>1, <3>2, SettleFields
  <2>2. CASE o \notin Buys
    BY <1>2, <2>2, SettleFields
  <2> QED
    BY <2>1, <2>2
<1> HIDE DEF s
<1>4. ASSUME NEW x \in Buys PROVE s.resv[x].left <= Reserve[x]
  <2>1. /\ x \in Order /\ Reserve[x] \in Nat
        /\ m.resv[x].left <= Reserve[x] /\ m.resv[x].left \in Int
    BY <1>2, PortfolioAssumption DEF Bounded, Resv
  <2>2. CASE s.resv = m.resv
    BY <2>1, <2>2
  <2>3. CASE s.resv # m.resv
    <3>1. PICK c : /\ c.resv = WithLeft(m.resv, o, m.resv[o].left - cost)
                   /\ IsBook(c) /\ s = ReleaseOrders(c, {o})
      BY <1>3, <2>3
    <3>2. s.resv = Ending(c, {o})
      BY <3>1, ReleaseFields
    <3>3. c.resv[x].left <= Reserve[x]
      <4> HIDE DEF cost
      <4> QED
        BY <1>0, <1>2, <2>1, <3>1 DEF WithLeft, Resv
    <3> QED
      BY <2>1, <3>2, <3>3 DEF Ending
  <2> QED
    BY <2>2, <2>3
<1>5. Bounded(s)
  BY <1>0, <1>3, <1>4 DEF Bounded
<1>6. s.pos >= 0
  BY <1>0, <1>2, <1>3 DEF CanSettle, CanFill
<1> QED
  BY <1>1, <1>3, <1>5, <1>6 DEF s

\* A fill changes the owners' parts and the source beside the money.
LEMMA FilledHealthy ==
    ASSUME NEW b, Healthy(b), NEW o \in Order, NEW qty \in Nat,
           NEW m, AddsUp(m), Bounded(m), m.pos >= 0,
           Writable(Filled(b, o, qty, m))
    PROVE  Healthy(Filled(b, o, qty, m)) /\ Filled(b, o, qty, m).money = m
<1> DEFINE p == Parts(b, o \in Buys, qty)
           src == IF m.pos = 0 THEN "none" ELSE IF b.money.pos = 0 THEN "BOT" ELSE p.source
           q == [p EXCEPT !.money = m]
           f == Filled(b, o, qty, m)
<1>0. /\ IsHoldings(b) /\ b \in Holdings /\ b.bot \in Int /\ b.ext \in Int
      /\ b.snapshot \in Int /\ b.snapshot >= 0
  BY HealthyFacts
<1>1. /\ IsHoldings(p) /\ p.bot \in Int /\ p.ext \in Int /\ p.snapshot = b.snapshot
      /\ p.authorized = b.authorized /\ p.source = b.source
  <2> DEFINE own == IF qty < b.bot THEN qty ELSE b.bot
             u == [b EXCEPT !.bot = b.bot + qty]
             v == [b EXCEPT !.bot = b.bot - own]
             w == [v EXCEPT !.ext = v.ext - (qty - own)]
  <2>1. p = IF o \in Buys THEN u ELSE w
    BY Zenon DEF Parts
  <2>2. own \in Int
    BY <1>0
  <2> HIDE DEF own
  <2>3. /\ IsHoldings(u) /\ u.bot \in Int /\ u.ext \in Int /\ u.snapshot = b.snapshot
        /\ u.authorized = b.authorized /\ u.source = b.source
    BY <1>0 DEF IsHoldings
  <2>4. /\ IsHoldings(v) /\ v.bot \in Int /\ v.ext = b.ext /\ v.snapshot = b.snapshot
        /\ v.authorized = b.authorized /\ v.source = b.source
    BY <1>0, <2>2 DEF IsHoldings
  <2> HIDE DEF v
  <2>5. /\ IsHoldings(w) /\ w.bot \in Int /\ w.ext \in Int /\ w.snapshot = b.snapshot
        /\ w.authorized = b.authorized /\ w.source = b.source
    BY <1>0, <2>2, <2>4 DEF IsHoldings
  <2> QED
    BY <2>1, <2>3, <2>5
<1>2. f = [q EXCEPT !.source = src]
  BY Zenon DEF Filled
<1> HIDE DEF p
<1>3. /\ IsHoldings(q) /\ q.money = m /\ q.bot = p.bot /\ q.ext = p.ext
      /\ q.snapshot = p.snapshot /\ q.authorized = p.authorized
  BY <1>1 DEF IsHoldings
<1> HIDE DEF q
<1>4. src \in {"BOT", "EXTERNAL_AUTHORIZED", "none"}
  BY <1>0, <1>1, HoldingsType
<1> HIDE DEF src, f
<1>5. /\ IsHoldings(f) /\ f.money = m /\ f.bot = p.bot /\ f.ext = p.ext
      /\ f.snapshot = p.snapshot /\ f.authorized = p.authorized /\ f.source = src
  BY <1>2, <1>3 DEF IsHoldings
<1>6. m \in Book /\ b.authorized \in BOOLEAN
  BY <1>0, HoldingsType DEF AddsUp
<1>7. f \in Holdings
  BY <1>0, <1>1, <1>4, <1>5, <1>6, HoldingsType
<1>8. Writable(f)
  BY DEF f
<1>9. Healthy(f)
  BY <1>0, <1>1, <1>5, <1>7, <1>8, HealthyBook
<1> QED
  BY <1>5, <1>9 DEF f

\* Adoption gives the book more cash, and nothing else.
LEMMA AdoptHealthy ==
    ASSUME NEW b, Healthy(b), NEW amount \in Int, amount >= 0
    PROVE  LET a == AdoptExternalCash(b, amount) IN
           /\ Healthy(a)
           /\ a.money.cash = b.money.cash + amount /\ a.money.pos = b.money.pos
           /\ a.money.applied = b.money.applied /\ a.money.attested = b.money.attested
<1> DEFINE m == [b.money EXCEPT !.cash = b.money.cash + amount]
<1>0. AddsUp(b.money) /\ Bounded(b.money) /\ IsHoldings(b)
  BY HealthyFacts
<1>1. /\ IsBook(b.money) /\ b.money.cash \in Int /\ b.money.pos \in Int
      /\ b.money.reserved \in Int /\ b.money.resv \in Resv
      /\ b.money.applied \subseteq Exec /\ b.money.attested \subseteq Order
  BY <1>0, BookType DEF AddsUp
<1>2. /\ IsBook(m) /\ m.cash = b.money.cash + amount /\ m.pos = b.money.pos
      /\ m.reserved = b.money.reserved /\ m.resv = b.money.resv
      /\ m.applied = b.money.applied /\ m.attested = b.money.attested
  BY <1>1 DEF IsBook
<1>3. AdoptExternalCash(b, amount) = [b EXCEPT !.money = m]
  BY Zenon DEF AdoptExternalCash
<1> HIDE DEF m
<1>4. m \in Book
  BY <1>1, <1>2, BookType
<1>5. Actives(m) = Actives(b.money) /\ \A S : Left(m, S) = Left(b.money, S)
  BY <1>2 DEF Actives, Active, Left
<1>6. m.reserved <= m.cash
  BY <1>0, <1>1, <1>2 DEF AddsUp
<1>7. AddsUp(m)
  BY <1>0, <1>2, <1>4, <1>5, <1>6 DEF AddsUp, Active
<1>8. Bounded(m)
  BY <1>0, <1>2 DEF Bounded
<1> QED
  BY <1>2, <1>3, <1>7, <1>8, MoneyHealthy

\* Onboarding adds the declared quantity to the position, and takes no cash.
LEMMA OnboardHealthy ==
    ASSUME NEW b, Healthy(b), NEW q \in Int, q > 0,
           Writable(AuthorizeExternal(WithExternalSnapshot(b, q)))
    PROVE  LET a == AuthorizeExternal(WithExternalSnapshot(b, q)) IN
           /\ Healthy(a)
           /\ a.money.cash = b.money.cash /\ a.money.pos = b.money.pos + q
           /\ a.money.applied = b.money.applied /\ a.money.attested = b.money.attested
<1> DEFINE s == WithExternalSnapshot(b, q)
           m == [b.money EXCEPT !.pos = b.money.pos + q]
           src == IF b.money.pos = 0 THEN "EXTERNAL_AUTHORIZED" ELSE b.source
           t1 == [s EXCEPT !.money = m]
           t2 == [t1 EXCEPT !.ext = b.ext + q]
           t3 == [t2 EXCEPT !.snapshot = 0]
           yes == TRUE
           t4 == [t3 EXCEPT !.authorized = yes]
           a == AuthorizeExternal(s)
<1>0. /\ IsHoldings(b) /\ b \in Holdings /\ AddsUp(b.money) /\ Bounded(b.money)
      /\ b.bot \in Int /\ b.ext \in Int /\ b.money.pos \in Int /\ b.money.pos >= 0
  BY HealthyFacts, BookType DEF AddsUp
<1>1. /\ IsBook(b.money) /\ b.money.cash \in Int
      /\ b.money.reserved \in Int /\ b.money.resv \in Resv
      /\ b.money.applied \subseteq Exec /\ b.money.attested \subseteq Order
  BY <1>0, BookType DEF AddsUp
<1>2. /\ IsBook(m) /\ m.cash = b.money.cash /\ m.pos = b.money.pos + q
      /\ m.reserved = b.money.reserved /\ m.resv = b.money.resv
      /\ m.applied = b.money.applied /\ m.attested = b.money.attested
  BY <1>1 DEF IsBook
<1>3. /\ IsHoldings(s) /\ s.money = b.money /\ s.bot = b.bot /\ s.ext = b.ext
      /\ s.snapshot = q /\ s.authorized = b.authorized /\ s.source = b.source
  BY <1>0 DEF IsHoldings, WithExternalSnapshot
<1> HIDE DEF s
<1>4. a = [t4 EXCEPT !.source = src]
  <2>1. s.snapshot # 0
    BY <1>3
  <2>2. a = [s EXCEPT !.money.pos = @ + s.snapshot, !.ext = @ + s.snapshot, !.snapshot = 0,
                      !.authorized = TRUE,
                      !.source = IF s.money.pos = 0 THEN "EXTERNAL_AUTHORIZED" ELSE @]
    BY <2>1, Zenon DEF AuthorizeExternal
  <2>3. [s EXCEPT !.money.pos = @ + s.snapshot] = t1
    BY <1>3
  <2> HIDE DEF a
  <2> QED
    BY <1>3, <2>2, <2>3 DEF IsHoldings
<1> HIDE DEF m, src
<1>5. /\ IsHoldings(t4) /\ t4.money = m /\ t4.bot = b.bot /\ t4.ext = b.ext + q
      /\ t4.snapshot = 0 /\ t4.authorized \in BOOLEAN
  <2>1. /\ IsHoldings(t1) /\ t1.money = m /\ t1.bot = b.bot /\ t1.ext = b.ext
        /\ t1.snapshot = q /\ t1.source = b.source
    BY <1>3 DEF IsHoldings
  <2> HIDE DEF t1
  <2>2. /\ IsHoldings(t2) /\ t2.money = m /\ t2.bot = b.bot /\ t2.ext = b.ext + q
        /\ t2.source = b.source
    BY <2>1 DEF IsHoldings
  <2> HIDE DEF t2
  <2>3. /\ IsHoldings(t3) /\ t3.money = m /\ t3.bot = b.bot /\ t3.ext = b.ext + q
        /\ t3.snapshot = 0 /\ t3.source = b.source
    BY <2>2 DEF IsHoldings
  <2> HIDE DEF t3
  <2>4. yes \in BOOLEAN
    BY Zenon
  <2> HIDE DEF yes
  <2> QED
    BY <2>3, <2>4 DEF IsHoldings
<1> HIDE DEF t4
<1>6. /\ IsHoldings(a) /\ a.money = m /\ a.bot = b.bot /\ a.ext = b.ext + q
      /\ a.snapshot = 0 /\ a.authorized \in BOOLEAN /\ a.source = src
  <2> HIDE DEF a
  <2> QED
    BY <1>4, <1>5 DEF IsHoldings
<1>7. src \in {"BOT", "EXTERNAL_AUTHORIZED", "none"}
  BY <1>0, HoldingsType DEF src
<1>8. m \in Book
  BY <1>0, <1>1, <1>2, BookType
<1>9. AddsUp(m)
  <2>1. Actives(m) = Actives(b.money) /\ \A S : Left(m, S) = Left(b.money, S)
    BY <1>2 DEF Actives, Active, Left
  <2> QED
    BY <1>0, <1>2, <1>8, <2>1 DEF AddsUp, Active
<1>10. Bounded(m)
  BY <1>0, <1>2 DEF Bounded
<1>11. Writable(a)
  BY DEF s
<1> HIDE DEF a
<1>12. a \in Holdings
  BY <1>0, <1>6, <1>7, <1>8, HoldingsType
<1>13. Healthy(a)
  BY <1>0, <1>2, <1>6, <1>9, <1>10, <1>11, <1>12, HealthyBook
<1> QED
  BY <1>2, <1>6, <1>13 DEF a, s

----------------------------------------------------------------------------
(* Every document holds a healthy book *)

\* Reading a document of version 1 settles whose the position is, and nothing else.
LEMMA OwnedFields ==
    ASSUME NEW d \in Document
    PROVE  /\ Owned(d) \in Holdings
           /\ Owned(d).money = d.book.money /\ Owned(d).snapshot = d.book.snapshot
           /\ ~d.split => Owned(d).bot + Owned(d).ext = d.book.money.pos
<1> DEFINE b == d.book
           x == IF b.source = "BOT" THEN b.money.pos ELSE 0
           y == IF b.source = "BOT" THEN 0 ELSE b.money.pos
           u == [b EXCEPT !.bot = x]
           v == [u EXCEPT !.ext = y]
<1>1. b \in Holdings
  BY DEF Document
<1>2. Owned(d) = IF d.split THEN b ELSE v
  BY Zenon DEF Owned
<1> HIDE DEF b
<1>3. IsHoldings(b) /\ b.money \in Book /\ b.money.pos \in Int
  BY <1>1, HoldingsType, BookType
<1>4. x \in Int /\ y \in Int /\ x + y = b.money.pos
  BY <1>3
<1> HIDE DEF x, y
<1>5. /\ IsHoldings(u) /\ u.money = b.money /\ u.bot = x /\ u.ext = b.ext
      /\ u.snapshot = b.snapshot /\ u.authorized = b.authorized /\ u.source = b.source
  BY <1>3 DEF IsHoldings
<1> HIDE DEF u
<1>6. /\ IsHoldings(v) /\ v.money = b.money /\ v.bot = x /\ v.ext = y
      /\ v.snapshot = b.snapshot /\ v.authorized = b.authorized /\ v.source = b.source
  BY <1>5 DEF IsHoldings
<1> HIDE DEF v
<1>7. v \in Holdings
  BY <1>1, <1>4, <1>6, HoldingsType
<1>8. CASE d.split
  BY <1>1, <1>2, <1>8 DEF b
<1>9. CASE ~d.split
  <2>1. Owned(d) = v
    BY <1>2, <1>9
  <2> QED
    BY <1>4, <1>6, <1>7, <2>1 DEF b
<1> QED
  BY <1>8, <1>9

\* What is written is read back.
LEMMA WrittenFields ==
    ASSUME NEW b \in Holdings
    PROVE  /\ Written(b) \in Document
           /\ Written(b).split /\ Written(b).book = b
           /\ Owned(Written(b)) = b
<1>1. Written(b).split /\ Written(b).book = b /\ Written(b).ver = 2
  BY Zenon DEF Written
<1>2. Written(b) \in Document
  BY DEF Written, Document
<1>3. Owned(Written(b)) = b
  BY <1>1, Zenon DEF Owned
<1> QED
  BY <1>1, <1>2, <1>3

\* A document that loads gives the book it holds.
LEMMA LoadIsOwned ==
    ASSUME NEW d, Load(d) # Refused PROVE Load(d) = Owned(d)
  BY DEF Load

\* A new book has neither reservations nor executions.
LEMMA NewBookFacts ==
    ASSUME NEW q \in Nat, NEW s \in {"BOT", "EXTERNAL_AUTHORIZED", "none"}
    PROVE  LET b == NewBook(q, s) IN
           /\ b \in Holdings
           /\ AddsUp(b.money) /\ Bounded(b.money)
           /\ b.money.cash = ManagedCash0 /\ b.money.pos = q
           /\ b.money.applied = {} /\ b.money.attested = {}
           /\ b.bot = 0 /\ b.ext = 0 /\ b.snapshot = 0
<1> DEFINE m == EmptyBook(ManagedCash0, q)
           no == FALSE
<1>1. AddsUp(m)
  BY EmptyAddsUp, FundsAssumption
<1>2. /\ m.cash = ManagedCash0 /\ m.pos = q /\ m.applied = {} /\ m.attested = {}
      /\ \A o \in Order : m.resv[o].left = 0
  BY DEF EmptyBook
<1>3. Bounded(m)
  <2>1. \A o \in Buys : o \in Order /\ Reserve[o] \in Nat
    BY PortfolioAssumption
  <2> HIDE DEF m
  <2> QED
    BY <1>2, <2>1 DEF Bounded
<1> HIDE DEF m
<1>4. m \in Book
  BY <1>1 DEF AddsUp
<1>5. NewBook(q, s) = [money |-> m, bot |-> 0, ext |-> 0, snapshot |-> 0,
                       authorized |-> no, source |-> s]
  BY Zenon DEF NewBook, m
<1>6. no \in BOOLEAN
  BY Zenon
<1> HIDE DEF no
<1> QED
  BY <1>1, <1>2, <1>3, <1>4, <1>5, <1>6 DEF Holdings

\* The first document, of either version.
LEMMA FirstDocument ==
    ASSUME NEW d \in FirstDocuments
    PROVE  /\ d \in Document /\ (d.ver = 2 => d.split)
           /\ Healthy(Owned(d))
           /\ d.book.money.cash = ManagedCash0 /\ d.book.money.pos \in Nat
           /\ d.book.money.applied = {} /\ d.book.money.attested = {}
<1>0. 0 \in Nat /\ LegacyBase \in Nat
  BY FundsAssumption
<1>1. CASE d = Written(NewBook(0, "none"))
  <2> DEFINE b == NewBook(0, "none")
  <2>1. /\ b \in Holdings /\ AddsUp(b.money) /\ Bounded(b.money)
        /\ b.money.cash = ManagedCash0 /\ b.money.pos = 0
        /\ b.money.applied = {} /\ b.money.attested = {}
        /\ b.bot = 0 /\ b.ext = 0 /\ b.snapshot = 0
    BY <1>0, NewBookFacts
  <2> HIDE DEF b
  <2>2. d \in Document /\ d.split /\ d.book = b /\ Owned(d) = b
    BY <1>1, <2>1, WrittenFields DEF b
  <2>3. Writable(b)
    BY <2>1, ReservationsSound DEF Writable
  <2> QED
    BY <2>1, <2>2, <2>3, HealthyBook
<1>2. CASE d # Written(NewBook(0, "none"))
  <2> DEFINE no == FALSE
  <2>1. PICK s \in {"BOT", "EXTERNAL_AUTHORIZED", "none"} :
            d = [ver |-> 1, book |-> NewBook(LegacyBase, s), split |-> no]
    BY <1>2, Zenon DEF FirstDocuments
  <2> DEFINE b == NewBook(LegacyBase, s)
  <2>2. /\ b \in Holdings /\ AddsUp(b.money) /\ Bounded(b.money)
        /\ b.money.cash = ManagedCash0 /\ b.money.pos = LegacyBase
        /\ b.money.applied = {} /\ b.money.attested = {}
        /\ b.bot = 0 /\ b.ext = 0 /\ b.snapshot = 0
    BY <1>0, NewBookFacts
  <2>3. no \in BOOLEAN
    BY Zenon
  <2>4. ~d.split
    BY <2>1, Zenon
  <2> HIDE DEF b, no
  <2>5. d \in Document /\ d.ver = 1 /\ d.book = b
    <3>1. d = [ver |-> 1, book |-> b, split |-> no]
      BY <2>1 DEF b
    <3> QED
      BY <2>2, <2>3, <3>1 DEF Document
  <2>6. /\ Owned(d) \in Holdings /\ Owned(d).money = b.money /\ Owned(d).snapshot = 0
        /\ Owned(d).bot + Owned(d).ext = b.money.pos
    BY <2>2, <2>4, <2>5, OwnedFields
  <2>7. Writable(Owned(d))
    BY <2>2, <2>6, ReservationsSound DEF Writable
  <2>8. Healthy(Owned(d))
    BY <1>0, <2>2, <2>6, <2>7, HealthyBook
  <2> QED
    BY <1>0, <2>2, <2>5, <2>8
<1> QED
  BY <1>1, <1>2

\* The balances the commands read are integers.
LEMMA AvailableInt ==
    ASSUME FundsTypeOK
    PROVE  AvailableQuote \in Int /\ AvailableBase \in Int
<1> DEFINE f == [o \in Buys |-> Reserve[o] - TotalCost(Done(o))]
           g == [o \in Order |-> TotalQty(ExecsOf(o) \ happened)]
           S == {o \in Buys : order[o] = "open"}
           T == {o \in Order \ Buys : order[o] = "open"}
<1>1. \A o \in Buys : f[o] \in Int
  <2>1. \A o \in Buys : TotalCost(Done(o)) \in Nat
    BY TotalsType DEF FundsTypeOK, Done
  <2> QED
    BY <2>1, PortfolioAssumption
<1>2. \A o \in Order : g[o] \in Int
  <2>1. \A o \in Order : TotalQty(ExecsOf(o) \ happened) \in Nat
    BY TotalsType DEF ExecsOf
  <2> QED
    BY <2>1
<1>3. IsFiniteSet(S) /\ IsFiniteSet(T) /\ S \subseteq Buys /\ T \subseteq Order
  BY PortfolioAssumption, FS_Subset
<1>4. HeldQuote = SumFunctionOnSet(f, S) /\ HeldBase = SumFunctionOnSet(g, T)
  BY Zenon DEF HeldQuote, HeldBase
<1> HIDE DEF f, g, S, T
<1>5. SumFunctionOnSet(f, S) \in Int /\ SumFunctionOnSet(g, T) \in Int
  BY <1>1, <1>2, <1>3, SumInt
<1> QED
  BY <1>4, <1>5 DEF AvailableQuote, AvailableBase, FundsTypeOK

LEMMA FundsHealthyInit == ASSUME FundsInit PROVE FundsHealthy
<1>1. /\ doc \in Document /\ (doc.ver = 2 => doc.split) /\ Healthy(Owned(doc))
      /\ doc.book.money.pos \in Nat
  BY FirstDocument DEF FundsInit
<1>2. run \in [Command -> Copy]
  BY DEF FundsInit, Idle, Copy
<1>3. account \in [quote : Int, base : Int]
  BY <1>1, FundsAssumption DEF FundsInit
<1>4. FundsTypeOK
  BY <1>1, <1>2, <1>3, FundsAssumption DEF FundsTypeOK, FundsInit
<1>5. \A c \in Command : run[c].at = "idle"
  BY DEF FundsInit, Idle
<1> QED
  BY <1>1, <1>4, <1>5 DEF FundsHealthy

DocHealthy == doc \in Document /\ (doc.ver = 2 => doc.split) /\ Healthy(Owned(doc))

\* The book on disk has the same balances and marks as before.
SameMoney ==
    /\ doc'.book.money.cash = doc.book.money.cash
    /\ doc'.book.money.pos = doc.book.money.pos
    /\ doc'.book.money.applied = doc.book.money.applied
    /\ doc'.book.money.attested = doc.book.money.attested

LEMMA SaveBook ==
    ASSUME NEW n, Healthy(n), doc' = Written(n)
    PROVE  DocHealthy' /\ doc'.book = n /\ Owned(doc)' = n
<1>1. n \in Holdings
  BY HealthyFacts
<1>2. doc' \in Document /\ doc'.split /\ doc'.book = n /\ Owned(doc') = n
  BY <1>1, WrittenFields
<1> QED
  BY <1>2 DEF DocHealthy

LEMMA LoadedBook ==
    ASSUME FundsHealthy, Load(doc) # Refused
    PROVE  /\ Load(doc) = Owned(doc) /\ Healthy(Load(doc))
           /\ Load(doc).money = doc.book.money
  BY LoadIsOwned, OwnedFields DEF FundsHealthy, FundsTypeOK

\* What each save leaves on disk.
LEMMA SubmitBuySaves ==
    ASSUME FundsHealthy, NEW o \in Order, SubmitBuy(o)
    PROVE  DocHealthy' /\ SameMoney
<1> DEFINE b == Load(doc)
           r == ReserveOrder(b.money, o)
           x == ReleaseOrders(r, {o})
<1>0. o \in Buys /\ b # Refused /\ CanReserve(b.money, o) /\ (Update(b, r) \/ Update(b, x))
  BY DEF SubmitBuy, Free
<1>1. Healthy(b) /\ b.money = doc.book.money
  BY <1>0, LoadedBook
<1>2. AddsUp(b.money) /\ Bounded(b.money)
  BY <1>1, HealthyFacts
<1>3. /\ AddsUp(r) /\ Bounded(r) /\ r.cash = b.money.cash /\ r.pos = b.money.pos
      /\ r.applied = b.money.applied /\ r.attested = b.money.attested
  BY <1>0, <1>2, ReserveHealthy
<1>4. /\ AddsUp(x) /\ Bounded(x) /\ x.cash = r.cash /\ x.pos = r.pos
      /\ x.applied = r.applied /\ x.attested = r.attested
  <2>1. {o} \in SUBSET Order
    OBVIOUS
  <2> HIDE DEF r
  <2> QED
    BY <1>3, <2>1, ReleaseHealthy
<1> HIDE DEF b, r, x
<1>5. ASSUME NEW m, AddsUp(m), Bounded(m), m.pos = b.money.pos, m.cash = b.money.cash,
             m.applied = b.money.applied, m.attested = b.money.attested, Update(b, m)
      PROVE  DocHealthy' /\ SameMoney
  <2> DEFINE n == [b EXCEPT !.money = m]
  <2>1. Healthy(n) /\ n.money = m
    BY <1>1, <1>5, MoneyHealthy
  <2>2. doc' = Written(n)
    BY <1>5 DEF Update
  <2> HIDE DEF n
  <2> QED
    BY <1>1, <1>5, <2>1, <2>2, SaveBook DEF SameMoney
<1> QED
  BY <1>0, <1>3, <1>4, <1>5

LEMMA ReleaseSaves ==
    ASSUME FundsHealthy, NEW o \in Order, Release(o)
    PROVE  DocHealthy' /\ SameMoney
<1> DEFINE b == Load(doc)
           x == ReleaseOrders(b.money, {o})
           n == [b EXCEPT !.money = x]
<1>0. b # Refused /\ Update(b, x)
  BY DEF Release
<1>1. Healthy(b) /\ b.money = doc.book.money
  BY <1>0, LoadedBook
<1>2. AddsUp(b.money) /\ Bounded(b.money)
  BY <1>1, HealthyFacts
<1>3. /\ AddsUp(x) /\ Bounded(x) /\ x.cash = b.money.cash /\ x.pos = b.money.pos
      /\ x.applied = b.money.applied /\ x.attested = b.money.attested
  <2>1. {o} \in SUBSET Order
    OBVIOUS
  <2> QED
    BY <1>2, <2>1, ReleaseHealthy
<1>4. doc' = Written(n)
  BY <1>0 DEF Update
<1> HIDE DEF b, x
<1>5. Healthy(n) /\ n.money = x
  BY <1>1, <1>3, MoneyHealthy
<1> HIDE DEF n
<1> QED
  BY <1>1, <1>3, <1>4, <1>5, SaveBook DEF SameMoney

LEMMA AccountSaves ==
    ASSUME FundsHealthy, NEW e \in Exec, Account(e)
    PROVE  LET m == doc.book.money
               n == doc'.book.money
           IN
           /\ DocHealthy'
           /\ e \in happened /\ OrderOf[e] \notin m.attested /\ e \notin m.applied
           /\ n.cash = IF IsBuy(e) THEN m.cash - Cost[e] ELSE m.cash + Cost[e]
           /\ n.pos = IF IsBuy(e) THEN m.pos + Qty[e] ELSE m.pos - Qty[e]
           /\ n.applied = m.applied \cup {e} /\ n.attested = m.attested
<1> DEFINE b == Load(doc)
           o == OrderOf[e]
           a == ApplyLiveFill(b.money, e)
           f == Filled(b, o, Qty[e], a)
<1>0. /\ b # Refused /\ e \in happened /\ o \notin b.money.attested
      /\ CanApplyLiveFill(b.money, e) /\ Writable(f) /\ doc' = Written(f)
  BY DEF Account
<1>1. Healthy(b) /\ b.money = doc.book.money
  BY <1>0, LoadedBook
<1>2. AddsUp(b.money) /\ Bounded(b.money) /\ b.money.pos >= 0
  BY <1>1, HealthyFacts
<1>3. /\ AddsUp(a) /\ Bounded(a) /\ a.pos >= 0
      /\ a.cash = IF IsBuy(e) THEN b.money.cash - Cost[e] ELSE b.money.cash + Cost[e]
      /\ a.pos = IF IsBuy(e) THEN b.money.pos + Qty[e] ELSE b.money.pos - Qty[e]
      /\ a.applied = b.money.applied \cup {e} /\ a.attested = b.money.attested
  BY <1>0, <1>2, ApplyHealthy
<1>4. o \in Order /\ Qty[e] \in Nat /\ e \notin b.money.applied
  BY <1>0, PortfolioAssumption DEF CanApplyLiveFill
<1> HIDE DEF b, a
<1>5. Healthy(f) /\ f.money = a
  <2> HIDE DEF o
  <2> QED
    BY <1>0, <1>1, <1>3, <1>4, FilledHealthy
<1> HIDE DEF f
<1>6. DocHealthy' /\ doc'.book.money = a
  BY <1>0, <1>5, SaveBook
<1> QED
  BY <1>0, <1>1, <1>3, <1>4, <1>6

LEMMA AttestSaves ==
    ASSUME FundsHealthy, NEW o \in Order, AttestFilled(o)
    PROVE  LET m == doc.book.money
               n == doc'.book.money
               cost == TotalCost(ExecsOf(o))
               qty == TotalQty(ExecsOf(o))
           IN
           /\ DocHealthy'
           /\ order[o] = "closed" /\ ExecsOf(o) \subseteq happened /\ o \notin m.attested
           /\ m.applied \cap ExecsOf(o) = {}
           /\ n.cash = IF o \in Buys THEN m.cash - cost ELSE m.cash + cost
           /\ n.pos = IF o \in Buys THEN m.pos + qty ELSE m.pos - qty
           /\ n.applied = m.applied /\ n.attested = m.attested \cup {o}
<1> DEFINE b == Load(doc)
           cost == TotalCost(ExecsOf(o))
           qty == TotalQty(ExecsOf(o))
           a == SettleAttested(b.money, o)
           f == Filled(b, o, qty, a)
<1>0. /\ b # Refused /\ order[o] = "closed" /\ ExecsOf(o) \subseteq happened
      /\ o \notin b.money.attested /\ CanSettle(b.money, o)
      /\ Writable(f) /\ doc' = Written(f)
  BY DEF AttestFilled
<1>1. Healthy(b) /\ b.money = doc.book.money
  BY <1>0, LoadedBook
<1>2. AddsUp(b.money) /\ Bounded(b.money) /\ b.money.pos >= 0
  BY <1>1, HealthyFacts
<1>3. /\ AddsUp(a) /\ Bounded(a) /\ a.pos >= 0
      /\ a.cash = IF o \in Buys THEN b.money.cash - cost ELSE b.money.cash + cost
      /\ a.pos = IF o \in Buys THEN b.money.pos + qty ELSE b.money.pos - qty
      /\ a.applied = b.money.applied /\ a.attested = b.money.attested \cup {o}
  BY <1>0, <1>2, SettleHealthy
<1>4. qty \in Nat /\ b.money.applied \cap ExecsOf(o) = {}
  BY <1>0, TotalsType DEF CanSettle, ExecsOf
<1> HIDE DEF b, a, cost, qty
<1>5. Healthy(f) /\ f.money = a
  BY <1>0, <1>1, <1>3, <1>4, FilledHealthy
<1> HIDE DEF f
<1>6. DocHealthy' /\ doc'.book.money = a
  BY <1>0, <1>5, SaveBook
<1> QED
  BY <1>0, <1>1, <1>3, <1>4, <1>6 DEF cost, qty

LEMMA AdoptSaves ==
    ASSUME FundsHealthy, NEW c \in Command, Adopt(c)
    PROVE  LET m == run[c].book.money
               n == doc'.book.money
           IN
           /\ DocHealthy'
           /\ run[c].at = "verified" /\ run[c].amount \in Int /\ run[c].amount > 0
           /\ n.cash = m.cash + run[c].amount /\ n.pos = m.pos
           /\ n.applied = m.applied /\ n.attested = m.attested
<1> DEFINE b == run[c].book
           x == run[c].amount
           n == AdoptExternalCash(b, x)
<1>0. /\ run[c].at = "verified" /\ run[c].op = "adopt"
      /\ doc' = Written(n)
  BY DEF Adopt, Save
<1>1. Healthy(b) /\ x > 0
  BY <1>0 DEF FundsHealthy
<1>2. x \in Int
  <2>1. run[c] \in Copy
    BY DEF FundsHealthy, FundsTypeOK
  <2> QED
    BY <2>1 DEF Copy
<1> HIDE DEF b, x
<1>3. /\ Healthy(n)
      /\ n.money.cash = b.money.cash + x /\ n.money.pos = b.money.pos
      /\ n.money.applied = b.money.applied /\ n.money.attested = b.money.attested
  BY <1>1, <1>2, AdoptHealthy
<1> HIDE DEF n
<1>4. DocHealthy' /\ doc'.book = n
  BY <1>0, <1>3, SaveBook
<1> QED
  BY <1>0, <1>1, <1>2, <1>3, <1>4 DEF b, x

LEMMA OnboardSaves ==
    ASSUME FundsHealthy, NEW c \in Command, Onboard(c)
    PROVE  LET m == run[c].book.money
               n == doc'.book.money
           IN
           /\ DocHealthy'
           /\ run[c].at = "verified" /\ run[c].amount \in Int /\ run[c].amount > 0
           /\ n.cash = m.cash /\ n.pos = m.pos + run[c].amount
           /\ n.applied = m.applied /\ n.attested = m.attested
<1> DEFINE b == run[c].book
           x == run[c].amount
           n == AuthorizeExternal(WithExternalSnapshot(b, x))
<1>0. /\ run[c].at = "verified" /\ run[c].op = "onboard"
      /\ Writable(n) /\ doc' = Written(n)
  BY DEF Onboard, Save
<1>1. Healthy(b) /\ x > 0
  BY <1>0 DEF FundsHealthy
<1>2. x \in Int
  <2>1. run[c] \in Copy
    BY DEF FundsHealthy, FundsTypeOK
  <2> QED
    BY <2>1 DEF Copy
<1> HIDE DEF b, x
<1>3. /\ Healthy(n)
      /\ n.money.cash = b.money.cash /\ n.money.pos = b.money.pos + x
      /\ n.money.applied = b.money.applied /\ n.money.attested = b.money.attested
  BY <1>0, <1>1, <1>2, OnboardHealthy
<1> HIDE DEF n
<1>4. DocHealthy' /\ doc'.book = n
  BY <1>0, <1>3, SaveBook
<1> QED
  BY <1>0, <1>1, <1>2, <1>3, <1>4 DEF b, x

\* What a command remembers of its start and of its question.
LEMMA BeginHealthy ==
    ASSUME FundsHealthy, NEW c \in Command, NEW op \in {"adopt", "onboard"},
           Load(doc) # Refused, Begin(c, op)
    PROVE  /\ run' \in [Command -> Copy]
           /\ run' = [run EXCEPT ![c] = run'[c]]
           /\ run'[c].at = "loaded" /\ run'[c].book = Owned(doc)
<1> DEFINE b == Load(doc)
           i1 == [Idle EXCEPT !.at = "loaded"]
           i2 == [i1 EXCEPT !.op = op]
           r == [i2 EXCEPT !.book = b]
<1>1. b \in Holdings /\ b = Owned(doc)
  BY LoadedBook, HealthyFacts
<1>2. run' = [run EXCEPT ![c] = r] /\ run \in [Command -> Copy]
  BY DEF Begin, FundsHealthy, FundsTypeOK
<1> HIDE DEF b
<1>3. r = [at |-> "loaded", op |-> op, book |-> b, amount |-> 0]
  <2>1. i1 = [at |-> "loaded", op |-> "none", book |-> None, amount |-> 0]
    BY DEF Idle
  <2> HIDE DEF i1
  <2>2. i2 = [at |-> "loaded", op |-> op, book |-> None, amount |-> 0]
    BY <2>1
  <2> HIDE DEF i2
  <2> QED
    BY <2>2
<1> HIDE DEF r
<1>4. r \in Copy
  BY <1>1, <1>3 DEF Copy
<1> QED
  BY <1>1, <1>2, <1>3, <1>4

LEMMA AskHealthy ==
    ASSUME FundsHealthy, NEW c \in Command, Ask(c)
    PROVE  /\ run' \in [Command -> Copy]
           /\ run' = [run EXCEPT ![c] = run'[c]]
           /\ run[c].at = "loaded"
           /\ run'[c].at = "asked" /\ run'[c].book = run[c].book /\ run'[c].amount > 0
<1> DEFINE x == External(run[c].op, run[c].book)
           s == [run[c] EXCEPT !.at = "asked"]
           r == [s EXCEPT !.amount = x]
<1>1. run \in [Command -> Copy] /\ run[c] \in Copy /\ run[c].at = "loaded" /\ x > 0
  BY DEF Ask, FundsHealthy, FundsTypeOK
<1>2. x \in Int
  <2>1. Healthy(run[c].book)
    BY <1>1 DEF FundsHealthy
  <2>2. run[c].book.money.cash \in Int /\ run[c].book.money.pos \in Int
    BY <2>1, HealthyFacts, BookType
  <2>3. AvailableQuote \in Int /\ AvailableBase \in Int
    BY AvailableInt DEF FundsHealthy
  <2> QED
    BY <2>2, <2>3 DEF External, ExternalCash, ExternalQuantity, Beyond
<1>3. run' = [run EXCEPT ![c].at = "asked", ![c].amount = x]
  BY DEF Ask
<1> HIDE DEF x
<1>4. run' = [run EXCEPT ![c] = r]
  BY <1>1, <1>3
<1>5. r \in Copy /\ r.at = "asked" /\ r.book = run[c].book /\ r.amount = x
  BY <1>1, <1>2 DEF Copy
<1> HIDE DEF r
<1> QED
  BY <1>1, <1>4, <1>5

LEMMA RereadHealthy ==
    ASSUME FundsHealthy, NEW c \in Command, Reread(c)
    PROVE  /\ run' \in [Command -> Copy]
           /\ run' = [run EXCEPT ![c] = run'[c]]
           /\ run[c].at = "asked" /\ run[c].amount > 0 /\ run[c].amount \in Int
           /\ External(run[c].op, run[c].book) = run[c].amount
           /\ run'[c].at = "verified" /\ run'[c].op = run[c].op
           /\ run'[c].book = run[c].book /\ run'[c].amount = run[c].amount
<1> DEFINE r == [run[c] EXCEPT !.at = "verified"]
<1>1. /\ run \in [Command -> Copy] /\ run[c] \in Copy /\ run[c].at = "asked"
      /\ External(run[c].op, run[c].book) = run[c].amount
      /\ run' = [run EXCEPT ![c] = r]
  BY DEF Reread, AsConfirmed, FundsHealthy, FundsTypeOK
<1>2. run[c].amount > 0
  BY <1>1 DEF FundsHealthy
<1>3. /\ r \in Copy /\ r.at = "verified" /\ r.op = run[c].op
      /\ r.book = run[c].book /\ r.amount = run[c].amount /\ run[c].amount \in Int
  BY <1>1 DEF Copy
<1> HIDE DEF r
<1> QED
  BY <1>1, <1>2, <1>3

LEMMA EndHealthy ==
    ASSUME FundsHealthy, NEW c \in Command, End(c)
    PROVE  /\ run' \in [Command -> Copy]
           /\ run' = [run EXCEPT ![c] = run'[c]]
           /\ run'[c].at = "idle"
<1>1. run \in [Command -> Copy] /\ run' = [run EXCEPT ![c] = Idle]
  BY DEF FundsHealthy, FundsTypeOK, End
<1>2. Idle \in Copy /\ Idle.at = "idle"
  BY DEF Idle, Copy
<1> HIDE DEF Idle
<1> QED
  BY <1>1, <1>2

\* The steps of the commands but for the saves.
CommandStep(c) == StartAdopt(c) \/ StartOnboard(c) \/ Ask(c) \/ GiveUp(c) \/ Reread(c)

LEMMA CommandHealthy ==
    ASSUME FundsHealthy, NEW c \in Command, CommandStep(c) \/ Adopt(c) \/ Onboard(c)
    PROVE  /\ run' \in [Command -> Copy]
           /\ \A d \in Command : run'[d].at # "idle" =>
                 Healthy(run'[d].book) /\ (run'[d].at \in {"asked", "verified"} => run'[d].amount > 0)
<1>0. Healthy(Owned(doc))
  BY DEF FundsHealthy
<1>1. CASE StartAdopt(c) \/ StartOnboard(c)
  <2>1. /\ run' \in [Command -> Copy] /\ run' = [run EXCEPT ![c] = run'[c]]
        /\ run'[c].at = "loaded" /\ run'[c].book = Owned(doc)
    BY <1>1, BeginHealthy DEF StartAdopt, StartOnboard
  <2> QED
    BY <1>0, <2>1 DEF FundsHealthy, FundsTypeOK
<1>2. CASE Ask(c)
  <2>1. /\ run' \in [Command -> Copy] /\ run' = [run EXCEPT ![c] = run'[c]]
        /\ run[c].at = "loaded"
        /\ run'[c].at = "asked" /\ run'[c].book = run[c].book /\ run'[c].amount > 0
    BY <1>2, AskHealthy
  <2> QED
    BY <2>1 DEF FundsHealthy, FundsTypeOK
<1>3. CASE GiveUp(c) \/ Adopt(c) \/ Onboard(c)
  <2>1. /\ run' \in [Command -> Copy] /\ run' = [run EXCEPT ![c] = run'[c]]
        /\ run'[c].at = "idle"
    BY <1>3, EndHealthy DEF GiveUp, Adopt, Onboard, Save
  <2> QED
    BY <2>1 DEF FundsHealthy, FundsTypeOK
<1>4. CASE Reread(c)
  <2>1. /\ run' \in [Command -> Copy] /\ run' = [run EXCEPT ![c] = run'[c]]
        /\ run[c].at = "asked" /\ run[c].amount > 0
        /\ run'[c].book = run[c].book /\ run'[c].amount = run[c].amount
    BY <1>4, RereadHealthy
  <2> QED
    BY <2>1 DEF FundsHealthy, FundsTypeOK
<1> QED
  BY <1>1, <1>2, <1>3, <1>4 DEF CommandStep

\* The rest of the state: what the exchange and the owner do.
ExchangeTypeOK ==
    /\ account \in [quote : Int, base : Int]
    /\ order \in [Order -> {"none", "open", "closed"}]
    /\ happened \subseteq Exec
    /\ deposits \in 0 .. MaxDeposits

LEMMA ExchangeTypeStep == ASSUME FundsHealthy, FundsNext PROVE ExchangeTypeOK'
<1>0. ExchangeTypeOK
  BY DEF FundsHealthy, FundsTypeOK, ExchangeTypeOK
<1>1. ASSUME NEW c \in Command, CommandStep(c) \/ Adopt(c) \/ Onboard(c) PROVE ExchangeTypeOK'
  BY <1>0, <1>1
  DEF ExchangeTypeOK, CommandStep, StartAdopt, StartOnboard, Ask, GiveUp, Reread, Adopt, Onboard, Save
<1>2. ASSUME NEW o \in Order, SubmitBuy(o) \/ SubmitSell(o) \/ Close(o) PROVE ExchangeTypeOK'
  <2>1. order' \in [Order -> {"none", "open", "closed"}]
    <3>1. \E x \in {"open", "closed"} : order' = [order EXCEPT ![o] = x]
      BY <1>2, Zenon DEF SubmitBuy, SubmitSell, Close
    <3> QED
      BY <1>0, <3>1 DEF ExchangeTypeOK
  <2> QED
    BY <1>0, <1>2, <2>1 DEF ExchangeTypeOK, SubmitBuy, SubmitSell, Close
<1>3. ASSUME NEW o \in Order, Release(o) \/ AttestFilled(o) PROVE ExchangeTypeOK'
  BY <1>0, <1>3 DEF ExchangeTypeOK, Release, AttestFilled
<1>4. ASSUME NEW e \in Exec, Account(e) PROVE ExchangeTypeOK'
  BY <1>0, <1>4 DEF ExchangeTypeOK, Account
<1>5. ASSUME NEW e \in Exec, Trade(e) PROVE ExchangeTypeOK'
  <2>1. Cost[e] \in Int /\ Qty[e] \in Int
    BY PortfolioAssumption
  <2> QED
    BY <1>0, <1>5, <2>1 DEF ExchangeTypeOK, Trade
<1>6. ASSUME Deposit PROVE ExchangeTypeOK'
  BY <1>0, <1>6, FundsAssumption DEF ExchangeTypeOK, Deposit
<1>7. ASSUME Withdraw PROVE ExchangeTypeOK'
  BY <1>0, <1>7 DEF ExchangeTypeOK, Withdraw
<1> QED
  BY <1>1, <1>2, <1>3, <1>4, <1>5, <1>6, <1>7 DEF FundsNext, CommandStep

\* The two counts of withdrawals stay counts.
HistoryTypeOK == gone \in [Command -> Nat] /\ unseen \in [quote : Nat, base : Nat]

LEMMA HistoryTypeStep == ASSUME FundsHealthy, [FundsNext]_fundsVars PROVE HistoryTypeOK'
<1>0. HistoryTypeOK
  BY DEF FundsHealthy, FundsTypeOK, HistoryTypeOK
<1>1. ASSUME UNCHANGED history PROVE HistoryTypeOK'
  BY <1>0, <1>1 DEF HistoryTypeOK, history
<1>2. ASSUME NEW c \in Command, CommandStep(c) PROVE HistoryTypeOK'
  <2>1. gone' \in [Command -> Nat] /\ unseen' = unseen
    BY <1>0, <1>2 DEF HistoryTypeOK, history,
       CommandStep, StartAdopt, StartOnboard, Ask, GiveUp, Reread
  <2> QED
    BY <1>0, <2>1 DEF HistoryTypeOK
<1>3. ASSUME NEW c \in Command, Adopt(c) \/ Onboard(c) PROVE HistoryTypeOK'
  <2>1. gone' = [gone EXCEPT ![c] = 0] /\ gone[c] \in Nat
    BY <1>0, <1>3 DEF Adopt, Onboard, Save, HistoryTypeOK
  <2>2. \/ unseen' = [unseen EXCEPT !.quote = unseen.quote + gone[c]]
        \/ unseen' = [unseen EXCEPT !.base = unseen.base + gone[c]]
    BY <1>3 DEF Adopt, Onboard
  <2> QED
    BY <1>0, <2>1, <2>2 DEF HistoryTypeOK
<1>4. ASSUME Withdraw PROVE HistoryTypeOK'
  <2>1. ASSUME NEW op, Leaves(op) PROVE gone' \in [Command -> Nat]
    BY <1>0, <2>1 DEF HistoryTypeOK, Leaves
  <2> QED
    BY <1>0, <1>4, <2>1 DEF HistoryTypeOK, Withdraw
<1>5. ASSUME NEW o \in Order,
             SubmitBuy(o) \/ SubmitSell(o) \/ Close(o) \/ Release(o) \/ AttestFilled(o)
      PROVE  UNCHANGED history
  BY <1>5 DEF SubmitBuy, SubmitSell, Close, Release, AttestFilled
<1>6. ASSUME (\E e \in Exec : Trade(e) \/ Account(e)) \/ Deposit PROVE UNCHANGED history
  BY <1>6 DEF Trade, Account, Deposit
<1> QED
  BY <1>1, <1>2, <1>3, <1>4, <1>5, <1>6 DEF FundsNext, CommandStep, fundsVars

LEMMA DocHealthyStep == ASSUME FundsHealthy, FundsNext PROVE DocHealthy'
<1>0. DocHealthy
  BY DEF FundsHealthy, FundsTypeOK, DocHealthy
<1>1. ASSUME doc' = doc PROVE DocHealthy'
  BY <1>0, <1>1 DEF DocHealthy
<1>2. ASSUME NEW c \in Command, CommandStep(c) PROVE doc' = doc
  BY <1>2 DEF CommandStep, StartAdopt, StartOnboard, Ask, GiveUp, Reread
<1>3. ASSUME NEW o \in Order, SubmitSell(o) \/ Close(o) PROVE doc' = doc
  BY <1>3 DEF SubmitSell, Close
<1>4. ASSUME (\E e \in Exec : Trade(e)) \/ Deposit \/ Withdraw PROVE doc' = doc
  BY <1>4 DEF Trade, Deposit, Withdraw
<1> QED
  BY <1>1, <1>2, <1>3, <1>4, SubmitBuySaves, ReleaseSaves, AccountSaves, AttestSaves,
     AdoptSaves, OnboardSaves DEF FundsNext, CommandStep

LEMMA FundsHealthyStep == ASSUME FundsHealthy, [FundsNext]_fundsVars PROVE FundsHealthy'
<1>1. CASE FundsNext
  <2>1. DocHealthy' /\ ExchangeTypeOK'
    BY <1>1, DocHealthyStep, ExchangeTypeStep
  <2>2. /\ run' \in [Command -> Copy]
        /\ \A d \in Command : run'[d].at # "idle" =>
              Healthy(run'[d].book) /\ (run'[d].at \in {"asked", "verified"} => run'[d].amount > 0)
    <3>1. CASE run' = run
      BY <3>1 DEF FundsHealthy, FundsTypeOK
    <3>2. CASE run' # run
      <4>1. PICK c \in Command : CommandStep(c) \/ Adopt(c) \/ Onboard(c)
        BY <1>1, <3>2 DEF FundsNext, CommandStep, SubmitBuy, SubmitSell, Close, Release,
           AttestFilled, Trade, Account, Deposit, Withdraw
      <4> QED
        BY <4>1, CommandHealthy
    <3> QED
      BY <3>1, <3>2
  <2>3. HistoryTypeOK'
    BY <1>1, HistoryTypeStep
  <2> QED
    BY <2>1, <2>2, <2>3 DEF FundsHealthy, FundsTypeOK, DocHealthy, ExchangeTypeOK, HistoryTypeOK
<1>2. CASE UNCHANGED fundsVars
  BY <1>2 DEF FundsHealthy, FundsTypeOK, fundsVars, history, Owned
<1> QED
  BY <1>1, <1>2

\* Every book, on disk or with a command, is one that can be written and read back.
THEOREM FundsStayHealthy == FundsSpec => []FundsHealthy
<1>1. FundsInit => FundsHealthy
  BY FundsHealthyInit
<1>2. FundsHealthy /\ [FundsNext]_fundsVars => FundsHealthy'
  BY FundsHealthyStep
<1> QED
  BY <1>1, <1>2, PTL DEF FundsSpec

\* The saved document, the account and what the two commands hold have their types.
THEOREM FundsTypeCorrect == FundsSpec => []FundsTypeOK
<1>1. FundsHealthy => FundsTypeOK
  BY DEF FundsHealthy
<1> QED
  BY <1>1, FundsStayHealthy, PTL

\* deserializePortfolio accepts every document serializePortfolio wrote: adoptions,
\* onboardings, fills, releases and attestations in any order and interleaving, with
\* the bot quiet or not, never save a book that the next start refuses.
THEOREM EverySavedBookLoads == FundsSpec => []SavedBookLoads
<1>1. FundsHealthy => SavedBookLoads
  <2> SUFFICES ASSUME FundsHealthy, doc.ver = 2 PROVE Load(doc) # Refused
    BY DEF SavedBookLoads
  <2>1. doc.split /\ Sound(Owned(doc)) /\ Owned(doc) \in Holdings
    BY DEF FundsHealthy, Healthy
  <2>2. Load(doc) = Owned(doc)
    BY <2>1 DEF Load, Unowned
  <2> QED
    BY <2>1, <2>2, HoldingsAssumption
<1> QED
  BY <1>1, FundsStayHealthy, PTL

----------------------------------------------------------------------------
(* What the bot manages is in the account *)

\* The executions of the two sides that the book has not got yet.
LEMMA PendingFacts ==
    ASSUME FundsTypeOK
    PROVE  /\ PendingBuys = {e \in happened : /\ IsBuy(e)
                                              /\ OrderOf[e] \notin doc.book.money.attested
                                              /\ e \notin doc.book.money.applied}
           /\ PendingSells = {e \in happened : /\ ~IsBuy(e)
                                               /\ OrderOf[e] \notin doc.book.money.attested
                                               /\ e \notin doc.book.money.applied}
           /\ PendingBuys \subseteq Exec /\ PendingSells \subseteq Exec
  BY DEF PendingBuys, PendingSells, Pending, FundsTypeOK

\* The balances are integers, and so are the owner's parts.
LEMMA BalanceTypes ==
    ASSUME FundsTypeOK
    PROVE  /\ account.quote \in Int /\ account.base \in Int
           /\ doc.book.money.cash \in Int /\ doc.book.money.pos \in Int
           /\ TotalCost(PendingBuys) \in Nat /\ TotalQty(PendingBuys) \in Nat
           /\ TotalCost(PendingSells) \in Nat /\ TotalQty(PendingSells) \in Nat
           /\ OwnersQuote \in Int /\ OwnersBase \in Int
<1>1. account.quote \in Int /\ account.base \in Int
  BY DEF FundsTypeOK
<1>2. doc.book.money.cash \in Int /\ doc.book.money.pos \in Int
  BY HoldingsType, BookType DEF FundsTypeOK, Document
<1>3. /\ TotalCost(PendingBuys) \in Nat /\ TotalQty(PendingBuys) \in Nat
      /\ TotalCost(PendingSells) \in Nat /\ TotalQty(PendingSells) \in Nat
  BY PendingFacts, TotalsType
<1> QED
  BY <1>1, <1>2, <1>3 DEF OwnersQuote, OwnersBase

SameOwners == OwnersQuote' = OwnersQuote /\ OwnersBase' = OwnersBase

\* Steps that neither move money nor account any.
LEMMA StillOwned ==
    ASSUME SameMoney, happened' = happened, account' = account
    PROVE  SameOwners
<1>1. PendingBuys' = PendingBuys /\ PendingSells' = PendingSells
  BY DEF PendingBuys, PendingSells, Pending, SameMoney
<1> QED
  BY <1>1 DEF SameOwners, OwnersQuote, OwnersBase, SameMoney

\* An execution moves the account and becomes pending.
LEMMA TradeKeepsOwners ==
    ASSUME FundsHealthy, FundsHealthy', FundsQuiet, NEW e \in Exec, Trade(e)
    PROVE  SameOwners
<1>0. FundsTypeOK /\ FundsTypeOK'
  BY DEF FundsHealthy
<1>1. /\ order[OrderOf[e]] = "open" /\ e \notin happened /\ happened' = happened \cup {e}
      /\ doc' = doc
      /\ account' = IF IsBuy(e)
                    THEN [quote |-> account.quote - Cost[e], base |-> account.base + Qty[e]]
                    ELSE [quote |-> account.quote + Cost[e], base |-> account.base - Qty[e]]
  BY DEF Trade
<1>2. OrderOf[e] \notin doc.book.money.attested /\ e \notin doc.book.money.applied
  BY <1>1 DEF FundsQuiet
<1>3. Cost[e] \in Nat /\ Qty[e] \in Nat
  BY PortfolioAssumption
<1>4. ASSUME NEW S \in SUBSET Exec, e \notin S
      PROVE  /\ TotalCost(S \cup {e}) = Cost[e] + TotalCost(S)
             /\ TotalQty(S \cup {e}) = Qty[e] + TotalQty(S)
  <2>1. IsFiniteSet(S) /\ (\A y \in S : Cost[y] \in Int) /\ (\A y \in S : Qty[y] \in Int)
    BY TotalsType, PortfolioAssumption
  <2> QED
    BY <1>3, <1>4, <2>1, SumAdd DEF TotalCost, TotalQty
<1>5. e \notin PendingBuys /\ e \notin PendingSells
  BY <1>0, <1>1, PendingFacts
<1>6. CASE IsBuy(e)
  <2>1. PendingBuys' = PendingBuys \cup {e} /\ PendingSells' = PendingSells
    BY <1>1, <1>2, <1>6 DEF PendingBuys, PendingSells, Pending
  <2>2. /\ TotalCost(PendingBuys') = Cost[e] + TotalCost(PendingBuys)
        /\ TotalQty(PendingBuys') = Qty[e] + TotalQty(PendingBuys)
    BY <1>0, <1>4, <1>5, <2>1, PendingFacts
  <2>3. account'.quote = account.quote - Cost[e] /\ account'.base = account.base + Qty[e]
    BY <1>1, <1>6
  <2> QED
    BY <1>0, <1>1, <1>3, <2>1, <2>2, <2>3, BalanceTypes DEF SameOwners, OwnersQuote, OwnersBase
<1>7. CASE ~IsBuy(e)
  <2>1. PendingBuys' = PendingBuys /\ PendingSells' = PendingSells \cup {e}
    BY <1>1, <1>2, <1>7 DEF PendingBuys, PendingSells, Pending
  <2>2. /\ TotalCost(PendingSells') = Cost[e] + TotalCost(PendingSells)
        /\ TotalQty(PendingSells') = Qty[e] + TotalQty(PendingSells)
    BY <1>0, <1>4, <1>5, <2>1, PendingFacts
  <2>3. account'.quote = account.quote + Cost[e] /\ account'.base = account.base - Qty[e]
    BY <1>1, <1>7
  <2> QED
    BY <1>0, <1>1, <1>3, <2>1, <2>2, <2>3, BalanceTypes DEF SameOwners, OwnersQuote, OwnersBase
<1> QED
  BY <1>6, <1>7

\* Executions D of one side that the book gets are no longer pending.
LEMMA GettingKeepsOwners ==
    ASSUME FundsHealthy, happened' = happened, account' = account,
           NEW D \in SUBSET Exec, NEW buy \in BOOLEAN, \A e \in D : IsBuy(e) <=> buy,
           D \subseteq PendingBuys \cup PendingSells,
           doc'.book.money.cash = IF buy THEN doc.book.money.cash - TotalCost(D)
                                         ELSE doc.book.money.cash + TotalCost(D),
           doc'.book.money.pos = IF buy THEN doc.book.money.pos + TotalQty(D)
                                        ELSE doc.book.money.pos - TotalQty(D),
           PendingBuys' = PendingBuys \ D, PendingSells' = PendingSells \ D
    PROVE  SameOwners
<1>0. FundsTypeOK
  BY DEF FundsHealthy
<1>1. TotalCost(D) \in Nat /\ TotalQty(D) \in Nat
  BY TotalsType
<1>2. ASSUME NEW S \in SUBSET Exec, D \subseteq S
      PROVE  /\ TotalCost(S \ D) = TotalCost(S) - TotalCost(D)
             /\ TotalQty(S \ D) = TotalQty(S) - TotalQty(D)
  <2>1. IsFiniteSet(S) /\ (\A y \in S : Cost[y] \in Int) /\ (\A y \in S : Qty[y] \in Int)
    BY TotalsType, PortfolioAssumption
  <2> QED
    BY <1>2, <2>1, SumMinus DEF TotalCost, TotalQty
<1>3. CASE buy
  <2>1. D \subseteq PendingBuys /\ PendingSells \ D = PendingSells
    BY <1>0, <1>3, PendingFacts
  <2>2. /\ TotalCost(PendingBuys \ D) = TotalCost(PendingBuys) - TotalCost(D)
        /\ TotalQty(PendingBuys \ D) = TotalQty(PendingBuys) - TotalQty(D)
    BY <1>0, <1>2, <2>1, PendingFacts
  <2>3. /\ doc'.book.money.cash = doc.book.money.cash - TotalCost(D)
        /\ doc'.book.money.pos = doc.book.money.pos + TotalQty(D)
    BY <1>3
  <2>4. /\ TotalCost(PendingBuys)' = TotalCost(PendingBuys) - TotalCost(D)
        /\ TotalQty(PendingBuys)' = TotalQty(PendingBuys) - TotalQty(D)
        /\ TotalCost(PendingSells)' = TotalCost(PendingSells)
        /\ TotalQty(PendingSells)' = TotalQty(PendingSells)
    BY <2>1, <2>2
  <2> QED
    BY <1>0, <1>1, <2>3, <2>4, BalanceTypes DEF SameOwners, OwnersQuote, OwnersBase
<1>4. CASE ~buy
  <2>1. D \subseteq PendingSells /\ PendingBuys \ D = PendingBuys
    BY <1>0, <1>4, PendingFacts
  <2>2. /\ TotalCost(PendingSells \ D) = TotalCost(PendingSells) - TotalCost(D)
        /\ TotalQty(PendingSells \ D) = TotalQty(PendingSells) - TotalQty(D)
    BY <1>0, <1>2, <2>1, PendingFacts
  <2>3. /\ doc'.book.money.cash = doc.book.money.cash + TotalCost(D)
        /\ doc'.book.money.pos = doc.book.money.pos - TotalQty(D)
    BY <1>4
  <2>4. /\ TotalCost(PendingSells)' = TotalCost(PendingSells) - TotalCost(D)
        /\ TotalQty(PendingSells)' = TotalQty(PendingSells) - TotalQty(D)
        /\ TotalCost(PendingBuys)' = TotalCost(PendingBuys)
        /\ TotalQty(PendingBuys)' = TotalQty(PendingBuys)
    BY <2>1, <2>2
  <2> QED
    BY <1>0, <1>1, <2>3, <2>4, BalanceTypes DEF SameOwners, OwnersQuote, OwnersBase
<1> QED
  BY <1>3, <1>4

LEMMA AccountKeepsOwners ==
    ASSUME FundsHealthy, NEW e \in Exec, Account(e) PROVE SameOwners
<1> DEFINE m == doc.book.money
           n == doc'.book.money
<1>0. FundsTypeOK /\ happened' = happened /\ account' = account
  BY DEF FundsHealthy, Account
<1>1. /\ e \in happened /\ OrderOf[e] \notin m.attested /\ e \notin m.applied
      /\ n.cash = IF IsBuy(e) THEN m.cash - Cost[e] ELSE m.cash + Cost[e]
      /\ n.pos = IF IsBuy(e) THEN m.pos + Qty[e] ELSE m.pos - Qty[e]
      /\ n.applied = m.applied \cup {e} /\ n.attested = m.attested
  BY AccountSaves
<1>2. TotalCost({e}) = Cost[e] /\ TotalQty({e}) = Qty[e]
  <2>1. Cost[e] \in Int /\ Qty[e] \in Int
    BY PortfolioAssumption
  <2> QED
    BY <2>1, SumOne DEF TotalCost, TotalQty
<1>3. {e} \subseteq PendingBuys \cup PendingSells
  BY <1>0, <1>1, PendingFacts
<1>4. PendingBuys' = PendingBuys \ {e} /\ PendingSells' = PendingSells \ {e}
  BY <1>0, <1>1 DEF PendingBuys, PendingSells, Pending
<1>5. IsBuy(e) \in BOOLEAN
  BY DEF IsBuy
<1>6. {e} \in SUBSET Exec /\ \A x \in {e} : IsBuy(x) <=> IsBuy(e)
  OBVIOUS
<1> QED
  BY <1>0, <1>1, <1>2, <1>3, <1>4, <1>5, <1>6, GettingKeepsOwners

LEMMA AttestKeepsOwners ==
    ASSUME FundsHealthy, NEW o \in Order, AttestFilled(o) PROVE SameOwners
<1> DEFINE m == doc.book.money
           n == doc'.book.money
           D == ExecsOf(o)
<1>0. FundsTypeOK /\ happened' = happened /\ account' = account
  BY DEF FundsHealthy, AttestFilled
<1>1. /\ D \subseteq happened /\ o \notin m.attested /\ m.applied \cap D = {}
      /\ n.cash = IF o \in Buys THEN m.cash - TotalCost(D) ELSE m.cash + TotalCost(D)
      /\ n.pos = IF o \in Buys THEN m.pos + TotalQty(D) ELSE m.pos - TotalQty(D)
      /\ n.applied = m.applied /\ n.attested = m.attested \cup {o}
  BY AttestSaves
<1>2. D \in SUBSET Exec /\ \A e \in D : OrderOf[e] = o /\ (IsBuy(e) <=> o \in Buys)
  BY DEF ExecsOf, IsBuy
<1>3. \A e \in Exec : OrderOf[e] = o => e \in D
  BY DEF ExecsOf
<1> HIDE DEF D
<1>4. D \subseteq PendingBuys \cup PendingSells
  BY <1>0, <1>1, <1>2, PendingFacts
<1>5. PendingBuys' = PendingBuys \ D /\ PendingSells' = PendingSells \ D
  <2>1. happened \subseteq Exec
    BY <1>0 DEF FundsTypeOK
  <2> QED
    BY <1>0, <1>1, <1>2, <1>3, <2>1 DEF PendingBuys, PendingSells, Pending
<1>6. (o \in Buys) \in BOOLEAN
  OBVIOUS
<1> QED
  BY <1>0, <1>1, <1>2, <1>4, <1>5, <1>6, GettingKeepsOwners

\* While every order is resolved nothing is pending and nothing is held.
LEMMA NothingPending ==
    ASSUME FundsTypeOK, FundsQuiet, \A o \in Order : Resolved(o)
    PROVE  /\ PendingBuys = {} /\ PendingSells = {}
           /\ AvailableQuote = account.quote /\ AvailableBase = account.base
           /\ OwnersQuote = account.quote - doc.book.money.cash
           /\ OwnersBase = account.base - doc.book.money.pos
<1>1. ASSUME NEW e \in happened
      PROVE  OrderOf[e] \in doc.book.money.attested \/ e \in doc.book.money.applied
  <2>1. e \in Exec /\ OrderOf[e] \in Order
    BY PortfolioAssumption DEF FundsTypeOK
  <2>2. e \in Done(OrderOf[e])
    BY <2>1 DEF Done, ExecsOf
  <2> QED
    BY <2>1, <2>2 DEF Resolved, InBook, FundsQuiet
<1>2. PendingBuys = {} /\ PendingSells = {}
  BY <1>1, PendingFacts
<1>3. {o \in Buys : order[o] = "open"} = {} /\ {o \in Order \ Buys : order[o] = "open"} = {}
  BY PortfolioAssumption DEF Resolved
<1>4. HeldQuote = 0 /\ HeldBase = 0
  BY <1>3, SumEmpty DEF HeldQuote, HeldBase
<1>5. account.quote \in Int /\ account.base \in Int
  BY DEF FundsTypeOK
<1>6. AvailableQuote = account.quote /\ AvailableBase = account.base
  BY <1>4, <1>5 DEF AvailableQuote, AvailableBase
<1>7. TotalCost({}) = 0 /\ TotalQty({}) = 0
  BY SumEmpty DEF TotalCost, TotalQty
<1>8. doc.book.money.cash \in Int /\ doc.book.money.pos \in Int
  BY BalanceTypes
<1> QED
  BY <1>2, <1>5, <1>6, <1>7, <1>8 DEF OwnersQuote, OwnersBase

\* The second reading finds exactly what is the owner's.
LEMMA RereadIsHis ==
    ASSUME FundsHealthy, FundsQuiet, NEW c \in Command, Reread(c)
    PROVE  IF run[c].op = "adopt" THEN OwnersQuote = run[c].amount
                                  ELSE OwnersBase = run[c].amount
<1> DEFINE m == doc.book.money
<1>0. FundsTypeOK /\ doc \in Document
  BY DEF FundsHealthy, FundsTypeOK
<1>1. /\ run[c].at = "asked" /\ run[c].amount > 0 /\ run[c].amount \in Int
      /\ External(run[c].op, run[c].book) = run[c].amount
  BY RereadHealthy
<1>2. (\A o \in Order : Resolved(o)) /\ run[c].book.money = m
  <2>1. c \in AtWork
    BY <1>1 DEF AtWork
  <2> QED
    BY <1>0, <2>1, OwnedFields DEF FundsQuiet
<1>3. /\ AvailableQuote = account.quote /\ AvailableBase = account.base
      /\ OwnersQuote = account.quote - m.cash /\ OwnersBase = account.base - m.pos
  BY <1>0, <1>2, NothingPending
<1>4. account.quote \in Int /\ account.base \in Int /\ m.cash \in Int /\ m.pos \in Int
  BY <1>0, BalanceTypes
<1> QED
  BY <1>1, <1>2, <1>3, <1>4 DEF External, ExternalCash, ExternalQuantity, Beyond

\* Adopting or onboarding, a command takes what it read to be the owner's.
LEMMA TakingIsBacked ==
    ASSUME FundsHealthy, FundsHealthy', FundsQuiet, StillHis, ManagedIsBacked,
           NEW c \in Command, Adopt(c) \/ Onboard(c)
    PROVE  ManagedIsBacked'
<1> DEFINE m == doc.book.money
           n == doc'.book.money
           x == run[c].amount
<1>0. FundsTypeOK /\ FundsTypeOK' /\ doc \in Document
  BY DEF FundsHealthy, FundsTypeOK
<1>1. c \in AtWork /\ run[c].at = "verified" /\ happened' = happened /\ account' = account
  BY DEF Adopt, Onboard, Save, AtWork
<1>2. (\A o \in Order : Resolved(o)) /\ run[c].book.money = m
  BY <1>0, <1>1, OwnedFields DEF FundsQuiet
<1>3. /\ PendingBuys = {} /\ PendingSells = {}
      /\ OwnersQuote = account.quote - m.cash /\ OwnersBase = account.base - m.pos
  BY <1>0, <1>2, NothingPending
<1>4. /\ account.quote \in Int /\ account.base \in Int
      /\ m.cash \in Int /\ m.pos \in Int /\ n.cash \in Int /\ n.pos \in Int
      /\ gone[c] \in Nat /\ unseen \in [quote : Nat, base : Nat]
  <2>1. n.cash \in Int /\ n.pos \in Int
    BY <1>0, HoldingsType, BookType DEF FundsTypeOK, Document
  <2> QED
    BY <1>0, <2>1, BalanceTypes DEF FundsTypeOK
<1>5. n.applied = m.applied /\ n.attested = m.attested
  BY <1>2, AdoptSaves, OnboardSaves
<1>6. PendingBuys' = {} /\ PendingSells' = {}
  BY <1>1, <1>3, <1>5 DEF PendingBuys, PendingSells, Pending
<1>7. TotalCost({}) = 0 /\ TotalQty({}) = 0
  BY SumEmpty DEF TotalCost, TotalQty
<1>8. OwnersQuote' = account.quote - n.cash /\ OwnersBase' = account.base - n.pos
  BY <1>1, <1>4, <1>6, <1>7 DEF OwnersQuote, OwnersBase
<1>9. CASE Adopt(c)
  <2>1. x \in Int /\ x > 0 /\ n.cash = m.cash + x /\ n.pos = m.pos
    BY <1>2, <1>9, AdoptSaves
  <2>2. OwnersQuote + gone[c] >= x
    BY <1>1, <1>9 DEF StillHis, Adopt
  <2>3. unseen'.quote = unseen.quote + gone[c] /\ unseen'.base = unseen.base
    BY <1>4, <1>9 DEF Adopt
  <2> QED
    BY <1>3, <1>4, <1>8, <2>1, <2>2, <2>3 DEF ManagedIsBacked
<1>10. CASE Onboard(c)
  <2>1. x \in Int /\ x > 0 /\ n.cash = m.cash /\ n.pos = m.pos + x
    BY <1>2, <1>10, OnboardSaves
  <2>2. OwnersBase + gone[c] >= x
    BY <1>1, <1>10 DEF StillHis, Onboard
  <2>3. unseen'.base = unseen.base + gone[c] /\ unseen'.quote = unseen.quote
    BY <1>4, <1>10 DEF Onboard
  <2> QED
    BY <1>3, <1>4, <1>8, <2>1, <2>2, <2>3 DEF ManagedIsBacked
<1> QED
  BY <1>9, <1>10

\* The owner brings what he likes and takes only what is his; a command that has read
\* the balance again does not see it.
OwnerMoves(x, y) ==
    /\ OwnersQuote' = OwnersQuote + x /\ OwnersBase' = OwnersBase + y
    /\ x = -1 => OwnersQuote > 0
    /\ y = -1 => OwnersBase > 0
    /\ \A c \in Command :
          /\ gone'[c] \in Nat
          /\ run[c].at = "verified" =>
                /\ run[c].op = "adopt"   => gone'[c] + x >= gone[c]
                /\ run[c].op = "onboard" => gone'[c] + y >= gone[c]

LEMMA OwnerSteps ==
    ASSUME FundsHealthy, Deposit \/ Withdraw
    PROVE  \E x, y \in {-1, 0, 1} : OwnerMoves(x, y)
<1>0. /\ FundsTypeOK /\ doc' = doc /\ happened' = happened /\ gone \in [Command -> Nat]
      /\ \A c \in Command : run[c].op \in {"adopt", "onboard", "none"}
  BY DEF FundsHealthy, FundsTypeOK, Copy, Deposit, Withdraw
<1>1. PendingBuys' = PendingBuys /\ PendingSells' = PendingSells
  BY <1>0 DEF PendingBuys, PendingSells, Pending
<1>2. ASSUME NEW x \in {-1, 0, 1}, NEW y \in {-1, 0, 1},
             account'.quote = account.quote + x, account'.base = account.base + y
      PROVE  OwnersQuote' = OwnersQuote + x /\ OwnersBase' = OwnersBase + y
  <2>1. /\ account.quote \in Int /\ account.base \in Int
        /\ doc.book.money.cash \in Int /\ doc.book.money.pos \in Int
        /\ TotalCost(PendingBuys) \in Int /\ TotalQty(PendingBuys) \in Int
        /\ TotalCost(PendingSells) \in Int /\ TotalQty(PendingSells) \in Int
    BY <1>0, BalanceTypes
  <2>2. OwnersQuote' = (account.quote + x) - (doc.book.money.cash - TotalCost(PendingBuys)
                                                                  + TotalCost(PendingSells))
    BY <1>0, <1>1, <1>2, Zenon DEF OwnersQuote
  <2>3. OwnersBase' = (account.base + y) - (doc.book.money.pos + TotalQty(PendingBuys)
                                                               - TotalQty(PendingSells))
    BY <1>0, <1>1, <1>2, Zenon DEF OwnersBase
  <2> QED
    BY <2>1, <2>2, <2>3 DEF OwnersQuote, OwnersBase
<1>3. account \in [quote : Int, base : Int]
  BY <1>0 DEF FundsTypeOK
<1>4. ASSUME Deposit PROVE \E x, y \in {-1, 0, 1} : OwnerMoves(x, y)
  <2>1. gone' = gone
    BY <1>4 DEF Deposit, history
  <2>2. CASE account' = [account EXCEPT !.quote = account.quote + 1]
    <3>1. account'.quote = account.quote + 1 /\ account'.base = account.base + 0
      BY <1>3, <2>2
    <3>2. OwnersQuote' = OwnersQuote + 1 /\ OwnersBase' = OwnersBase + 0
      BY <1>2, <3>1
    <3>3. OwnerMoves(1, 0)
      BY <1>0, <2>1, <3>2 DEF OwnerMoves
    <3> QED
      BY <3>3
  <2>3. CASE account' = [account EXCEPT !.base = account.base + 1]
    <3>1. account'.quote = account.quote + 0 /\ account'.base = account.base + 1
      BY <1>3, <2>3
    <3>2. OwnersQuote' = OwnersQuote + 0 /\ OwnersBase' = OwnersBase + 1
      BY <1>2, <3>1
    <3>3. OwnerMoves(0, 1)
      BY <1>0, <2>1, <3>2 DEF OwnerMoves
    <3> QED
      BY <3>3
  <2> QED
    BY <1>4, <2>2, <2>3 DEF Deposit
<1>5. ASSUME Withdraw PROVE \E x, y \in {-1, 0, 1} : OwnerMoves(x, y)
  <2>1. CASE /\ account' = [account EXCEPT !.quote = account.quote - 1]
             /\ OwnersQuote > 0 /\ Leaves("adopt")
    <3>1. account'.quote = account.quote + (-1) /\ account'.base = account.base + 0
      BY <1>3, <2>1
    <3>2. OwnersQuote' = OwnersQuote + (-1) /\ OwnersBase' = OwnersBase + 0
      BY <1>2, <3>1
    <3>3. OwnerMoves(-1, 0)
      BY <1>0, <2>1, <3>2 DEF OwnerMoves, Leaves
    <3> QED
      BY <3>3
  <2>2. CASE /\ account' = [account EXCEPT !.base = account.base - 1]
             /\ OwnersBase > 0 /\ Leaves("onboard")
    <3>1. account'.quote = account.quote + 0 /\ account'.base = account.base + (-1)
      BY <1>3, <2>2
    <3>2. OwnersQuote' = OwnersQuote + 0 /\ OwnersBase' = OwnersBase + (-1)
      BY <1>2, <3>1
    <3>3. OwnerMoves(0, -1)
      BY <1>0, <2>2, <3>2 DEF OwnerMoves, Leaves
    <3> QED
      BY <3>3
  <2> QED
    BY <1>5, <2>1, <2>2 DEF Withdraw
<1> QED
  BY <1>4, <1>5

LEMMA OwnerIsBacked ==
    ASSUME FundsHealthy, ManagedIsBacked, StillHis, Deposit \/ Withdraw
    PROVE  ManagedIsBacked' /\ StillHis'
<1>0. /\ FundsTypeOK /\ run' = run /\ unseen' = unseen /\ unseen \in [quote : Nat, base : Nat]
      /\ \A c \in Command : gone[c] \in Nat /\ run[c].amount \in Int
  BY DEF FundsHealthy, FundsTypeOK, Copy, Deposit, Withdraw, history
<1>1. PICK x, y \in {-1, 0, 1} : OwnerMoves(x, y)
  BY OwnerSteps
<1>2. OwnersQuote \in Int /\ OwnersBase \in Int
  BY <1>0, BalanceTypes
<1>3. ManagedIsBacked'
  BY <1>0, <1>1, <1>2 DEF OwnerMoves, ManagedIsBacked
<1>4. ASSUME NEW c \in Command, run[c].at = "verified"
      PROVE  /\ run[c].op = "adopt"   => OwnersQuote' + gone'[c] >= run[c].amount
             /\ run[c].op = "onboard" => OwnersBase' + gone'[c] >= run[c].amount
  <2>0. /\ OwnersQuote' = OwnersQuote + x /\ OwnersBase' = OwnersBase + y
        /\ gone'[c] \in Nat
        /\ run[c].op = "adopt"   => gone'[c] + x >= gone[c]
        /\ run[c].op = "onboard" => gone'[c] + y >= gone[c]
    <3>1. OwnersQuote' = OwnersQuote + x /\ OwnersBase' = OwnersBase + y
      BY <1>1 DEF OwnerMoves
    <3>2. \A d \in Command :
            /\ gone'[d] \in Nat
            /\ run[d].at = "verified" /\ run[d].op = "adopt"   => gone'[d] + x >= gone[d]
            /\ run[d].at = "verified" /\ run[d].op = "onboard" => gone'[d] + y >= gone[d]
      BY <1>1 DEF OwnerMoves
    <3> QED
      BY <1>4, <3>1, <3>2
  <2>1. gone'[c] \in Int /\ gone[c] \in Int /\ run[c].amount \in Int
    BY <1>0, <2>0
  <2>2. /\ run[c].op = "adopt"   => OwnersQuote + gone[c] >= run[c].amount
        /\ run[c].op = "onboard" => OwnersBase + gone[c] >= run[c].amount
    BY <1>4 DEF StillHis
  <2> QED
    BY <1>2, <2>0, <2>1, <2>2
<1> QED
  BY <1>0, <1>3, <1>4 DEF StillHis

\* The steps of the commands but for the saves.
LEMMA CommandIsBacked ==
    ASSUME FundsHealthy, FundsHealthy', FundsQuiet, ManagedIsBacked, StillHis,
           NEW c \in Command, CommandStep(c)
    PROVE  ManagedIsBacked' /\ StillHis'
<1>0. /\ doc' = doc /\ happened' = happened /\ account' = account /\ unseen' = unseen
      /\ gone \in [Command -> Nat] /\ gone' = [gone EXCEPT ![c] = gone'[c]]
      /\ run \in [Command -> Copy]
  BY DEF FundsHealthy, FundsTypeOK, history,
     CommandStep, StartAdopt, StartOnboard, Ask, GiveUp, Reread
<1>1. OwnersQuote' = OwnersQuote /\ OwnersBase' = OwnersBase
  BY <1>0, StillOwned DEF SameMoney, SameOwners
<1>2. ManagedIsBacked'
  BY <1>0, <1>1 DEF ManagedIsBacked
<1>3. run' = [run EXCEPT ![c] = run'[c]]
  BY BeginHealthy, AskHealthy, EndHealthy, RereadHealthy
  DEF CommandStep, StartAdopt, StartOnboard, GiveUp
<1>4. ASSUME NEW d \in Command, d # c, run'[d].at = "verified"
      PROVE  /\ run'[d].op = "adopt"   => OwnersQuote' + gone'[d] >= run'[d].amount
             /\ run'[d].op = "onboard" => OwnersBase' + gone'[d] >= run'[d].amount
  BY <1>0, <1>1, <1>3, <1>4 DEF StillHis
<1>5. ASSUME run'[c].at = "verified"
      PROVE  /\ run'[c].op = "adopt"   => OwnersQuote' + gone'[c] >= run'[c].amount
             /\ run'[c].op = "onboard" => OwnersBase' + gone'[c] >= run'[c].amount
  <2>1. Reread(c)
    <3>1. ~(StartAdopt(c) \/ StartOnboard(c) \/ Ask(c) \/ GiveUp(c))
      BY <1>5, BeginHealthy, AskHealthy, EndHealthy DEF StartAdopt, StartOnboard, GiveUp
    <3> QED
      BY <3>1 DEF CommandStep
  <2>2. /\ run'[c].op = run[c].op /\ run'[c].amount = run[c].amount /\ run[c].amount \in Int
        /\ gone'[c] = gone[c] /\ gone[c] \in Nat
    BY <1>0, <2>1, RereadHealthy DEF Reread, history
  <2>3. IF run[c].op = "adopt" THEN OwnersQuote = run[c].amount ELSE OwnersBase = run[c].amount
    BY <2>1, RereadIsHis
  <2> QED
    BY <1>1, <2>2, <2>3
<1> QED
  BY <1>2, <1>4, <1>5 DEF StillHis

LEMMA BackedStep ==
    ASSUME FundsHealthy, FundsHealthy', FundsQuiet, ManagedIsBacked, StillHis,
           [FundsNext]_fundsVars
    PROVE  ManagedIsBacked' /\ StillHis'
<1>1. ASSUME SameOwners, run' = run, UNCHANGED history PROVE ManagedIsBacked' /\ StillHis'
  BY <1>1 DEF SameOwners, ManagedIsBacked, StillHis, history
<1>2. ASSUME doc' = doc, happened' = happened, account' = account PROVE SameOwners
  BY <1>2, StillOwned DEF SameMoney
<1>3. ASSUME NEW o \in Order,
             SubmitBuy(o) \/ SubmitSell(o) \/ Close(o) \/ Release(o) \/ AttestFilled(o)
      PROVE  SameOwners /\ run' = run /\ UNCHANGED history
  <2>1. run' = run /\ UNCHANGED history
    BY <1>3 DEF SubmitBuy, SubmitSell, Close, Release, AttestFilled
  <2>2. CASE SubmitSell(o) \/ Close(o)
    BY <1>2, <2>1, <2>2 DEF SubmitSell, Close
  <2>3. CASE SubmitBuy(o) \/ Release(o)
    <3>1. happened' = happened /\ account' = account
      BY <2>3 DEF SubmitBuy, Release
    <3> QED
      BY <2>1, <2>3, <3>1, SubmitBuySaves, ReleaseSaves, StillOwned
  <2> QED
    BY <1>3, <2>1, <2>2, <2>3, AttestKeepsOwners
<1>4. ASSUME NEW e \in Exec, Trade(e) \/ Account(e)
      PROVE  SameOwners /\ run' = run /\ UNCHANGED history
  <2>1. run' = run /\ UNCHANGED history
    BY <1>4 DEF Trade, Account
  <2> QED
    BY <1>4, <2>1, TradeKeepsOwners, AccountKeepsOwners
<1>5. ASSUME NEW c \in Command, Adopt(c) \/ Onboard(c) PROVE StillHis'
  <2>1. c \in AtWork /\ run' = [run EXCEPT ![c] = run'[c]] /\ run'[c].at = "idle"
    BY <1>5, EndHealthy DEF Adopt, Onboard, Save, AtWork
  <2>2. \A d \in Command : d # c => run[d].at = "idle"
    BY <2>1 DEF FundsQuiet, AtWork
  <2>3. \A d \in Command : run'[d].at = "idle"
    BY <2>1, <2>2 DEF FundsHealthy, FundsTypeOK
  <2> QED
    BY <2>3 DEF StillHis
<1>6. ASSUME UNCHANGED fundsVars PROVE SameOwners /\ run' = run /\ UNCHANGED history
  BY <1>2, <1>6 DEF fundsVars
<1> QED
  BY <1>1, <1>3, <1>4, <1>5, <1>6, TakingIsBacked, OwnerIsBacked, CommandIsBacked
  DEF FundsNext, CommandStep

LEMMA FundsQuietInit == ASSUME FundsInit PROVE FundsQuiet /\ ManagedIsBacked /\ StillHis
<1>1. /\ doc.book.money.cash = ManagedCash0 /\ doc.book.money.pos \in Nat
      /\ doc.book.money.applied = {} /\ doc.book.money.attested = {}
  BY FirstDocument DEF FundsInit
<1>2. AtWork = {} /\ \A o \in Order : Done(o) = {}
  BY DEF FundsInit, AtWork, Done, Idle
<1>3. FundsQuiet
  BY <1>1, <1>2 DEF FundsQuiet
<1>4. \A o \in Order : Resolved(o)
  BY DEF FundsInit, Resolved
<1>5. OwnersQuote = account.quote - doc.book.money.cash /\ OwnersBase = account.base - doc.book.money.pos
  <2>1. FundsTypeOK
    BY FundsHealthyInit DEF FundsHealthy
  <2> QED
    BY <1>3, <1>4, <2>1, NothingPending
<1>6. OwnersQuote = OwnCash0 /\ OwnersBase = OwnBase0
  BY <1>1, <1>5, FundsAssumption DEF FundsInit
<1>7. StillHis
  BY DEF FundsInit, StillHis, Idle
<1>8. ManagedIsBacked
  BY <1>6, FundsAssumption DEF FundsInit, ManagedIsBacked
<1> QED
  BY <1>3, <1>7, <1>8

\* Without a command at work the quiet has three parts.
OrdersAndMarks ==
    /\ \A o \in Order : order[o] = "none" => Done(o) = {}
    /\ doc.book.money.applied \subseteq happened
    /\ \A o \in doc.book.money.attested : order[o] = "closed" /\ ExecsOf(o) \subseteq happened

LEMMA QuietBegins ==
    ASSUME OrdersAndMarks, AtWork = {} PROVE FundsQuiet
  BY DEF OrdersAndMarks, FundsQuiet

\* The steps of the bot and of the exchange find no command at work.
LEMMA BotStepQuiet ==
    ASSUME Quiet, FundsHealthy, FundsQuiet,
           NEW o \in Order, SubmitBuy(o) \/ SubmitSell(o) \/ Close(o) \/ Release(o) \/ AttestFilled(o)
    PROVE  FundsQuiet'
<1>0. happened \subseteq Exec /\ order \in [Order -> {"none", "open", "closed"}]
      /\ run' = run /\ happened' = happened /\ OrdersAndMarks
  BY DEF FundsHealthy, FundsTypeOK, FundsQuiet, OrdersAndMarks,
     SubmitBuy, SubmitSell, Close, Release, AttestFilled
<1>1. AtWork = {}
  <2>1. CASE Close(o)
    <3>1. ~Resolved(o)
      BY <2>1 DEF Close, Resolved
    <3> QED
      BY <3>1 DEF FundsQuiet
  <2>2. CASE ~Close(o)
    BY <2>2 DEF SubmitBuy, SubmitSell, Release, AttestFilled, Free, MayTrade
  <2> QED
    BY <2>1, <2>2
<1>2. AtWork' = {}
  BY <1>0, <1>1 DEF AtWork
<1>3. CASE SubmitBuy(o) \/ SubmitSell(o) \/ Close(o)
  <2>1. PICK x \in {"open", "closed"} : order' = [order EXCEPT ![o] = x]
    BY <1>3, Zenon DEF SubmitBuy, SubmitSell, Close
  <2>2. o \notin doc.book.money.attested \/ (order[o] = "open" /\ x = "closed")
    BY <1>0, <1>3, <2>1 DEF SubmitBuy, SubmitSell, Close, Free, OrdersAndMarks
  <2>3. /\ doc'.book.money.applied = doc.book.money.applied
        /\ doc'.book.money.attested = doc.book.money.attested
    BY <1>3, SubmitBuySaves DEF SameMoney, SubmitSell, Close
  <2>4. OrdersAndMarks'
    BY <1>0, <2>1, <2>2, <2>3 DEF OrdersAndMarks, Done
  <2> QED
    BY <1>2, <2>4 DEF FundsQuiet, OrdersAndMarks
<1>4. CASE Release(o) \/ AttestFilled(o)
  <2>1. order' = order
    BY <1>4 DEF Release, AttestFilled
  <2>2. OrdersAndMarks'
    <3>1. CASE Release(o)
      <4>1. /\ doc'.book.money.applied = doc.book.money.applied
            /\ doc'.book.money.attested = doc.book.money.attested
        BY <3>1, ReleaseSaves DEF SameMoney
      <4> QED
        BY <1>0, <2>1, <4>1 DEF OrdersAndMarks, Done
    <3>2. CASE AttestFilled(o)
      <4>1. /\ doc'.book.money.applied = doc.book.money.applied
            /\ doc'.book.money.attested = doc.book.money.attested \cup {o}
            /\ order[o] = "closed" /\ ExecsOf(o) \subseteq happened
        BY <3>2, AttestSaves
      <4> QED
        BY <1>0, <2>1, <4>1 DEF OrdersAndMarks, Done
    <3> QED
      BY <1>4, <3>1, <3>2
  <2> QED
    BY <1>2, <2>2 DEF FundsQuiet, OrdersAndMarks
<1> QED
  BY <1>3, <1>4

LEMMA ExecutionStepQuiet ==
    ASSUME Quiet, FundsHealthy, FundsQuiet, NEW e \in Exec, Trade(e) \/ Account(e)
    PROVE  FundsQuiet'
<1>0. /\ happened \subseteq Exec /\ order \in [Order -> {"none", "open", "closed"}]
      /\ run' = run /\ order' = order /\ OrdersAndMarks /\ OrderOf[e] \in Order
  BY PortfolioAssumption
  DEF FundsHealthy, FundsTypeOK, FundsQuiet, OrdersAndMarks, Trade, Account
<1>1. AtWork = {}
  <2>1. CASE Trade(e)
    <3>1. ~Resolved(OrderOf[e])
      BY <2>1 DEF Trade, Resolved
    <3> QED
      BY <1>0, <3>1 DEF FundsQuiet
  <2>2. CASE Account(e)
    BY <2>2 DEF Account, MayTrade
  <2> QED
    BY <2>1, <2>2
<1>2. AtWork' = {}
  BY <1>0, <1>1 DEF AtWork
<1>3. OrdersAndMarks'
  <2>1. CASE Trade(e)
    <3>1. doc' = doc /\ happened' = happened \cup {e} /\ order[OrderOf[e]] = "open"
      BY <2>1 DEF Trade
    <3>2. \A o \in Order : order[o] = "none" => e \notin ExecsOf(o)
      BY <3>1 DEF ExecsOf
    <3> QED
      BY <1>0, <3>1, <3>2 DEF OrdersAndMarks, Done
  <2>2. CASE Account(e)
    <3>1. /\ doc'.book.money.applied = doc.book.money.applied \cup {e}
          /\ doc'.book.money.attested = doc.book.money.attested /\ e \in happened
      BY <2>2, AccountSaves
    <3>2. happened' = happened
      BY <2>2 DEF Account
    <3> QED
      BY <1>0, <3>1, <3>2 DEF OrdersAndMarks, Done
  <2> QED
    BY <2>1, <2>2
<1> QED
  BY <1>2, <1>3 DEF FundsQuiet, OrdersAndMarks

LEMMA CommandStepQuiet ==
    ASSUME Quiet, FundsHealthy, FundsQuiet,
           NEW c \in Command, CommandStep(c) \/ Adopt(c) \/ Onboard(c)
    PROVE  FundsQuiet'
<1>0. /\ order' = order /\ happened' = happened /\ OrdersAndMarks
      /\ run \in [Command -> Copy]
  BY DEF FundsHealthy, FundsTypeOK, FundsQuiet, OrdersAndMarks,
     CommandStep, StartAdopt, StartOnboard, Ask, GiveUp, Reread, Adopt, Onboard, Save
<1>1. CASE CommandStep(c)
  <2>1. doc' = doc
    BY <1>1 DEF CommandStep, StartAdopt, StartOnboard, Ask, GiveUp, Reread
  <2>2. /\ OrdersAndMarks' /\ Owned(doc)' = Owned(doc)
        /\ \A o \in Order : Resolved(o)' <=> Resolved(o)
    BY <1>0, <2>1 DEF OrdersAndMarks, Done, Resolved, InBook
  <2>3. CASE StartAdopt(c) \/ StartOnboard(c)
    <3>1. AtWork = {} /\ \A o \in Order : Resolved(o)
      BY <2>3 DEF StartAdopt, StartOnboard, MayCommand
    <3>2. run' = [run EXCEPT ![c] = run'[c]] /\ run'[c].book = Owned(doc)
      BY <2>3, BeginHealthy DEF StartAdopt, StartOnboard
    <3>3. AtWork' \subseteq {c}
      BY <1>0, <3>1, <3>2 DEF AtWork
    <3> QED
      BY <2>2, <3>1, <3>2, <3>3 DEF FundsQuiet, OrdersAndMarks
  <2>4. CASE Ask(c)
    <3>1. /\ run' = [run EXCEPT ![c] = run'[c]] /\ run[c].at = "loaded"
          /\ run'[c].book = run[c].book
      BY <2>4, AskHealthy
    <3>2. AtWork' \subseteq AtWork /\ \A d \in AtWork : run'[d].book = run[d].book
      BY <1>0, <3>1 DEF AtWork
    <3> QED
      BY <2>2, <3>2 DEF FundsQuiet, OrdersAndMarks
  <2>5. CASE GiveUp(c)
    <3>1. run' = [run EXCEPT ![c] = run'[c]] /\ run'[c].at = "idle"
      BY <2>5, EndHealthy DEF GiveUp
    <3>2. AtWork' \subseteq AtWork /\ \A d \in AtWork' : run'[d].book = run[d].book
      BY <1>0, <3>1 DEF AtWork
    <3> QED
      BY <2>2, <3>2 DEF FundsQuiet, OrdersAndMarks
  <2>6. CASE Reread(c)
    <3>1. /\ run' = [run EXCEPT ![c] = run'[c]] /\ run[c].at = "asked"
          /\ run'[c].book = run[c].book
      BY <2>6, RereadHealthy
    <3>2. AtWork' \subseteq AtWork /\ \A d \in AtWork : run'[d].book = run[d].book
      BY <1>0, <3>1 DEF AtWork
    <3> QED
      BY <2>2, <3>2 DEF FundsQuiet, OrdersAndMarks
  <2> QED
    BY <1>1, <2>3, <2>4, <2>5, <2>6 DEF CommandStep
<1>2. CASE Adopt(c) \/ Onboard(c)
  <2>1. c \in AtWork
    BY <1>2 DEF Adopt, Onboard, AtWork
  <2>2. run' = [run EXCEPT ![c] = run'[c]] /\ run'[c].at = "idle"
    BY <1>2, EndHealthy DEF Adopt, Onboard, Save
  <2>3. AtWork' = {}
    <3>1. AtWork' \subseteq AtWork \ {c}
      BY <1>0, <2>2 DEF AtWork
    <3> QED
      BY <2>1, <3>1 DEF FundsQuiet
  <2>4. run[c].book.money = doc.book.money
    BY <2>1, OwnedFields DEF FundsQuiet, FundsHealthy, FundsTypeOK
  <2>5. /\ doc'.book.money.applied = doc.book.money.applied
        /\ doc'.book.money.attested = doc.book.money.attested
    BY <1>2, <2>4, AdoptSaves, OnboardSaves
  <2>6. OrdersAndMarks'
    BY <1>0, <2>5 DEF OrdersAndMarks, Done
  <2> QED
    BY <2>3, <2>6 DEF FundsQuiet, OrdersAndMarks
<1> QED
  BY <1>1, <1>2

LEMMA FundsQuietStep ==
    ASSUME Quiet, FundsHealthy, FundsQuiet, [FundsNext]_fundsVars PROVE FundsQuiet'
<1>1. ASSUME doc' = doc, order' = order, happened' = happened, run' = run PROVE FundsQuiet'
  BY <1>1 DEF FundsQuiet, AtWork, Resolved, InBook, Done, Owned
<1>2. CASE Deposit \/ Withdraw \/ UNCHANGED fundsVars
  BY <1>1, <1>2 DEF Deposit, Withdraw, fundsVars
<1> QED
  BY <1>2, BotStepQuiet, ExecutionStepQuiet, CommandStepQuiet DEF FundsNext, CommandStep

\* Adoption and onboarding, when the operator lets them run while the bot is quiet,
\* never hand the bot more than the account holds, whatever the owner brings or takes
\* away while they ask; what he takes away between the second reading and the save is
\* all that may be missing.
THEOREM ManagedIsAlwaysBacked ==
    ASSUME Quiet PROVE FundsSpec => []ManagedIsBacked
<1>1. FundsInit => FundsQuiet /\ ManagedIsBacked /\ StillHis
  BY FundsQuietInit
<1>2. (/\ FundsHealthy /\ FundsHealthy' /\ FundsQuiet
       /\ ManagedIsBacked /\ StillHis /\ [FundsNext]_fundsVars)
      => FundsQuiet' /\ ManagedIsBacked' /\ StillHis'
  BY FundsQuietStep, BackedStep
<1> QED
  BY <1>1, <1>2, FundsStayHealthy, PTL DEF FundsSpec
=============================================================================
