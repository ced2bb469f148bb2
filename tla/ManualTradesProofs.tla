------------------------- MODULE ManualTradesProofs -------------------------
(****************************************************************************)
(* What the manual trade commands leave in the managed book, for any        *)
(* orders, intents and commands, any prices and quantities, and any number  *)
(* of commands that run.                                                    *)
(*                                                                          *)
(* The argument has two halves.  A book is sound in itself (BookSound): it  *)
(* holds at most one intent for each exchange order, every settlement it    *)
(* records is of an order that was final, had filled and fits the intent,   *)
(* and its balances are the opening ones moved by exactly those             *)
(* settlements.  Every operation maps a sound book to a sound book, and an  *)
(* order that is final never changes again; so the saved book and every     *)
(* command's copy are sound however commands overlap, for what one of them  *)
(* overwrites is replaced by another sound book (ManIInv).                  *)
(*                                                                          *)
(* The other half compares the book with the intent file, which is saved    *)
(* after it.  That needs one command at a time (SerialIInv): the running    *)
(* command's copy is then the saved book, and an intent the book has        *)
(* settled and the file has not is the one the command is at, or one that   *)
(* a crash left between the two saves.                                      *)
(****************************************************************************)
EXTENDS ManualTrades, Sums

\* The settlements a book records: one intent each order, and each of an order that
\* is final and consistent with the intent.
SettledOnce(b) ==
    \A i, j \in Intent :
        i # j /\ b.settled[i].x = b.settled[j].x => b.settled[i] = Unsettled

\* Every settlement recorded is of an order that is final in w, has filled, and fits.
SettledOnTruth(b, w) ==
    \A i \in Intent : b.settled[i] # Unsettled =>
        LET o == w[b.settled[i].x] IN
        o.st = "DONE" /\ o.filled > 0 /\ o.fee = "quote" /\ i \in o.fits

\* A reservation that is not active has nothing left.
LeftIfActive(b) ==
    \A i \in Intent : /\ b.money.resv[i].left >= 0
                      /\ ~Money!Active(b.money, i) => b.money.resv[i].left = 0

\* What the exchange can report of the orders.
Views == [XOrder -> OrderView]

\* A book that is right about the orders as w has them.
BookSound(b, w) ==
    /\ b \in ManagedState /\ w \in Views
    /\ SettledOnce(b) /\ SettledOnTruth(b, w)
    /\ BalancesAreSettled(b, w) /\ PoolIsReserved(b) /\ LeftIfActive(b)

----------------------------------------------------------------------------
(* The pool and the reservations *)

\* The sums of the instance are the same sums.
LEMMA SameSum ==
    ASSUME NEW f, NEW S PROVE Money!SumFunctionOnSet(f, S) = SumFunctionOnSet(f, S)
BY Zenon DEF Money!SumFunctionOnSet, Money!FoldFunctionOnSet, Money!MapThenFoldSet,
             SumFunctionOnSet, FoldFunctionOnSet, MapThenFoldSet

\* What the reservations of a book have left.
LeftOf(r) == [i \in Intent |-> r[i].left]

\* The reservations of a book.
Resv == [Intent -> [st : {"NONE", "ACTIVE", "RELEASED"}, left : Int]]

\* A reservation that is not active has nothing left: the pool is what all have left.
LEMMA PoolIsAllLeft ==
    ASSUME NEW b, b.money.resv \in Resv, LeftIfActive(b)
    PROVE  Money!Left(b.money, {i \in Intent : Money!Active(b.money, i)})
             = SumFunctionOnSet(LeftOf(b.money.resv), Intent)
<1> DEFINE f == LeftOf(b.money.resv)
           A == {i \in Intent : Money!Active(b.money, i)}
<1>1. /\ \A i \in Intent : f[i] \in Int
      /\ \A i \in Intent \ A : f[i] = 0
  BY DEF LeftOf, LeftIfActive, Resv
<1>2. IsFiniteSet(Intent) /\ A \subseteq Intent /\ IsFiniteSet(A) /\ IsFiniteSet(Intent \ A)
  BY ManualAssumption, FS_Subset
<1>3. SumFunctionOnSet(f, Intent) = SumFunctionOnSet(f, A) + SumFunctionOnSet(f, Intent \ A)
  <2>1. Intent = A \cup (Intent \ A) /\ A \cap (Intent \ A) = {}
    BY <1>2
  <2> HIDE DEF f, A
  <2> QED
    BY <1>1, <1>2, <2>1, SumUnion
<1>4. SumFunctionOnSet(f, Intent \ A) = 0
  <2> HIDE DEF f, A
  <2> QED
    BY <1>1, <1>2, SumZero
<1>5. SumFunctionOnSet(f, A) \in Int
  <2> HIDE DEF f, A
  <2> QED
    BY <1>1, <1>2, SumInt
<1>6. Money!Left(b.money, A) = SumFunctionOnSet(f, A)
  BY SameSum DEF Money!Left, LeftOf
<1> QED
  BY <1>3, <1>4, <1>5, <1>6

----------------------------------------------------------------------------
(* What the methods of the book do to its fields *)

\* A record with the fields of a book.
IsMoney(p) ==
    p = [cash |-> p.cash, pos |-> p.pos, reserved |-> p.reserved, resv |-> p.resv,
         applied |-> p.applied, attested |-> p.attested]

\* The balances of a book, field by field.
LEMMA MoneyType ==
    ASSUME NEW p
    PROVE  p \in Money!Book <=>
             /\ IsMoney(p) /\ p.cash \in Int /\ p.pos \in Int /\ p.reserved \in Int
             /\ p.resv \in Resv /\ p.applied \subseteq {} /\ p.attested \subseteq Intent
BY DEF Money!Book, IsMoney, Resv

\* A new pool and new reservations.
WithPool(p, x, r) == [p EXCEPT !.reserved = x, !.resv = r]

\* Replacing the pool and the reservations leaves the other fields alone.
LEMMA PoolFields ==
    ASSUME NEW p, IsMoney(p), NEW x, NEW r
    PROVE  LET w == WithPool(p, x, r) IN
           /\ IsMoney(w)
           /\ w.cash = p.cash /\ w.pos = p.pos
           /\ w.reserved = x /\ w.resv = r
           /\ w.applied = p.applied /\ w.attested = p.attested
<1> DEFINE s == [p EXCEPT !.reserved = x]
<1>1. /\ IsMoney(s) /\ s.cash = p.cash /\ s.pos = p.pos /\ s.reserved = x
      /\ s.applied = p.applied /\ s.attested = p.attested
  BY DEF IsMoney
<1>2. WithPool(p, x, r) = [s EXCEPT !.resv = r]
  BY Zenon DEF WithPool
<1> HIDE DEF s
<1> QED
  BY <1>1, <1>2 DEF IsMoney

\* propose, a BUY: a reservation of its quote.
LEMMA ReserveResult ==
    ASSUME NEW p \in Money!Book, NEW i \in BuyIntents
    PROVE  LET q == Money!ReserveOrder(p, i) IN
           /\ q \in Money!Book /\ q.cash = p.cash /\ q.pos = p.pos
           /\ q.reserved = p.reserved + Quote[i]
           /\ q.resv = [p.resv EXCEPT ![i] = [st |-> "ACTIVE", left |-> Quote[i]]]
<1> DEFINE q == Money!ReserveOrder(p, i)
           x == p.reserved + Quote[i]
           r == [p.resv EXCEPT ![i] = [st |-> "ACTIVE", left |-> Quote[i]]]
<1>1. q = WithPool(p, x, r)
  BY Zenon DEF WithPool, Money!ReserveOrder
<1>2. Quote[i] \in Int /\ i \in Intent
  BY ManualAssumption
<1>3. p.resv \in Resv /\ p.reserved \in Int
  BY MoneyType
<1>4. x \in Int /\ r \in Resv
  BY <1>2, <1>3 DEF Resv
<1> HIDE DEF q, x, r
<1>5. /\ IsMoney(q) /\ q.cash = p.cash /\ q.pos = p.pos /\ q.reserved = x /\ q.resv = r
      /\ q.applied = p.applied /\ q.attested = p.attested
  BY <1>1, MoneyType, PoolFields
<1>6. q \in Money!Book
  BY <1>4, <1>5, MoneyType
<1> QED
  BY <1>5, <1>6 DEF q, x, r

\* The reservation of an intent after its release: RELEASED with nothing left.
Ended(r, i) ==
    [j \in Intent |-> IF j = i /\ r[i].st = "ACTIVE" THEN [st |-> "RELEASED", left |-> 0]
                                                     ELSE r[j]]

\* What the release of one intent gives back to the pool.
LEMMA ReleaseResult ==
    ASSUME NEW p \in Money!Book, NEW i \in Intent
    PROVE  LET q == Money!ReleaseOrders(p, {i}) IN
           /\ q \in Money!Book /\ q.cash = p.cash /\ q.pos = p.pos
           /\ q.reserved = IF Money!Active(p, i) THEN p.reserved - p.resv[i].left
                                                 ELSE p.reserved
           /\ q.resv = Ended(p.resv, i)
<1> DEFINE q == Money!ReleaseOrders(p, {i})
           ending == {o \in {i} : Money!Active(p, o)}
           x == p.reserved - Money!Left(p, ending)
           r == [o \in Intent |-> IF o \in ending THEN [st |-> "RELEASED", left |-> 0]
                                                  ELSE p.resv[o]]
<1>1. q = WithPool(p, x, r)
  BY Zenon DEF WithPool, Money!ReleaseOrders
<1>2. /\ p.resv \in Resv /\ p.reserved \in Int /\ p.resv[i].left \in Int
      /\ IsMoney(p)
  BY MoneyType DEF Resv
<1>3. r = Ended(p.resv, i)
  BY DEF Ended, Money!Active
<1>4. Money!Left(p, ending) = IF Money!Active(p, i) THEN p.resv[i].left ELSE 0
  <2> DEFINE f == LeftOf(p.resv)
  <2>1. Money!Left(p, ending) = SumFunctionOnSet(f, ending)
    BY SameSum DEF Money!Left, LeftOf
  <2>2. f[i] = p.resv[i].left
    BY DEF LeftOf
  <2>3. ending = IF Money!Active(p, i) THEN {i} ELSE {}
    OBVIOUS
  <2> HIDE DEF f, ending
  <2> QED
    BY <1>2, <2>1, <2>2, <2>3, SumOne, SumEmpty
<1>5. x = IF Money!Active(p, i) THEN p.reserved - p.resv[i].left ELSE p.reserved
  BY <1>2, <1>4
<1>6. x \in Int /\ r \in Resv
  BY <1>2, <1>3, <1>5 DEF Resv, Ended
<1> HIDE DEF q, x, r, ending
<1>7. /\ IsMoney(q) /\ q.cash = p.cash /\ q.pos = p.pos /\ q.reserved = x /\ q.resv = r
      /\ q.applied = p.applied /\ q.attested = p.attested
  BY <1>1, <1>2, PoolFields
<1>8. q \in Money!Book
  BY <1>6, <1>7, MoneyType
<1> QED
  BY <1>3, <1>5, <1>7, <1>8 DEF q

\* New balances.
WithBalance(p, x, y) == [p EXCEPT !.cash = x, !.pos = y]

\* Replacing the balances leaves the pool and the reservations alone.
LEMMA BalanceFields ==
    ASSUME NEW p, IsMoney(p), NEW x, NEW y
    PROVE  LET w == WithBalance(p, x, y) IN
           /\ IsMoney(w)
           /\ w.cash = x /\ w.pos = y
           /\ w.reserved = p.reserved /\ w.resv = p.resv
           /\ w.applied = p.applied /\ w.attested = p.attested
<1> DEFINE s == [p EXCEPT !.cash = x]
<1>1. /\ IsMoney(s) /\ s.pos = p.pos /\ s.cash = x
      /\ s.reserved = p.reserved /\ s.resv = p.resv
      /\ s.applied = p.applied /\ s.attested = p.attested
  BY DEF IsMoney
<1>2. WithBalance(p, x, y) = [s EXCEPT !.pos = y]
  BY Zenon DEF WithBalance
<1> HIDE DEF s
<1> QED
  BY <1>1, <1>2 DEF IsMoney

\* The fill of a settlement.
LEMMA FillResult ==
    ASSUME NEW p \in Money!Book, NEW i \in Intent, NEW qty \in Int, NEW cost \in Int
    PROVE  LET q == Money!Fill(p, i, qty, cost) IN
           /\ q \in Money!Book /\ q.reserved = p.reserved /\ q.resv = p.resv
           /\ q.cash = IF i \in BuyIntents THEN p.cash - cost ELSE p.cash + cost
           /\ q.pos  = IF i \in BuyIntents THEN p.pos + qty ELSE p.pos - qty
<1>0. /\ IsMoney(p) /\ p.cash \in Int /\ p.pos \in Int /\ p.reserved \in Int
      /\ p.resv \in Resv /\ p.applied \subseteq {} /\ p.attested \subseteq Intent
  BY MoneyType
<1>1. CASE i \in BuyIntents
  <2> DEFINE q == WithBalance(p, p.cash - cost, p.pos + qty)
  <2>1. Money!Fill(p, i, qty, cost) = q
    BY <1>1, Zenon DEF Money!Fill, WithBalance
  <2>2. /\ IsMoney(q) /\ q.cash = p.cash - cost /\ q.pos = p.pos + qty
        /\ q.reserved = p.reserved /\ q.resv = p.resv
        /\ q.applied = p.applied /\ q.attested = p.attested
    BY <1>0, BalanceFields
  <2> HIDE DEF q
  <2>3. q \in Money!Book
    BY <1>0, <2>2, MoneyType
  <2> QED
    BY <1>1, <2>1, <2>2, <2>3
<1>2. CASE i \notin BuyIntents
  <2> DEFINE q == WithBalance(p, p.cash + cost, p.pos - qty)
  <2>1. Money!Fill(p, i, qty, cost) = q
    BY <1>2, Zenon DEF Money!Fill, WithBalance
  <2>2. /\ IsMoney(q) /\ q.cash = p.cash + cost /\ q.pos = p.pos - qty
        /\ q.reserved = p.reserved /\ q.resv = p.resv
        /\ q.applied = p.applied /\ q.attested = p.attested
    BY <1>0, BalanceFields
  <2> HIDE DEF q
  <2>3. q \in Money!Book
    BY <1>0, <2>2, MoneyType
  <2> QED
    BY <1>2, <2>1, <2>2, <2>3
<1> QED
  BY <1>1, <1>2

\* What a BUY consumes of its reservation.
LEMMA ConsumeResult ==
    ASSUME NEW p \in Money!Book, NEW i \in Intent, NEW cost \in Int, cost <= p.reserved
    PROVE  LET q == Money!Consume(p, i, cost) IN
           /\ q \in Money!Book /\ q.cash = p.cash /\ q.pos = p.pos
           /\ q.reserved = p.reserved - cost
           /\ q.resv = [p.resv EXCEPT ![i].left = p.resv[i].left - cost]
<1> DEFINE q == Money!Consume(p, i, cost)
           x == IF cost > p.reserved THEN p.reserved ELSE p.reserved - cost
           r == [p.resv EXCEPT ![i].left = p.resv[i].left - cost]
<1>1. q = WithPool(p, x, r)
  BY Zenon DEF WithPool, Money!Consume
<1>2. /\ p.resv \in Resv /\ p.reserved \in Int /\ p.resv[i].left \in Int
      /\ IsMoney(p)
  BY MoneyType DEF Resv
<1>3. x = p.reserved - cost /\ x \in Int
  BY <1>2
<1>4. r \in Resv
  BY <1>2 DEF Resv
<1> HIDE DEF q, x, r
<1>5. /\ IsMoney(q) /\ q.cash = p.cash /\ q.pos = p.pos /\ q.reserved = x /\ q.resv = r
      /\ q.applied = p.applied /\ q.attested = p.attested
  BY <1>1, <1>2, PoolFields
<1>6. q \in Money!Book
  BY <1>3, <1>4, <1>5, MoneyType
<1> QED
  BY <1>3, <1>5, <1>6 DEF q, r

----------------------------------------------------------------------------
(* The book stays sound *)

\* The pool against what all reservations have left.
PoolSound(p) ==
    /\ p.reserved = SumFunctionOnSet(LeftOf(p.resv), Intent)
    /\ \A i \in Intent : p.resv[i].left >= 0 /\ (~Money!Active(p, i) => p.resv[i].left = 0)

\* The two conditions on reservations are one on the money of the book.
LEMMA PoolSoundIff ==
    ASSUME NEW b, b.money \in Money!Book
    PROVE  PoolIsReserved(b) /\ LeftIfActive(b) <=> PoolSound(b.money)
<1>1. b.money.resv \in Resv
  BY MoneyType
<1> QED
  BY <1>1, PoolIsAllLeft DEF PoolIsReserved, LeftIfActive, PoolSound

\* One reservation changes, and the pool with it.
LEMMA PoolChange ==
    ASSUME NEW p \in Money!Book, PoolSound(p), NEW i \in Intent,
           NEW q \in Money!Book,
           \A j \in Intent \ {i} : q.resv[j] = p.resv[j],
           q.reserved = p.reserved - p.resv[i].left + q.resv[i].left,
           q.resv[i].left >= 0, ~Money!Active(q, i) => q.resv[i].left = 0
    PROVE  PoolSound(q)
<1> DEFINE f == LeftOf(p.resv)
           g == LeftOf(q.resv)
<1>1. p.resv \in Resv /\ q.resv \in Resv /\ IsFiniteSet(Intent)
  BY MoneyType, ManualAssumption
<1>2. /\ \A j \in Intent : f[j] \in Int /\ g[j] \in Int
      /\ \A j \in Intent \ {i} : g[j] = f[j]
      /\ f[i] = p.resv[i].left /\ g[i] = q.resv[i].left
  BY <1>1 DEF LeftOf, Resv
<1>3. SumFunctionOnSet(g, Intent) = SumFunctionOnSet(f, Intent) - f[i] + g[i]
  <2> HIDE DEF f, g
  <2> QED
    BY <1>1, <1>2, SumUpdate
<1>4. \A j \in Intent : q.resv[j].left >= 0 /\ (~Money!Active(q, j) => q.resv[j].left = 0)
  BY DEF PoolSound, Money!Active
<1>5. q.reserved = SumFunctionOnSet(g, Intent)
  <2> HIDE DEF f, g
  <2> QED
    BY <1>2, <1>3 DEF PoolSound, f, g
<1> QED
  BY <1>4, <1>5 DEF PoolSound

\* A reservation is a part of the pool.
LEMMA LeftWithinPool ==
    ASSUME NEW p \in Money!Book, PoolSound(p), NEW i \in Intent
    PROVE  p.resv[i].left \in Nat /\ p.resv[i].left <= p.reserved
<1> DEFINE f == LeftOf(p.resv)
<1>1. p.resv \in Resv /\ IsFiniteSet(Intent)
  BY MoneyType, ManualAssumption
<1>2. (\A j \in Intent : f[j] \in Nat) /\ f[i] = p.resv[i].left
  BY <1>1 DEF LeftOf, Resv, PoolSound
<1>3. SumFunctionOnSet(f, {i}) = f[i] /\ SumFunctionOnSet(f, {i}) <= SumFunctionOnSet(f, Intent)
  <2>1. {i} \subseteq Intent /\ f[i] \in Int
    BY <1>2
  <2> HIDE DEF f
  <2> QED
    BY <1>1, <1>2, <2>1, SumOne, SumLe
<1> QED
  BY <1>2, <1>3 DEF PoolSound

\* A new reservation adds to the pool what it sets aside.
LEMMA ReserveKeepsPool ==
    ASSUME NEW p \in Money!Book, PoolSound(p), NEW i \in BuyIntents, p.resv[i].st = "NONE"
    PROVE  PoolSound(Money!ReserveOrder(p, i))
<1> DEFINE q == Money!ReserveOrder(p, i)
<1>1. i \in Intent /\ Quote[i] \in Nat
  BY ManualAssumption
<1>2. p.resv \in Resv /\ p.resv[i].left = 0 /\ p.reserved \in Int
  BY <1>1, MoneyType DEF PoolSound, Money!Active
<1>3. /\ q \in Money!Book /\ q.reserved = p.reserved + Quote[i]
      /\ q.resv = [p.resv EXCEPT ![i] = [st |-> "ACTIVE", left |-> Quote[i]]]
  BY ReserveResult
<1> HIDE DEF q
<1>4. /\ \A j \in Intent \ {i} : q.resv[j] = p.resv[j]
      /\ q.resv[i] = [st |-> "ACTIVE", left |-> Quote[i]]
  BY <1>1, <1>2, <1>3 DEF Resv
<1>5. q.resv[i].left = Quote[i] /\ q.resv[i].left >= 0 /\ Money!Active(q, i)
  BY <1>1, <1>4 DEF Money!Active
<1>6. q.reserved = p.reserved - p.resv[i].left + q.resv[i].left
  BY <1>1, <1>2, <1>3, <1>5
<1>7. PoolSound(q)
  BY <1>1, <1>3, <1>4, <1>5, <1>6, PoolChange
<1> QED
  BY <1>7 DEF q

\* A release takes from the pool what the reservation had left.
LEMMA ReleaseKeepsPool ==
    ASSUME NEW p \in Money!Book, PoolSound(p), NEW i \in Intent
    PROVE  PoolSound(Money!ReleaseOrders(p, {i}))
<1> DEFINE q == Money!ReleaseOrders(p, {i})
<1>2. p.resv \in Resv /\ p.reserved \in Int /\ p.resv[i].left \in Int
  BY MoneyType DEF Resv
<1>3. /\ q \in Money!Book
      /\ q.reserved = IF Money!Active(p, i) THEN p.reserved - p.resv[i].left ELSE p.reserved
      /\ q.resv = Ended(p.resv, i)
  BY ReleaseResult
<1> HIDE DEF q
<1>4. /\ \A j \in Intent \ {i} : q.resv[j] = p.resv[j]
      /\ q.resv[i] = IF Money!Active(p, i) THEN [st |-> "RELEASED", left |-> 0] ELSE p.resv[i]
  BY <1>3 DEF Ended, Money!Active
<1>5. q.resv[i].left = 0 /\ ~Money!Active(q, i)
  BY <1>4 DEF Money!Active, PoolSound
<1>6. q.reserved = p.reserved - p.resv[i].left + q.resv[i].left
  BY <1>2, <1>3, <1>5 DEF PoolSound
<1>7. PoolSound(q)
  BY <1>3, <1>4, <1>5, <1>6, PoolChange
<1> QED
  BY <1>7 DEF q

\* A BUY's settlement: paid out of its own reservation, the rest of which is released.
LEMMA PayResult ==
    ASSUME NEW p \in Money!Book, PoolSound(p), NEW i \in BuyIntents,
           NEW qty \in Int, NEW cost \in Int, cost <= p.resv[i].left, Money!Active(p, i)
    PROVE  LET q == Money!ReleaseOrders(Money!Consume(Money!Fill(p, i, qty, cost), i, cost), {i})
           IN  /\ q \in Money!Book /\ PoolSound(q)
               /\ q.cash = p.cash - cost /\ q.pos = p.pos + qty
<1> DEFINE f == Money!Fill(p, i, qty, cost)
           c == Money!Consume(f, i, cost)
           q == Money!ReleaseOrders(c, {i})
<1>1. i \in Intent
  BY ManualAssumption
<1>2. p.resv \in Resv /\ p.reserved \in Int /\ p.resv[i].left \in Nat /\ p.resv[i].left <= p.reserved
  BY <1>1, LeftWithinPool, MoneyType
<1>3. /\ f \in Money!Book /\ f.reserved = p.reserved /\ f.resv = p.resv
      /\ f.cash = p.cash - cost /\ f.pos = p.pos + qty
  BY <1>1, FillResult
<1> HIDE DEF f
<1>4. cost <= f.reserved
  BY <1>2, <1>3
<1>5. /\ c \in Money!Book /\ c.cash = f.cash /\ c.pos = f.pos
      /\ c.reserved = f.reserved - cost
      /\ c.resv = [f.resv EXCEPT ![i].left = f.resv[i].left - cost]
  BY <1>1, <1>3, <1>4, ConsumeResult
<1> HIDE DEF c
<1>6. /\ q \in Money!Book /\ q.cash = c.cash /\ q.pos = c.pos
      /\ q.reserved = IF Money!Active(c, i) THEN c.reserved - c.resv[i].left ELSE c.reserved
      /\ q.resv = Ended(c.resv, i)
  BY <1>1, <1>5, ReleaseResult
<1> HIDE DEF q
<1>7. /\ \A j \in Intent \ {i} : c.resv[j] = p.resv[j]
      /\ c.resv[i].left = p.resv[i].left - cost /\ c.resv[i].st = "ACTIVE"
  BY <1>1, <1>2, <1>3, <1>5 DEF Resv, Money!Active
<1>8. /\ \A j \in Intent \ {i} : q.resv[j] = p.resv[j]
      /\ q.resv[i].left = 0 /\ ~Money!Active(q, i)
  BY <1>1, <1>6, <1>7 DEF Ended, Money!Active
<1>9. q.reserved = p.reserved - p.resv[i].left + q.resv[i].left
  BY <1>2, <1>3, <1>5, <1>6, <1>7, <1>8 DEF Money!Active
<1>10. PoolSound(q)
  BY <1>1, <1>6, <1>8, <1>9, PoolChange
<1> QED
  BY <1>3, <1>5, <1>6, <1>10 DEF q, c, f

----------------------------------------------------------------------------
(* Settlements *)

\* No settlement looks like the absence of one.
LEMMA UnsettledIsNone ==
    /\ Unsettled \notin Settlement
    /\ \A s \in Settlement : s.x \in XOrder /\ s.x # None /\ s.mode \in Accounted /\ s.mode # "NONE"
    /\ Unsettled.x = None /\ Unsettled.mode = "NONE"
BY ManualAssumption DEF Unsettled, Settlement, Accounted

\* What an order is worth is a number.
LEMMA OrderAmounts ==
    ASSUME NEW w \in Views, NEW x \in XOrder, NEW i
    PROVE  w[x].filled \in Int /\ OrderCost(i, w[x]) \in Int
<1> DEFINE o == w[x]
<1>1. o \in OrderView
  BY DEF Views
<1>2. o.filled \in Int
  BY <1>1 DEF OrderView, Quantity
<1>3. o.price \in Int
  <2>1. o.price \in Price \cup {0}
    BY <1>1 DEF OrderView
  <2>2. Price \cup {0} \subseteq Int
    BY ManualAssumption
  <2> QED
    BY <2>1, <2>2
<1> HIDE DEF o
<1>4. o.filled * o.price \in Int
  BY <1>2, <1>3
<1>5. OrderCost(i, o) \in Int
  BY <1>4 DEF OrderCost
<1> QED
  BY <1>2, <1>5 DEF o

\* What a settlement moved is a number.
LEMMA EffectsType ==
    ASSUME NEW b, b.settled \in [Intent -> Settlement \cup {Unsettled}], NEW w \in Views,
           NEW i \in Intent
    PROVE  Spent(b, w, i) \in Int /\ Gained(b, w, i) \in Int
<1>1. CASE b.settled[i] = Unsettled
  BY <1>1 DEF Spent, Gained
<1>2. CASE b.settled[i] # Unsettled
  <2>1. b.settled[i].x \in XOrder
    BY <1>2, UnsettledIsNone
  <2>2. /\ w[b.settled[i].x].filled \in Int
        /\ OrderCost(i, w[b.settled[i].x]) \in Int
    BY <2>1, OrderAmounts
  <2> QED
    BY <2>2 DEF Spent, Gained
<1> QED
  BY <1>1, <1>2

\* Another money, the same settlements.
LEMMA SameSettlements ==
    ASSUME NEW b, NEW w, BookSound(b, w), NEW q \in Money!Book, PoolSound(q),
           q.cash = b.money.cash, q.pos = b.money.pos
    PROVE  LET c == [b EXCEPT !.money = q] IN BookSound(c, w) /\ c.settled = b.settled
<1> DEFINE c == [b EXCEPT !.money = q]
<1>1. /\ b.money \in Money!Book
      /\ b.settled \in [Intent -> Settlement \cup {Unsettled}]
  BY DEF BookSound, ManagedState
<1>2. c \in ManagedState /\ c.money = q /\ c.settled = b.settled
  BY <1>1 DEF BookSound, ManagedState
<1> HIDE DEF c
<1>3. SettledOnce(c) /\ SettledOnTruth(c, w)
  BY <1>2 DEF BookSound, SettledOnce, SettledOnTruth
<1>4. BalancesAreSettled(c, w)
  <2>1. \A i : Spent(c, w, i) = Spent(b, w, i) /\ Gained(c, w, i) = Gained(b, w, i)
    BY <1>2 DEF Spent, Gained
  <2>2. /\ [i \in Intent |-> Spent(c, w, i)] = [i \in Intent |-> Spent(b, w, i)]
        /\ [i \in Intent |-> Gained(c, w, i)] = [i \in Intent |-> Gained(b, w, i)]
    BY <2>1
  <2> QED
    BY <1>2, <2>2 DEF BookSound, BalancesAreSettled
<1>5. PoolIsReserved(c) /\ LeftIfActive(c)
  BY <1>2, PoolSoundIff
<1> QED
  BY <1>2, <1>3, <1>4, <1>5 DEF BookSound, c

\* propose.
LEMMA ReserveSound ==
    ASSUME NEW b, NEW w, BookSound(b, w), NEW i \in BuyIntents, b.money.resv[i].st = "NONE"
    PROVE  LET c == [b EXCEPT !.money = Money!ReserveOrder(b.money, i)] IN
           BookSound(c, w) /\ c.settled = b.settled
<1>1. b.money \in Money!Book /\ PoolSound(b.money)
  BY PoolSoundIff DEF BookSound, ManagedState
<1> DEFINE q == Money!ReserveOrder(b.money, i)
<1>2. q \in Money!Book /\ PoolSound(q) /\ q.cash = b.money.cash /\ q.pos = b.money.pos
  BY <1>1, ReserveResult, ReserveKeepsPool
<1> HIDE DEF q
<1>3. LET c == [b EXCEPT !.money = q] IN BookSound(c, w) /\ c.settled = b.settled
  BY <1>2, SameSettlements
<1> QED
  BY <1>3 DEF q

\* A canceled intent, a leaked reservation.
LEMMA ReleaseSound ==
    ASSUME NEW b, NEW w, BookSound(b, w), NEW i \in Intent
    PROVE  BookSound(Released(b, i), w) /\ Released(b, i).settled = b.settled
<1>1. b.money \in Money!Book /\ PoolSound(b.money)
  BY PoolSoundIff DEF BookSound, ManagedState
<1> DEFINE q == Money!ReleaseOrders(b.money, {i})
<1>2. q \in Money!Book /\ PoolSound(q) /\ q.cash = b.money.cash /\ q.pos = b.money.pos
  BY <1>1, ReleaseResult, ReleaseKeepsPool
<1>3. Released(b, i) = [b EXCEPT !.money = q]
  BY DEF Released
<1> HIDE DEF q
<1>4. LET c == [b EXCEPT !.money = q] IN BookSound(c, w) /\ c.settled = b.settled
  BY <1>2, SameSettlements
<1> QED
  BY <1>3, <1>4

\* settleManualOrder: the settlement of an intent that has none.
LEMMA NewSettlement ==
    ASSUME NEW b, NEW w, BookSound(b, w), NEW i \in Intent, b.settled[i] = Unsettled,
           NEW x \in XOrder, NEW mode \in Accounted,
           w[x].st = "DONE", w[x].filled > 0, w[x].fee = "quote", i \in w[x].fits,
           \A j \in Intent : b.settled[j].x # x,
           NEW q \in Money!Book, PoolSound(q),
           q.cash = IF i \in BuyIntents THEN b.money.cash - OrderCost(i, w[x])
                                        ELSE b.money.cash + OrderCost(i, w[x]),
           q.pos = IF i \in BuyIntents THEN b.money.pos + w[x].filled
                                       ELSE b.money.pos - w[x].filled
    PROVE  BookSound([money |-> q, settled |-> [b.settled EXCEPT ![i] = [x |-> x, mode |-> mode]]], w)
<1> DEFINE new == [x |-> x, mode |-> mode]
           c == [money |-> q, settled |-> [b.settled EXCEPT ![i] = new]]
<1>1. /\ b.money \in Money!Book /\ w \in Views
      /\ b.settled \in [Intent -> Settlement \cup {Unsettled}]
  BY DEF BookSound, ManagedState
<1>2. new \in Settlement /\ new # Unsettled /\ new.x = x /\ new.mode = mode
  BY ManualAssumption DEF Settlement, Unsettled
<1> HIDE DEF new
<1>3. /\ c \in ManagedState /\ c.money = q
      /\ c.settled \in [Intent -> Settlement \cup {Unsettled}]
      /\ c.settled[i] = new
      /\ \A j \in Intent \ {i} : c.settled[j] = b.settled[j]
  BY <1>1, <1>2 DEF ManagedState
<1> HIDE DEF c
<1>4. SettledOnce(c)
  <2> SUFFICES ASSUME NEW j \in Intent, NEW k \in Intent, j # k,
                      c.settled[j].x = c.settled[k].x
               PROVE  c.settled[j] = Unsettled
    BY DEF SettledOnce
  <2>1. j # i /\ k # i
    BY <1>2, <1>3
  <2> QED
    BY <1>3, <2>1 DEF BookSound, SettledOnce
<1>5. SettledOnTruth(c, w)
  <2> SUFFICES ASSUME NEW j \in Intent, c.settled[j] # Unsettled
               PROVE  LET o == w[c.settled[j].x] IN
                      o.st = "DONE" /\ o.filled > 0 /\ o.fee = "quote" /\ j \in o.fits
    BY DEF SettledOnTruth
  <2>1. CASE j = i
    BY <1>2, <1>3, <2>1
  <2>2. CASE j # i
    BY <1>3, <2>2 DEF BookSound, SettledOnTruth
  <2> QED
    BY <2>1, <2>2
<1>6. BalancesAreSettled(c, w)
  <2> DEFINE f == [j \in Intent |-> Spent(b, w, j)]
             g == [j \in Intent |-> Spent(c, w, j)]
             h == [j \in Intent |-> Gained(b, w, j)]
             k == [j \in Intent |-> Gained(c, w, j)]
  <2>1. \A j \in Intent : f[j] \in Int /\ g[j] \in Int /\ h[j] \in Int /\ k[j] \in Int
    BY <1>1, <1>3, EffectsType
  <2>2. \A j \in Intent \ {i} : g[j] = f[j] /\ k[j] = h[j]
    BY <1>3 DEF Spent, Gained
  <2>3. f[i] = 0 /\ h[i] = 0
    BY DEF Spent, Gained
  <2>4. /\ g[i] = IF i \in BuyIntents THEN OrderCost(i, w[x]) ELSE -OrderCost(i, w[x])
        /\ k[i] = IF i \in BuyIntents THEN w[x].filled ELSE -w[x].filled
    BY <1>2, <1>3 DEF Spent, Gained
  <2>5. IsFiniteSet(Intent) /\ w[x].filled \in Int /\ OrderCost(i, w[x]) \in Int
    BY <1>1, ManualAssumption, OrderAmounts
  <2>6. /\ b.money.cash = Cash0 - SumFunctionOnSet(f, Intent)
        /\ b.money.pos = Pos0 + SumFunctionOnSet(h, Intent)
    BY DEF BookSound, BalancesAreSettled
  <2>7. BalancesAreSettled(c, w) <=> /\ q.cash = Cash0 - SumFunctionOnSet(g, Intent)
                                     /\ q.pos = Pos0 + SumFunctionOnSet(k, Intent)
    BY <1>3 DEF BalancesAreSettled
  <2> HIDE DEF f, g, h, k
  <2>8. /\ SumFunctionOnSet(g, Intent) = SumFunctionOnSet(f, Intent) - f[i] + g[i]
        /\ SumFunctionOnSet(k, Intent) = SumFunctionOnSet(h, Intent) - h[i] + k[i]
        /\ SumFunctionOnSet(f, Intent) \in Int /\ SumFunctionOnSet(h, Intent) \in Int
    BY <2>1, <2>2, <2>5, SumUpdate, SumInt
  <2>9. Cash0 \in Int /\ Pos0 \in Int
    BY ManualAssumption
  <2> DEFINE cost == OrderCost(i, w[x])
             qty == w[x].filled
  <2>10. /\ cost \in Int /\ qty \in Int
         /\ g[i] = IF i \in BuyIntents THEN cost ELSE -cost
         /\ k[i] = IF i \in BuyIntents THEN qty ELSE -qty
         /\ q.cash = IF i \in BuyIntents THEN b.money.cash - cost ELSE b.money.cash + cost
         /\ q.pos = IF i \in BuyIntents THEN b.money.pos + qty ELSE b.money.pos - qty
    BY <2>4, <2>5
  <2> HIDE DEF cost, qty
  <2>11. q.cash = Cash0 - SumFunctionOnSet(g, Intent)
    BY <2>3, <2>6, <2>8, <2>9, <2>10
  <2>12. q.pos = Pos0 + SumFunctionOnSet(k, Intent)
    BY <2>3, <2>6, <2>8, <2>9, <2>10
  <2> QED
    BY <2>7, <2>11, <2>12
<1>7. PoolIsReserved(c) /\ LeftIfActive(c)
  BY <1>3, PoolSoundIff
<1> QED
  BY <1>1, <1>3, <1>4, <1>5, <1>6, <1>7 DEF BookSound, c, new

\* A settlement that the book allows leaves a sound book; it is recorded, once.
LEMMA SettleSound ==
    ASSUME NEW b, NEW w, BookSound(b, w), NEW i \in Intent,
           NEW x \in XOrder, NEW mode \in Accounted,
           w[x].st = "DONE", w[x].filled > 0, w[x].fee = "quote", i \in w[x].fits,
           CanSettle(b, i, w[x], x, mode)
    PROVE  LET c == Settled(b, i, w[x], x, mode) IN
           /\ BookSound(c, w)
           /\ c.settled[i].mode = mode
           /\ \A j \in Intent : b.settled[j] # Unsettled => c.settled[j] = b.settled[j]
<1>1. /\ b.money \in Money!Book /\ PoolSound(b.money) /\ w \in Views
      /\ b.settled \in [Intent -> Settlement \cup {Unsettled}]
  BY PoolSoundIff DEF BookSound, ManagedState
<1>2. CASE b.settled[i] # Unsettled
  <2>1. Settled(b, i, w[x], x, mode) = b
    BY <1>2 DEF Settled
  <2>2. b.settled[i] = [x |-> x, mode |-> mode]
    BY <1>2 DEF CanSettle
  <2>3. b.settled[i].mode = mode
    BY <2>2
  <2> QED
    BY <2>1, <2>3
<1>3. CASE b.settled[i] = Unsettled
  <2> DEFINE cost == OrderCost(i, w[x])
             qty == w[x].filled
             paid == Money!Fill(b.money, i, qty, cost)
             q == IF i \in BuyIntents
                    THEN Money!ReleaseOrders(Money!Consume(paid, i, cost), {i})
                    ELSE paid
             c == [money |-> q,
                   settled |-> [b.settled EXCEPT ![i] = [x |-> x, mode |-> mode]]]
  <2>1. Settled(b, i, w[x], x, mode) = c
    BY <1>3, Zenon DEF Settled
  <2>2. /\ \A j \in Intent : b.settled[j].x # x
        /\ i \in BuyIntents => /\ Money!Active(b.money, i)
                               /\ cost <= b.money.resv[i].left
    BY <1>3 DEF CanSettle
  <2>3. cost \in Int /\ qty \in Int
    BY <1>1, OrderAmounts
  <2>4. /\ q \in Money!Book /\ PoolSound(q)
        /\ q.cash = IF i \in BuyIntents THEN b.money.cash - cost ELSE b.money.cash + cost
        /\ q.pos = IF i \in BuyIntents THEN b.money.pos + qty ELSE b.money.pos - qty
    <3> HIDE DEF cost, qty
    <3>1. CASE i \in BuyIntents
      BY <1>1, <2>2, <2>3, <3>1, PayResult
    <3>2. CASE i \notin BuyIntents
      <4>1. /\ paid \in Money!Book /\ paid.reserved = b.money.reserved
            /\ paid.resv = b.money.resv
            /\ paid.cash = b.money.cash + cost /\ paid.pos = b.money.pos - qty
        BY <1>1, <2>3, <3>2, FillResult
      <4> HIDE DEF paid
      <4>2. PoolSound(paid)
        BY <1>1, <4>1 DEF PoolSound, Money!Active
      <4> QED
        BY <3>2, <4>1, <4>2
    <3> QED
      BY <3>1, <3>2
  <2> HIDE DEF q
  <2>5. BookSound(c, w)
    BY <1>3, <2>2, <2>4, NewSettlement
  <2>6. /\ c.settled[i].mode = mode
        /\ \A j \in Intent : b.settled[j] # Unsettled => c.settled[j] = b.settled[j]
    BY <1>1, <1>3
  <2> QED
    BY <2>1, <2>5, <2>6
<1> QED
  BY <1>2, <1>3

\* The book of an empty state directory is sound.
LEMMA FreshSound == ASSUME NEW w \in Views PROVE BookSound(Fresh, w)
<1> DEFINE p == Money!EmptyBook(Cash0, Pos0)
<1>1. /\ p \in Money!Book /\ p.cash = Cash0 /\ p.pos = Pos0 /\ p.reserved = 0
      /\ \A i \in Intent : p.resv[i].left = 0 /\ p.resv[i].st = "NONE"
      /\ p.resv \in Resv
  <2>1. Cash0 \in Int /\ Pos0 \in Int
    BY ManualAssumption
  <2> QED
    BY <2>1 DEF Money!EmptyBook, Money!Book, Resv
<1> HIDE DEF p
<1>2. Fresh.money = p /\ Fresh.settled = [i \in Intent |-> Unsettled] /\ Fresh \in ManagedState
  BY <1>1 DEF Fresh, ManagedState, p
<1>3. SettledOnce(Fresh) /\ SettledOnTruth(Fresh, w)
  BY <1>2 DEF SettledOnce, SettledOnTruth
<1>4. BalancesAreSettled(Fresh, w)
  <2> DEFINE f == [i \in Intent |-> Spent(Fresh, w, i)]
             g == [i \in Intent |-> Gained(Fresh, w, i)]
  <2>1. \A i \in Intent : f[i] = 0 /\ g[i] = 0
    BY <1>2 DEF Spent, Gained
  <2>2. IsFiniteSet(Intent) /\ Cash0 \in Int /\ Pos0 \in Int
    BY ManualAssumption
  <2>3. SumFunctionOnSet(f, Intent) = 0 /\ SumFunctionOnSet(g, Intent) = 0
    <3> HIDE DEF f, g
    <3> QED
      BY <2>1, <2>2, SumZero
  <2> QED
    BY <1>1, <1>2, <2>2, <2>3 DEF BalancesAreSettled
<1>5. PoolSound(p)
  <2> DEFINE f == LeftOf(p.resv)
  <2>1. IsFiniteSet(Intent) /\ \A i \in Intent : f[i] = 0
    BY <1>1, ManualAssumption DEF LeftOf
  <2>2. SumFunctionOnSet(f, Intent) = 0
    <3> HIDE DEF f
    <3> QED
      BY <2>1, SumZero
  <2> QED
    BY <1>1, <2>2 DEF PoolSound
<1>6. PoolIsReserved(Fresh) /\ LeftIfActive(Fresh)
  BY <1>1, <1>2, <1>5, PoolSoundIff
<1> QED
  BY <1>2, <1>3, <1>4, <1>6 DEF BookSound

\* The world moves: a final order stays as it is.
LEMMA WorldSound ==
    ASSUME NEW b, NEW w, BookSound(b, w), NEW v \in Views,
           \A x \in XOrder : w[x].st = "DONE" => v[x] = w[x]
    PROVE  BookSound(b, v)
<1>1. b.settled \in [Intent -> Settlement \cup {Unsettled}]
  BY DEF BookSound, ManagedState
<1>2. ASSUME NEW i \in Intent, b.settled[i] # Unsettled
      PROVE  v[b.settled[i].x] = w[b.settled[i].x]
  <2>1. b.settled[i].x \in XOrder
    BY <1>1, <1>2, UnsettledIsNone
  <2>2. w[b.settled[i].x].st = "DONE"
    BY <1>2 DEF BookSound, SettledOnTruth
  <2> QED
    BY <2>1, <2>2
<1>3. \A i \in Intent : Spent(b, v, i) = Spent(b, w, i) /\ Gained(b, v, i) = Gained(b, w, i)
  BY <1>2 DEF Spent, Gained
<1>4. BalancesAreSettled(b, v)
  <2>1. /\ [i \in Intent |-> Spent(b, v, i)] = [i \in Intent |-> Spent(b, w, i)]
        /\ [i \in Intent |-> Gained(b, v, i)] = [i \in Intent |-> Gained(b, w, i)]
    BY <1>3
  <2> QED
    BY <2>1 DEF BookSound, BalancesAreSettled
<1>5. SettledOnTruth(b, v)
  BY <1>2 DEF BookSound, SettledOnTruth
<1> QED
  BY <1>4, <1>5 DEF BookSound

----------------------------------------------------------------------------
(* The invariant of every run, also with commands that overlap *)

\* Past its start, every command but reconcile works on the intent it was given.
ActsOnIntent(c) ==
    \/ run[c].at \in {"read", "closing"}
    \/ run[c].at = "loaded" /\ run[c].op # "reconcile"
    => run[c].i \in Intent

\* The stored book and every command's copy are sound, overlapping commands included.
ManIInv ==
    /\ ManTypeOK
    /\ \A c \in Command : ActsOnIntent(c)
    /\ BookSound(disk, xo)
    /\ \A c \in Command : BookSound(run[c].book, xo)

\* A finite set of numbers has a largest one.
LEMMA MaxOfFinite ==
    ASSUME NEW S, IsFiniteSet(S), S # {}, \A y \in S : y \in Int
    PROVE  Max(S) \in S /\ \A y \in S : y <= Max(S)
<1> DEFINE Has(T) == \E x \in T : \A y \in T : x >= y
           Bad == {T \in SUBSET S : T # {} /\ ~Has(T)}
<1>1. Bad = {}
  <2> SUFFICES ASSUME Bad # {} PROVE FALSE
    OBVIOUS
  <2>1. PICK T \in Bad : \A U \in Bad : U \subseteq T => U = T
    <3>1. Bad \in SUBSET SUBSET S
      OBVIOUS
    <3> HIDE DEF Bad, Has
    <3> QED
      BY <3>1, SmallestSet
  <2>2. PICK x \in T : TRUE
    OBVIOUS
  <2>3. CASE T \ {x} = {}
    BY <2>2, <2>3
  <2>4. CASE T \ {x} # {}
    <3>1. Has(T \ {x})
      <4>1. T \ {x} \in SUBSET S /\ T \ {x} # T
        BY <2>2
      <4> HIDE DEF Has
      <4> QED
        BY <2>1, <2>4, <4>1
    <3>2. PICK m \in T \ {x} : \A y \in T \ {x} : m >= y
      BY <3>1
    <3> QED
      BY <2>2, <3>2
  <2> QED
    BY <2>3, <2>4
<1>2. \E x \in S : \A y \in S : x >= y
  BY <1>1
<1>3. Max(S) \in S /\ \A y \in S : Max(S) >= y
  BY <1>2 DEF Max
<1> QED
  BY <1>3

\* An order may have filled nothing.
LEMMA QuantityHasZero == 0 \in Quantity
<1> DEFINE S == {Size[i] : i \in Intent} \cup {0}
<1>1. IsFiniteSet(S) /\ S # {}
  <2> DEFINE T == {Size[i] : i \in Intent}
  <2>1. Size \in Surjection(Intent, T)
    BY ManualAssumption DEF Surjection
  <2>2. IsFiniteSet(T)
    BY <2>1, ManualAssumption, FS_Surjection
  <2>3. S = T \cup {0}
    OBVIOUS
  <2> HIDE DEF S, T
  <2> QED
    BY <2>2, <2>3, FS_AddElement
<1>2. S \subseteq Int /\ 0 \in S
  BY ManualAssumption
<1>3. Max(S) \in Int /\ 0 <= Max(S)
  <2> HIDE DEF S
  <2> QED
    BY <1>1, <1>2, MaxOfFinite
<1> QED
  BY <1>3 DEF Quantity

\* It holds when nothing has run.
LEMMA ManIInvInit == ASSUME ManInit PROVE ManIInv
<1>1. xo \in Views
  BY QuantityHasZero DEF ManInit, NoOrder, OrderView, Views
<1>2. BookSound(Fresh, xo)
  BY <1>1, FreshSound
<1>3. Fresh \in ManagedState
  BY <1>2 DEF BookSound
<1>4. Idle \in Run /\ Idle.book = Fresh /\ Idle.at = "idle"
  <2>1. NoIntent \in IntentRecord
    BY DEF NoIntent, IntentRecord, IntentStatus
  <2> QED
    BY <1>3, <2>1 DEF Idle, Run, At, Op, IntentStatus
<1>5. ManTypeOK
  <2>1. NoIntent \in IntentRecord
    BY DEF NoIntent, IntentRecord, IntentStatus
  <2> QED
    BY <1>1, <1>3, <1>4, <2>1 DEF ManInit, ManTypeOK, Views
<1> QED
  BY <1>2, <1>4, <1>5 DEF ManInit, ManIInv, ActsOnIntent

\* What a step of one command does at most.
Moved(c) ==
    /\ run' \in [Command -> Run]
    /\ \A d \in Command \ {c} : run'[d] = run[d]
    /\ xo' = xo
    /\ intent' \in [Intent -> IntentRecord]
    /\ found' \subseteq Intent \X XOrder
    /\ BookSound(disk', xo) /\ BookSound(run'[c].book, xo)
    /\ \/ run'[c].at \in {"read", "closing"}
       \/ run'[c].at = "loaded" /\ run'[c].op # "reconcile"
       => run'[c].i \in Intent

\* A command's step of that form keeps the invariant.
LEMMA MovedKeeps ==
    ASSUME ManIInv, NEW c \in Command, Moved(c) PROVE ManIInv'
<1>1. disk' \in ManagedState
  BY DEF Moved, BookSound
<1>2. ManTypeOK'
  BY <1>1 DEF Moved, ManIInv, ManTypeOK
<1>3. ASSUME NEW d \in Command
      PROVE  BookSound(run'[d].book, xo) /\ ActsOnIntent(d)'
  <2>1. CASE d = c
    BY <2>1 DEF Moved, ActsOnIntent
  <2>2. CASE d # c
    BY <2>2 DEF Moved, ManIInv, ActsOnIntent
  <2> QED
    BY <2>1, <2>2
<1> QED
  BY <1>2, <1>3 DEF Moved, ManIInv

\* A command that is done has an empty book, which is sound.
LEMMA IdleIsRun ==
    ASSUME NEW w \in Views
    PROVE  Idle \in Run /\ Idle.at = "idle" /\ Idle.book = Fresh /\ BookSound(Idle.book, w)
<1>1. BookSound(Fresh, w) /\ Fresh \in ManagedState
  BY FreshSound DEF BookSound
<1>2. NoIntent \in IntentRecord
  BY DEF NoIntent, IntentRecord, IntentStatus
<1> QED
  BY <1>1, <1>2 DEF Idle, Run, At, Op, IntentStatus

\* A command that ends.
LEMMA StopMoves ==
    ASSUME ManIInv, NEW c \in Command, Stop(c), xo' = xo, disk' = disk,
           intent' \in [Intent -> IntentRecord], found' \subseteq Intent \X XOrder
    PROVE  Moved(c)
<1>1. xo \in Views /\ run \in [Command -> Run] /\ BookSound(disk, xo)
  BY DEF ManIInv, ManTypeOK, Views
<1>2. Idle \in Run /\ Idle.at = "idle" /\ BookSound(Idle.book, xo)
  BY <1>1, IdleIsRun
<1>3. /\ run' \in [Command -> Run] /\ run'[c] = Idle
      /\ \A d \in Command \ {c} : run'[d] = run[d]
  BY <1>1, <1>2 DEF Stop
<1> QED
  BY <1>1, <1>2, <1>3 DEF Moved

\* The record a command saves.
LEMMA SavedRecord ==
    ASSUME ManIInv, NEW c \in Command, NEW i \in Intent, NEW st \in IntentStatus,
           NEW ev \in Evidence \cup {NoEvidence}, SaveIntent(i, st, ev)
    PROVE  /\ intent' \in [Intent -> IntentRecord]
           /\ intent'[i].st = st /\ \A j \in Intent \ {i} : intent'[j] = intent[j]
<1>1. intent \in [Intent -> IntentRecord] /\ [st |-> st, ev |-> ev] \in IntentRecord
  BY DEF ManIInv, ManTypeOK, IntentRecord
<1> QED
  BY <1>1 DEF SaveIntent

\* What a command read of the intents are records of intents.
LEMMA ReadRecord ==
    ASSUME ManIInv, NEW c \in Command, NEW i \in Intent
    PROVE  /\ run[c].read[i].st \in IntentStatus
           /\ run[c].read[i].ev \in Evidence \cup {NoEvidence}
<1>1. run[c] \in Run
  BY DEF ManIInv, ManTypeOK
<1>2. run[c].read[i] \in IntentRecord
  BY <1>1 DEF Run
<1> QED
  BY <1>2 DEF IntentRecord

\* A command that marks its intent and ends.
LEMMA MarkedMoves ==
    ASSUME ManIInv, NEW c \in Command, run[c].i \in Intent, NEW st \in IntentStatus,
           Marked(c, st), xo' = xo, found' \subseteq Intent \X XOrder
    PROVE  Moved(c)
<1>1. intent' \in [Intent -> IntentRecord]
  BY SavedRecord, ReadRecord DEF Marked
<1> QED
  BY <1>1, StopMoves DEF Marked

\* A command that saved the book, and has still to save its intent.
LEMMA ClosingMoves ==
    ASSUME ManIInv, NEW c \in Command, run[c].i \in Intent, NEW st \in IntentStatus,
           NEW b, BookSound(b, xo),
           disk' = b, run' = [run EXCEPT ![c].at = "closing", ![c].end = st],
           intent' = intent, xo' = xo, found' \subseteq Intent \X XOrder
    PROVE  /\ Moved(c)
           /\ run'[c].at = "closing" /\ run'[c].end = st /\ run'[c].i = run[c].i
           /\ run'[c].op = run[c].op
<1>1. run \in [Command -> Run] /\ run[c] \in Run /\ intent \in [Intent -> IntentRecord]
  BY DEF ManIInv, ManTypeOK
<1>2. /\ run'[c] = [run[c] EXCEPT !.at = "closing", !.end = st]
      /\ \A d \in Command \ {c} : run'[d] = run[d]
      /\ DOMAIN run' = Command /\ run' = [d \in Command |-> run'[d]]
  BY <1>1
<1>3. /\ run'[c] \in Run /\ run'[c].at = "closing" /\ run'[c].end = st
      /\ run'[c].i = run[c].i /\ run'[c].book = run[c].book /\ run'[c].op = run[c].op
  BY <1>1, <1>2 DEF Run, At
<1>4. run' \in [Command -> Run]
  BY <1>1, <1>2, <1>3
<1>5. BookSound(run[c].book, xo)
  BY DEF ManIInv
<1> QED
  BY <1>1, <1>2, <1>3, <1>4, <1>5 DEF Moved

\* A command starts on the stored book.
LEMMA StartMoves == ASSUME ManIInv, NEW c \in Command, Start(c) PROVE Moved(c)
<1>1. /\ xo \in Views /\ run \in [Command -> Run] /\ BookSound(disk, xo)
      /\ disk \in ManagedState
  BY DEF ManIInv, ManTypeOK, Views
<1>2. Idle \in Run
  BY <1>1, IdleIsRun
<1>3. PICK op \in Op \ {"none"}, i \in Intent \cup {None} :
         /\ i = None <=> op = "reconcile"
         /\ run' = [run EXCEPT ![c] = [Idle EXCEPT !.at = "loaded", !.op = op, !.i = i,
                                                   !.book = disk]]
  BY DEF Start
<1> DEFINE new == [Idle EXCEPT !.at = "loaded", !.op = op, !.i = i, !.book = disk]
<1>4. new \in Run /\ new.at = "loaded" /\ new.op = op /\ new.i = i /\ new.book = disk
  BY <1>1, <1>2 DEF Run, At
<1> HIDE DEF new
<1>5. run' \in [Command -> Run] /\ run'[c] = new /\ \A d \in Command \ {c} : run'[d] = run[d]
  BY <1>1, <1>3, <1>4 DEF new
<1>6. op # "reconcile" => i \in Intent
  BY <1>3
<1>7. UNCHANGED <<disk, intent, xo, found>>
  BY DEF Start
<1> QED
  BY <1>1, <1>4, <1>5, <1>6, <1>7 DEF Moved, ManIInv, ManTypeOK

\* Reading the intents leaves the book alone.
LEMMA ReadMoves ==
    ASSUME ManIInv, NEW c \in Command, Read(c)
    PROVE  /\ Moved(c)
           /\ run'[c].book = run[c].book /\ run'[c].i = run[c].i
           /\ run'[c].at \in {"read", "repairing"}
<1>1. /\ run \in [Command -> Run] /\ run[c] \in Run /\ BookSound(run[c].book, xo)
      /\ intent \in [Intent -> IntentRecord]
  BY DEF ManIInv, ManTypeOK
<1> DEFINE at == IF run[c].op = "reconcile" THEN "repairing" ELSE "read"
           todo == IF run[c].op = "reconcile" THEN Known ELSE {}
           new == [run[c] EXCEPT !.at = at, !.read = intent, !.todo = todo]
<1>2. todo \subseteq Intent /\ at \in At /\ at \in {"read", "repairing"}
      /\ (at = "read" => run[c].op # "reconcile")
  BY DEF Known, At
<1>3. run' = [run EXCEPT ![c].at = at, ![c].read = intent, ![c].todo = todo]
  BY DEF Read
<1> HIDE DEF at, todo
<1>4. /\ run'[c] = new
      /\ \A d \in Command \ {c} : run'[d] = run[d]
      /\ DOMAIN run' = Command /\ run' = [d \in Command |-> run'[d]]
  BY <1>1, <1>3
<1>5. /\ new \in Run /\ new.at = at /\ new.i = run[c].i /\ new.op = run[c].op
      /\ new.book = run[c].book
  BY <1>1, <1>2 DEF Run
<1> HIDE DEF new
<1>6. run' \in [Command -> Run]
  BY <1>1, <1>4, <1>5
<1>7. run[c].op # "reconcile" => run[c].i \in Intent
  BY DEF Read, ManIInv, ActsOnIntent
<1>8. UNCHANGED <<disk, intent, xo, found>>
  BY DEF Read
<1> QED
  BY <1>1, <1>2, <1>4, <1>5, <1>6, <1>7, <1>8 DEF Moved, ManIInv, ManTypeOK

\* Steps that save no book.
LEMMA QuietMoves ==
    ASSUME ManIInv, NEW c \in Command,
           \/ GiveUp(c) \/ Confirm(c) \/ RecordEvidence(c) \/ SettleUnread(c) \/ Close(c)
           \/ Reported(c) \/ Die(c)
    PROVE  Moved(c)
<1>1. intent \in [Intent -> IntentRecord] /\ found \subseteq Intent \X XOrder
  BY DEF ManIInv, ManTypeOK
<1>2. CASE GiveUp(c) \/ Reported(c) \/ Die(c)
  BY <1>1, <1>2, StopMoves DEF GiveUp, Reported, Die
<1>3. CASE Confirm(c)
  <2>1. run[c].i \in Intent
    BY <1>3 DEF Confirm, ManIInv, ActsOnIntent
  <2>2. "CONFIRMED" \in IntentStatus
    BY DEF IntentStatus
  <2>3. intent' \in [Intent -> IntentRecord]
    BY <1>3, <2>1, <2>2, SavedRecord, ReadRecord DEF Confirm
  <2> QED
    BY <1>1, <1>3, <2>3, StopMoves DEF Confirm
<1>4. CASE RecordEvidence(c)
  <2>1. run[c].i \in Intent
    BY <1>4 DEF RecordEvidence, ManIInv, ActsOnIntent
  <2> DEFINE i == run[c].i
             r == run[c].read[i]
  <2>2. PICK ev \in Typed[i] :
            IF Contradicts(r.ev, ev) THEN SaveIntent(i, r.st, r.ev)
                                     ELSE SaveIntent(i, "EVIDENCE_RECORDED", ev)
    BY <1>4 DEF RecordEvidence
  <2>3. ev \in Evidence
    BY <2>1, TypedAssumption
  <2>4. "EVIDENCE_RECORDED" \in IntentStatus
    BY DEF IntentStatus
  <2>5. r.st \in IntentStatus /\ r.ev \in Evidence \cup {NoEvidence}
    BY <2>1, ReadRecord
  <2> HIDE DEF r
  <2>6. intent' \in [Intent -> IntentRecord]
    BY <2>1, <2>2, <2>3, <2>4, <2>5, SavedRecord
  <2> QED
    BY <1>1, <1>4, <2>6, StopMoves DEF RecordEvidence
<1>5. CASE SettleUnread(c)
  <2>1. run[c].i \in Intent
    BY <1>5 DEF SettleUnread, MaySettle, ManIInv, ActsOnIntent
  <2>2. "AMBIGUOUS" \in IntentStatus /\ "RECONCILIATION_REQUIRED" \in IntentStatus
    BY DEF IntentStatus
  <2>3. PICK st \in IntentStatus : Marked(c, st) /\ xo' = xo /\ found' = found
    BY <1>5, <2>2 DEF SettleUnread
  <2> QED
    BY <1>1, <2>1, <2>3, MarkedMoves
<1>6. CASE Close(c)
  <2>1. run[c].i \in Intent
    BY <1>6 DEF Close, ManIInv, ActsOnIntent
  <2>2. run[c].end \in IntentStatus
    BY DEF ManIInv, ManTypeOK, Run
  <2>3. intent' \in [Intent -> IntentRecord]
    BY <1>6, <2>1, <2>2, SavedRecord, ReadRecord DEF Close
  <2> QED
    BY <1>1, <1>6, <2>3, StopMoves DEF Close
<1> QED
  BY <1>2, <1>3, <1>4, <1>5, <1>6

\* A proposal is stored, and the book is not touched.
LEMMA ProposeMoves == ASSUME ManIInv, NEW c \in Command, Propose(c) PROVE Moved(c)
<1> DEFINE i == run[c].i
           b == run[c].book
<1>1. i \in Intent /\ BookSound(b, xo)
  BY DEF Propose, ManIInv, ActsOnIntent
<1>2. PICK d : BookSound(d, xo) /\ disk' = d
  <2>1. CASE i \in BuyIntents
    <3>1. b.money.resv[i].st = "NONE"
      BY DEF Propose
    <3>2. disk' = [b EXCEPT !.money = Money!ReserveOrder(b.money, i)]
      BY <2>1 DEF Propose, SaveBook
    <3> QED
      BY <1>1, <2>1, <3>1, <3>2, ReserveSound
  <2>2. CASE i \notin BuyIntents
    BY <1>1, <2>2 DEF Propose, SaveBook
  <2> QED
    BY <2>1, <2>2
<1>3. "PROPOSED" \in IntentStatus
  BY DEF IntentStatus
<1>4. /\ run' = [run EXCEPT ![c].at = "closing", ![c].end = "PROPOSED"]
      /\ intent' = intent /\ xo' = xo /\ found' = found
  BY DEF Propose
<1>5. found' \subseteq Intent \X XOrder
  BY <1>4 DEF ManIInv, ManTypeOK
<1> QED
  BY <1>1, <1>2, <1>3, <1>4, <1>5, ClosingMoves

\* No settlement is lost from one book to another.
KeepsSettled(b, d) ==
    \A j \in Intent : b.settled[j] # Unsettled => d.settled[j] = b.settled[j]

\* How a settle or a cancel ends: its intent is marked with a status that is not an
\* accounted one, or it saves a sound book, which holds the settlement if it is to be
\* accounted, and has still to save its intent.
Concluded(c) ==
    \/ \E st \in IntentStatus \ Accounted : Marked(c, st)
    \/ \E b \in ManagedState, st \in IntentStatus :
         /\ BookSound(b, xo) /\ KeepsSettled(run[c].book, b)
         /\ Closing(c, b, st)
         /\ st \in Accounted => b.settled[run[c].i].mode = st

\* settle ends in a mark of the intent, or in a book with one settlement more.
LEMMA SettleConcludes ==
    ASSUME ManIInv, NEW c \in Command, Settle(c)
    PROVE  /\ Concluded(c) /\ run[c].i \in Intent
           /\ xo' = xo /\ found' \subseteq Intent \X XOrder
<1> DEFINE i  == run[c].i
           b  == run[c].book
           ev == run[c].read[i].ev
           o  == xo[ev.x]
           final == o.st = "DONE" /\ ~Mismatch(i, ev, o)
<1>1. i \in Intent /\ BookSound(b, xo) /\ b.settled \in [Intent -> Settlement \cup {Unsettled}]
  BY DEF Settle, MaySettle, ManIInv, ActsOnIntent, BookSound, ManagedState
<1>2. ev \in Evidence
  BY <1>1, ReadRecord DEF Settle, MaySettle
<1>3. ev.x \in XOrder
  BY <1>2 DEF Evidence
<1>4. {"PENDING", "AMBIGUOUS", "CANCELED", "RECONCILIATION_REQUIRED"}
        \subseteq IntentStatus \ Accounted
  BY DEF IntentStatus, Terminal, Accounted
<1>5. final => i \in o.fits
  BY DEF Mismatch
<1>6. found' \subseteq Intent \X XOrder
  <2>1. found \subseteq Intent \X XOrder
    BY DEF ManIInv, ManTypeOK
  <2>2. found' = found \/ found' = found \cup {<<i, ev.x>>}
    BY DEF Settle
  <2> QED
    BY <1>1, <1>3, <2>1, <2>2
<1>7. Concluded(c)
  <2>1. \/ o.st = "OPEN" /\ Marked(c, "PENDING")
        \/ Mismatch(i, ev, o) /\ Marked(c, "AMBIGUOUS")
        \/ /\ final /\ o.filled = 0
           /\ IF b.money.resv[i].st = "NONE" THEN Marked(c, "CANCELED")
                                             ELSE Closing(c, Released(b, i), "CANCELED")
        \/ /\ final /\ o.filled > 0 /\ o.fee # "quote"
           /\ Marked(c, "RECONCILIATION_REQUIRED")
        \/ /\ final /\ o.filled > 0 /\ o.fee = "quote"
           /\ \E mode \in Accounted :
                IF CanSettle(b, i, o, ev.x, mode)
                  THEN Closing(c, Settled(b, i, o, ev.x, mode), mode)
                  ELSE Marked(c, "AMBIGUOUS")
    BY DEF Settle
  <2>2. CASE \E st \in {"PENDING", "AMBIGUOUS", "CANCELED", "RECONCILIATION_REQUIRED"} :
                Marked(c, st)
    BY <1>4, <2>2 DEF Concluded
  <2>3. CASE Closing(c, Released(b, i), "CANCELED")
    <3>1. /\ BookSound(Released(b, i), xo) /\ KeepsSettled(b, Released(b, i))
          /\ Released(b, i) \in ManagedState
      BY <1>1, ReleaseSound DEF KeepsSettled, BookSound
    <3> QED
      BY <1>4, <2>3, <3>1 DEF Concluded
  <2>4. ASSUME final, o.filled > 0, o.fee = "quote", NEW mode \in Accounted,
               CanSettle(b, i, o, ev.x, mode), Closing(c, Settled(b, i, o, ev.x, mode), mode)
        PROVE  Concluded(c)
    <3> DEFINE d == Settled(b, i, o, ev.x, mode)
    <3>1. o.st = "DONE" /\ i \in o.fits
      BY <1>5, <2>4
    <3>2. /\ BookSound(d, xo) /\ d.settled[i].mode = mode
          /\ \A j \in Intent : b.settled[j] # Unsettled => d.settled[j] = b.settled[j]
      <4> HIDE DEF b, i, ev
      <4> QED
        BY <1>1, <1>3, <2>4, <3>1, SettleSound
    <3>3. KeepsSettled(b, d) /\ d \in ManagedState
      BY <3>2 DEF KeepsSettled, BookSound
    <3>4. mode \in IntentStatus
      BY DEF IntentStatus, Terminal
    <3> QED
      BY <2>4, <3>2, <3>3, <3>4 DEF Concluded
  <2> HIDE DEF final, o, ev, b, i
  <2> QED
    BY <2>1, <2>2, <2>3, <2>4
<1>8. xo' = xo
  BY DEF Settle
<1> QED
  BY <1>1, <1>6, <1>7, <1>8

\* cancel ends in a mark of the intent, or in a book with its reservation released.
LEMMA CancelConcludes ==
    ASSUME ManIInv, NEW c \in Command, Cancel(c)
    PROVE  /\ Concluded(c) /\ run[c].i \in Intent
           /\ xo' = xo /\ found' \subseteq Intent \X XOrder
<1> DEFINE i == run[c].i
           b == run[c].book
<1>1. i \in Intent /\ BookSound(b, xo)
  BY DEF Cancel, ManIInv, ActsOnIntent
<1>2. "CANCELED" \in IntentStatus \ Accounted
  BY DEF IntentStatus, Terminal, Accounted
<1>3. /\ BookSound(Released(b, i), xo) /\ KeepsSettled(b, Released(b, i))
      /\ Released(b, i) \in ManagedState
  BY <1>1, ReleaseSound DEF KeepsSettled, BookSound
<1>4. Marked(c, "CANCELED") \/ Closing(c, Released(b, i), "CANCELED")
  BY DEF Cancel
<1>5. Concluded(c)
  BY <1>2, <1>3, <1>4 DEF Concluded
<1>6. UNCHANGED <<xo, found>>
  BY DEF Cancel
<1> QED
  BY <1>1, <1>5, <1>6 DEF ManIInv, ManTypeOK

\* Either end keeps every book sound.
LEMMA ConcludedMoves ==
    ASSUME ManIInv, NEW c \in Command, Concluded(c), run[c].i \in Intent,
           xo' = xo, found' \subseteq Intent \X XOrder
    PROVE  Moved(c)
<1>1. ASSUME NEW st \in IntentStatus \ Accounted, Marked(c, st) PROVE Moved(c)
  BY <1>1, MarkedMoves
<1>2. ASSUME NEW b, NEW st \in IntentStatus, BookSound(b, xo), Closing(c, b, st)
      PROVE  Moved(c)
  BY <1>2, ClosingMoves DEF Closing, SaveBook
<1> QED
  BY <1>1, <1>2 DEF Concluded

\* reconcile: a sound book that keeps every settlement, and at most the status of one
\* intent, taken from its settlement.
LEMMA RepairMoves ==
    ASSUME ManIInv, NEW c \in Command, NEW i \in Intent, Repair(c, i)
    PROVE  /\ Moved(c)
           /\ run'[c].at = "repairing"
           /\ \/ disk' = disk /\ run'[c].book = run[c].book
              \/ disk' = run'[c].book /\ KeepsSettled(run[c].book, run'[c].book)
           /\ \A j \in Intent :
                \/ intent'[j].st = intent[j].st
                \/ intent'[j].st = run[c].book.settled[j].mode
<1> DEFINE b == run[c].book
           r == run[c].read[i]
           leak == /\ b.settled[i] = Unsettled /\ r.st = "CANCELED"
                   /\ Money!Active(b.money, i) /\ r.ev.filled <= 0
           d == IF leak THEN Released(b, i) ELSE b
<1>1. /\ run \in [Command -> Run] /\ run[c] \in Run /\ BookSound(b, xo) /\ BookSound(disk, xo)
      /\ intent \in [Intent -> IntentRecord] /\ found \subseteq Intent \X XOrder
      /\ b.settled \in [Intent -> Settlement \cup {Unsettled}]
  BY DEF ManIInv, ManTypeOK, BookSound, ManagedState
<1>2. BookSound(d, xo) /\ KeepsSettled(b, d) /\ d \in ManagedState
  <2>1. BookSound(Released(b, i), xo) /\ KeepsSettled(b, Released(b, i))
    BY <1>1, ReleaseSound DEF KeepsSettled
  <2>2. KeepsSettled(b, b)
    BY DEF KeepsSettled
  <2> QED
    BY <1>1, <2>1, <2>2 DEF BookSound
<1>3. disk' = d \/ (disk' = disk /\ d = b)
  BY DEF Repair
<1>4. run' = [run EXCEPT ![c].todo = run[c].todo \ {i}, ![c].book = d]
  BY DEF Repair
<1>5. /\ intent' \in [Intent -> IntentRecord]
      /\ \A j \in Intent : \/ intent'[j].st = intent[j].st
                           \/ intent'[j].st = b.settled[j].mode
  <2>1. CASE Finalises(b, r, i)
    <3>1. b.settled[i].mode \in IntentStatus
      BY <1>1, <2>1, UnsettledIsNone DEF Finalises, IntentStatus, Terminal
    <3>2. r \in IntentRecord
      BY <1>1 DEF Run
    <3>3. intent' = [intent EXCEPT ![i] = [r EXCEPT !.st = b.settled[i].mode]]
      BY <2>1 DEF Repair
    <3> HIDE DEF r, b
    <3>4. /\ [r EXCEPT !.st = b.settled[i].mode] \in IntentRecord
          /\ [r EXCEPT !.st = b.settled[i].mode].st = b.settled[i].mode
      BY <3>1, <3>2 DEF IntentRecord
    <3> QED
      BY <1>1, <3>3, <3>4
  <2>2. CASE ~Finalises(b, r, i)
    BY <1>1, <2>2 DEF Repair
  <2> QED
    BY <2>1, <2>2
<1>6. run[c].at = "repairing" /\ xo' = xo /\ found' = found
  BY DEF Repair
<1> DEFINE new == [run[c] EXCEPT !.todo = run[c].todo \ {i}, !.book = d]
<1> HIDE DEF d
<1>7. /\ run'[c] = new
      /\ \A e \in Command \ {c} : run'[e] = run[e]
      /\ DOMAIN run' = Command /\ run' = [e \in Command |-> run'[e]]
  BY <1>1, <1>4
<1>8. new \in Run /\ new.at = run[c].at /\ new.book = d
  BY <1>1, <1>2 DEF Run
<1> HIDE DEF new
<1>9. run' \in [Command -> Run]
  BY <1>1, <1>7, <1>8
<1>10. Moved(c)
  BY <1>1, <1>2, <1>3, <1>5, <1>6, <1>7, <1>8, <1>9 DEF Moved
<1> QED
  BY <1>2, <1>3, <1>5, <1>6, <1>7, <1>8, <1>10

\* The operator's orders: a final one stays as it is.
LEMMA WorldMoves ==
    ASSUME ManIInv, NEW x \in XOrder, Place(x) \/ End(x)
    PROVE  /\ xo' \in Views
           /\ \A y \in XOrder : xo[y].st = "DONE" => xo'[y] = xo[y]
           /\ UNCHANGED <<disk, intent, run, found>>
<1>1. xo \in Views /\ xo[x] \in OrderView
  BY DEF ManIInv, ManTypeOK, Views
<1>2. CASE Place(x)
  <2> DEFINE fits == Fits[x] \cap Known
             new == [xo[x] EXCEPT !.st = "OPEN", !.fits = fits]
  <2>1. fits \subseteq Intent
    BY DEF Known
  <2>2. xo' = [xo EXCEPT ![x].st = "OPEN", ![x].fits = fits] /\ xo[x].st = "NONE"
    BY <1>2 DEF Place
  <2> HIDE DEF fits
  <2>3. /\ xo'[x] = new /\ \A y \in XOrder \ {x} : xo'[y] = xo[y]
        /\ DOMAIN xo' = XOrder /\ xo' = [y \in XOrder |-> xo'[y]]
    BY <1>1, <2>2 DEF Views
  <2>4. new \in OrderView
    BY <1>1, <2>1 DEF OrderView
  <2> HIDE DEF new
  <2> QED
    BY <1>1, <1>2, <2>2, <2>3, <2>4 DEF Views, Place
<1>3. CASE End(x)
  <2>1. PICK q \in Quantity, p \in Price, fee \in {"quote", "other"} :
            xo' = [xo EXCEPT ![x].st = "DONE", ![x].filled = q, ![x].price = p, ![x].fee = fee]
    BY <1>3 DEF End
  <2> DEFINE new == [xo[x] EXCEPT !.st = "DONE", !.filled = q, !.price = p, !.fee = fee]
  <2>2. /\ xo'[x] = new /\ \A y \in XOrder \ {x} : xo'[y] = xo[y]
        /\ DOMAIN xo' = XOrder /\ xo' = [y \in XOrder |-> xo'[y]]
    BY <1>1, <2>1 DEF Views
  <2>3. new \in OrderView
    BY <1>1 DEF OrderView
  <2> HIDE DEF new
  <2>4. xo[x].st = "OPEN" /\ UNCHANGED <<disk, intent, run, found>>
    BY <1>3 DEF End
  <2> QED
    BY <1>1, <2>2, <2>3, <2>4 DEF Views
<1> QED
  BY <1>2, <1>3

\* Every step of a command.
LEMMA CommandMoves ==
    ASSUME ManIInv, NEW c \in Command,
           \/ Start(c) \/ GiveUp(c) \/ Read(c) \/ Propose(c) \/ Confirm(c)
           \/ RecordEvidence(c) \/ SettleUnread(c) \/ Settle(c) \/ Cancel(c)
           \/ Close(c) \/ Reported(c) \/ Die(c)
           \/ \E i \in Intent : Repair(c, i)
    PROVE  Moved(c)
<1>1. CASE Start(c)
  BY <1>1, StartMoves
<1>2. CASE Read(c)
  BY <1>2, ReadMoves
<1>3. CASE Propose(c)
  BY <1>3, ProposeMoves
<1>4. CASE \/ GiveUp(c) \/ Confirm(c) \/ RecordEvidence(c) \/ SettleUnread(c) \/ Close(c)
           \/ Reported(c) \/ Die(c)
  BY <1>4, QuietMoves
<1>5. CASE Settle(c)
  BY <1>5, SettleConcludes, ConcludedMoves
<1>6. CASE Cancel(c)
  BY <1>6, CancelConcludes, ConcludedMoves
<1>7. CASE \E i \in Intent : Repair(c, i)
  BY <1>7, RepairMoves
<1> QED
  BY <1>1, <1>2, <1>3, <1>4, <1>5, <1>6, <1>7

\* Every step keeps every book sound.
LEMMA ManIInvStep == ASSUME ManIInv, [ManNext]_manVars PROVE ManIInv'
<1>1. CASE UNCHANGED manVars
  BY <1>1 DEF ManIInv, ManTypeOK, ActsOnIntent, manVars
<1>2. ASSUME NEW c \in Command,
             \/ Start(c) \/ GiveUp(c) \/ Read(c) \/ Propose(c) \/ Confirm(c)
             \/ RecordEvidence(c) \/ SettleUnread(c) \/ Settle(c) \/ Cancel(c)
             \/ Close(c) \/ Reported(c) \/ Die(c)
             \/ \E i \in Intent : Repair(c, i)
      PROVE  ManIInv'
  BY <1>2, CommandMoves, MovedKeeps
<1>3. ASSUME NEW x \in XOrder, Place(x) \/ End(x) PROVE ManIInv'
  <2>1. /\ xo' \in Views
        /\ \A y \in XOrder : xo[y].st = "DONE" => xo'[y] = xo[y]
        /\ UNCHANGED <<disk, intent, run, found>>
    BY <1>3, WorldMoves
  <2>2. \A b : BookSound(b, xo) => BookSound(b, xo')
    BY <2>1, WorldSound
  <2>3. ManTypeOK'
    BY <2>1 DEF ManIInv, ManTypeOK, Views
  <2>4. \A c \in Command : ActsOnIntent(c)'
    BY <2>1 DEF ManIInv, ActsOnIntent
  <2>5. BookSound(disk, xo)' /\ \A c \in Command : BookSound(run[c].book, xo)'
    BY <2>1, <2>2 DEF ManIInv
  <2> QED
    BY <2>3, <2>4, <2>5 DEF ManIInv
<1> QED
  BY <1>1, <1>2, <1>3 DEF ManNext

----------------------------------------------------------------------------
(* One process at a time *)

\* The book a command has saved holds what the command will write in the intent file.
Finished(c) ==
    run[c].at = "closing" /\ run[c].end \in Accounted
        => disk.settled[run[c].i].mode = run[c].end

\* No two commands are at work.
OneAtATime ==
    \A c, d \in Command : c # d => run[c].at = "idle" \/ run[d].at = "idle"

\* Until it saves, the command works on the book that is stored.
WorksOnDisk(c) ==
    run[c].at \in {"loaded", "read", "repairing"} => run[c].book = disk

\* An intent accounted is settled in the stored book, and in the same way.
IntentsMatch ==
    \A i \in Intent : intent[i].st \in Accounted => disk.settled[i].mode = intent[i].st

\* What holds when the commands do not overlap.
SerialIInv ==
    /\ OneAtATime /\ IntentsMatch
    /\ \A c \in Command : WorksOnDisk(c) /\ Finished(c)

\* It holds when nothing has run.
LEMMA SerialInit == ASSUME ManInit PROVE SerialIInv
<1>1. \A c \in Command : run[c].at = "idle"
  BY DEF ManInit, Idle
<1>2. \A i \in Intent : intent[i].st = "NONE"
  BY DEF ManInit, NoIntent
<1> QED
  BY <1>1, <1>2 DEF SerialIInv, OneAtATime, IntentsMatch, WorksOnDisk, Finished, Accounted

\* What a step of the one command at work has to leave.
SerialMoved(c) == WorksOnDisk(c)' /\ Finished(c)' /\ IntentsMatch'

\* Only one command at work moves, or a command starts while no other is at work.
LEMMA SerialKeeps ==
    ASSUME ManIInv, SerialIInv, NEW c \in Command, Moved(c), SerialMoved(c),
           run[c].at # "idle" \/ Others(c)
    PROVE  SerialIInv'
<1>1. \A d \in Command \ {c} : run[d].at = "idle" /\ run'[d] = run[d]
  BY DEF SerialIInv, OneAtATime, Others, Moved
<1>2. OneAtATime'
  BY <1>1 DEF OneAtATime
<1>3. ASSUME NEW d \in Command PROVE WorksOnDisk(d)' /\ Finished(d)'
  <2>1. CASE d = c
    BY <2>1 DEF SerialMoved
  <2>2. CASE d # c
    <3>1. run'[d].at = "idle"
      BY <1>1, <2>2
    <3> QED
      BY <3>1 DEF WorksOnDisk, Finished
  <2> QED
    BY <2>1, <2>2
<1> QED
  BY <1>2, <1>3 DEF SerialIInv, SerialMoved

\* The settlements of accounted intents are among those a sound book must keep.
LEMMA MatchKept ==
    ASSUME IntentsMatch, KeepsSettled(disk, disk'),
           \A j \in Intent : \/ intent'[j].st = intent[j].st
                             \/ intent'[j].st \notin Accounted
                             \/ disk'.settled[j].mode = intent'[j].st
    PROVE  IntentsMatch'
<1> SUFFICES ASSUME NEW j \in Intent, intent'[j].st \in Accounted
             PROVE  disk'.settled[j].mode = intent'[j].st
  BY DEF IntentsMatch
<1>1. CASE disk'.settled[j].mode = intent'[j].st
  BY <1>1
<1>2. CASE intent'[j].st = intent[j].st
  <2>1. disk.settled[j].mode = intent'[j].st
    BY <1>2 DEF IntentsMatch
  <2>2. disk.settled[j] # Unsettled
    BY <2>1 DEF Unsettled, Accounted
  <2> QED
    BY <2>1, <2>2 DEF KeepsSettled
<1> QED
  BY <1>1, <1>2

\* A command that ends, and saved at most one record.
LEMMA StopSerial ==
    ASSUME ManIInv, SerialIInv, NEW c \in Command, Stop(c), disk' = disk,
           \A j \in Intent : \/ intent'[j].st = intent[j].st
                             \/ intent'[j].st \notin Accounted
                             \/ disk.settled[j].mode = intent'[j].st
    PROVE  SerialMoved(c)
<1>1. run'[c] = Idle /\ Idle.at = "idle"
  BY DEF Stop, ManIInv, ManTypeOK, Idle
<1>2. KeepsSettled(disk, disk')
  BY DEF KeepsSettled
<1>3. IntentsMatch'
  BY <1>2, MatchKept DEF SerialIInv
<1> QED
  BY <1>1, <1>3 DEF SerialMoved, WorksOnDisk, Finished

\* A step that writes no book keeps the file behind it.
LEMMA QuietSerial ==
    ASSUME ManIInv, SerialIInv, NEW c \in Command,
           \/ GiveUp(c) \/ Confirm(c) \/ RecordEvidence(c) \/ SettleUnread(c) \/ Close(c)
           \/ Reported(c) \/ Die(c)
    PROVE  SerialMoved(c)
<1> DEFINE i == run[c].i
           r == run[c].read[i]
<1>1. CASE GiveUp(c) \/ Reported(c) \/ Die(c)
  BY <1>1, StopSerial DEF GiveUp, Reported, Die
<1>2. CASE Confirm(c)
  <2>1. i \in Intent /\ "CONFIRMED" \in IntentStatus
    BY <1>2 DEF Confirm, ManIInv, ActsOnIntent, IntentStatus
  <2>2. intent'[i].st = "CONFIRMED" /\ \A j \in Intent \ {i} : intent'[j] = intent[j]
    BY <1>2, <2>1, SavedRecord, ReadRecord DEF Confirm
  <2> QED
    BY <1>2, <2>1, <2>2, StopSerial DEF Confirm, Accounted
<1>3. CASE RecordEvidence(c)
  <2>1. i \in Intent /\ "EVIDENCE_RECORDED" \in IntentStatus
    BY <1>3 DEF RecordEvidence, ManIInv, ActsOnIntent, IntentStatus
  <2>2. PICK ev \in Typed[i] :
            IF Contradicts(r.ev, ev) THEN SaveIntent(i, r.st, r.ev)
                                     ELSE SaveIntent(i, "EVIDENCE_RECORDED", ev)
    BY <1>3 DEF RecordEvidence
  <2>3. ev \in Evidence
    BY <2>1, TypedAssumption
  <2>4. r.st \in IntentStatus /\ r.ev \in Evidence \cup {NoEvidence}
    BY <2>1, ReadRecord
  <2>5. r.st \notin Accounted
    BY <1>3 DEF RecordEvidence, Terminal
  <2> HIDE DEF r, i
  <2>6. /\ intent'[i].st \in {r.st, "EVIDENCE_RECORDED"}
        /\ \A j \in Intent \ {i} : intent'[j] = intent[j]
    BY <2>1, <2>2, <2>3, <2>4, SavedRecord
  <2> QED
    BY <1>3, <2>1, <2>5, <2>6, StopSerial DEF RecordEvidence, Accounted
<1>4. CASE SettleUnread(c)
  <2>1. i \in Intent
    BY <1>4 DEF SettleUnread, MaySettle, ManIInv, ActsOnIntent
  <2>2. {"AMBIGUOUS", "RECONCILIATION_REQUIRED"} \subseteq IntentStatus \ Accounted
    BY DEF IntentStatus, Accounted
  <2>3. PICK st \in IntentStatus \ Accounted : Marked(c, st)
    BY <1>4, <2>2 DEF SettleUnread
  <2>4. intent'[i].st = st /\ \A j \in Intent \ {i} : intent'[j] = intent[j]
    BY <2>1, <2>3, SavedRecord, ReadRecord DEF Marked
  <2> QED
    BY <2>1, <2>3, <2>4, StopSerial DEF Marked
<1>5. CASE Close(c)
  <2>1. i \in Intent
    BY <1>5 DEF Close, ManIInv, ActsOnIntent
  <2>2. run[c].end \in IntentStatus
    BY DEF ManIInv, ManTypeOK, Run
  <2>3. intent'[i].st = run[c].end /\ \A j \in Intent \ {i} : intent'[j] = intent[j]
    BY <1>5, <2>1, <2>2, SavedRecord, ReadRecord DEF Close
  <2>4. run[c].end \in Accounted => disk.settled[i].mode = run[c].end
    BY <1>5 DEF Close, SerialIInv, Finished
  <2> QED
    BY <1>5, <2>1, <2>3, <2>4, StopSerial DEF Close
<1> QED
  BY <1>1, <1>2, <1>3, <1>4, <1>5

\* So does the end of settle and of cancel, which saves the book first.
LEMMA ConcludedSerial ==
    ASSUME ManIInv, SerialIInv, NEW c \in Command, Concluded(c), run[c].i \in Intent,
           run[c].at = "read", xo' = xo, found' \subseteq Intent \X XOrder
    PROVE  SerialMoved(c)
<1> DEFINE i == run[c].i
<1>1. ASSUME NEW st \in IntentStatus \ Accounted, Marked(c, st) PROVE SerialMoved(c)
  <2>1. intent'[i].st = st /\ \A j \in Intent \ {i} : intent'[j] = intent[j]
    BY <1>1, SavedRecord, ReadRecord DEF Marked
  <2> QED
    BY <1>1, <2>1, StopSerial DEF Marked
<1>2. ASSUME NEW b, NEW st \in IntentStatus, BookSound(b, xo), Closing(c, b, st),
             KeepsSettled(run[c].book, b), st \in Accounted => b.settled[i].mode = st
      PROVE  SerialMoved(c)
  <2>1. disk' = b /\ intent' = intent
    BY <1>2 DEF Closing, SaveBook
  <2>2. run'[c].at = "closing" /\ run'[c].end = st /\ run'[c].i = i
    BY <1>2, ClosingMoves DEF Closing, SaveBook
  <2>3. KeepsSettled(disk, disk')
    BY <1>2, <2>1 DEF SerialIInv, WorksOnDisk
  <2>4. IntentsMatch'
    BY <2>1, <2>3, MatchKept DEF SerialIInv
  <2> QED
    BY <1>2, <2>1, <2>2, <2>4 DEF SerialMoved, WorksOnDisk, Finished
<1> QED
  BY <1>1, <1>2 DEF Concluded

\* propose: a saved book with the same settlements.
LEMMA ProposeSerial ==
    ASSUME ManIInv, SerialIInv, NEW c \in Command, Propose(c) PROVE SerialMoved(c)
<1> DEFINE i == run[c].i
           b == run[c].book
<1>1. /\ run \in [Command -> Run] /\ i \in Intent /\ BookSound(b, xo) /\ b = disk
      /\ intent' = intent
  BY DEF Propose, ManIInv, ManTypeOK, ActsOnIntent, SerialIInv, WorksOnDisk
<1>2. disk'.settled = b.settled
  <2>1. CASE i \in BuyIntents
    <3>1. b.money.resv[i].st = "NONE"
      BY DEF Propose
    <3>2. disk' = [b EXCEPT !.money = Money!ReserveOrder(b.money, i)]
      BY <2>1 DEF Propose, SaveBook
    <3> QED
      BY <1>1, <2>1, <3>1, <3>2, ReserveSound
  <2>2. CASE i \notin BuyIntents
    BY <2>2 DEF Propose, SaveBook
  <2> QED
    BY <2>1, <2>2
<1>3. IntentsMatch'
  <2>1. KeepsSettled(disk, disk')
    BY <1>1, <1>2 DEF KeepsSettled
  <2> QED
    BY <1>1, <2>1, MatchKept DEF SerialIInv
<1>4. run'[c].at = "closing" /\ run'[c].end = "PROPOSED"
  BY <1>1 DEF Propose
<1> QED
  BY <1>3, <1>4 DEF SerialMoved, WorksOnDisk, Finished, Accounted

\* Every step keeps it.
LEMMA SerialStep ==
    ASSUME ~Overlap, ManIInv, SerialIInv, [ManNext]_manVars PROVE SerialIInv'
<1>1. CASE UNCHANGED manVars
  BY <1>1 DEF SerialIInv, OneAtATime, IntentsMatch, WorksOnDisk, Finished, manVars
<1>2. ASSUME NEW c \in Command, Start(c) PROVE SerialIInv'
  <2>1. Others(c) /\ UNCHANGED <<disk, intent>>
    BY <1>2 DEF Start
  <2>2. run'[c].at = "loaded" /\ run'[c].book = disk
    <3>1. run \in [Command -> Run]
      BY DEF ManIInv, ManTypeOK
    <3>2. PICK op \in Op \ {"none"}, i \in Intent \cup {None} :
             run' = [run EXCEPT ![c] = [Idle EXCEPT !.at = "loaded", !.op = op, !.i = i,
                                                    !.book = disk]]
      BY <1>2 DEF Start
    <3> QED
      BY <3>1, <3>2 DEF Idle
  <2>3. SerialMoved(c)
    BY <2>1, <2>2 DEF SerialMoved, WorksOnDisk, Finished, SerialIInv, IntentsMatch
  <2> QED
    BY <1>2, <2>1, <2>3, StartMoves, SerialKeeps
<1>3. ASSUME NEW c \in Command, Read(c) PROVE SerialIInv'
  <2>1. /\ run'[c].at \in {"read", "repairing"} /\ run'[c].book = run[c].book /\ Moved(c)
    BY <1>3, ReadMoves
  <2>2. run[c].at = "loaded" /\ UNCHANGED <<disk, intent>>
    BY <1>3 DEF Read
  <2>3. SerialMoved(c)
    BY <2>1, <2>2 DEF SerialMoved, WorksOnDisk, Finished, SerialIInv, IntentsMatch
  <2> QED
    BY <2>1, <2>2, <2>3, SerialKeeps
<1>4. ASSUME NEW c \in Command, Propose(c) PROVE SerialIInv'
  BY <1>4, ProposeMoves, ProposeSerial, SerialKeeps DEF Propose
<1>5. ASSUME NEW c \in Command,
             \/ GiveUp(c) \/ Confirm(c) \/ RecordEvidence(c) \/ SettleUnread(c) \/ Close(c)
             \/ Reported(c) \/ Die(c)
      PROVE  SerialIInv'
  <2>1. run[c].at # "idle"
    BY <1>5 DEF GiveUp, Confirm, RecordEvidence, SettleUnread, MaySettle, Close, Reported, Die
  <2> QED
    BY <1>5, <2>1, QuietMoves, QuietSerial, SerialKeeps
<1>6. ASSUME NEW c \in Command, Settle(c) \/ Cancel(c) PROVE SerialIInv'
  <2>1. run[c].at = "read"
    BY <1>6 DEF Settle, MaySettle, Cancel
  <2>2. /\ Concluded(c) /\ run[c].i \in Intent
        /\ xo' = xo /\ found' \subseteq Intent \X XOrder
    BY <1>6, SettleConcludes, CancelConcludes
  <2> QED
    BY <2>1, <2>2, ConcludedMoves, ConcludedSerial, SerialKeeps
<1>7. ASSUME NEW c \in Command, NEW i \in Intent, Repair(c, i) PROVE SerialIInv'
  <2>1. run[c].at = "repairing" /\ run[c].book = disk
    BY <1>7 DEF Repair, SerialIInv, WorksOnDisk
  <2>2. /\ Moved(c) /\ run'[c].at = "repairing"
        /\ \/ disk' = disk /\ run'[c].book = run[c].book
           \/ disk' = run'[c].book /\ KeepsSettled(run[c].book, run'[c].book)
        /\ \A j \in Intent : \/ intent'[j].st = intent[j].st
                             \/ intent'[j].st = run[c].book.settled[j].mode
    BY <1>7, RepairMoves
  <2>3. KeepsSettled(disk, disk') /\ disk' = run'[c].book
    BY <2>1, <2>2 DEF KeepsSettled
  <2>4. ASSUME NEW j \in Intent
        PROVE  \/ intent'[j].st = intent[j].st
               \/ intent'[j].st \notin Accounted
               \/ disk'.settled[j].mode = intent'[j].st
    <3>1. CASE disk.settled[j] = Unsettled
      BY <2>1, <2>2, <3>1 DEF Unsettled, Accounted
    <3>2. CASE disk.settled[j] # Unsettled
      BY <2>1, <2>2, <2>3, <3>2 DEF KeepsSettled
    <3> QED
      BY <3>1, <3>2
  <2>5. IntentsMatch'
    BY <2>3, <2>4, MatchKept DEF SerialIInv
  <2>6. SerialMoved(c)
    BY <2>2, <2>3, <2>5 DEF SerialMoved, WorksOnDisk, Finished
  <2> QED
    BY <2>1, <2>2, <2>6, SerialKeeps
<1>8. ASSUME NEW x \in XOrder, Place(x) \/ End(x) PROVE SerialIInv'
  <2>1. UNCHANGED <<disk, intent, run>>
    BY <1>8 DEF Place, End
  <2> QED
    BY <2>1 DEF SerialIInv, OneAtATime, IntentsMatch, WorksOnDisk, Finished
<1> QED
  BY <1>1, <1>2, <1>3, <1>4, <1>5, <1>6, <1>7, <1>8 DEF ManNext

----------------------------------------------------------------------------
(* Theorems *)

\* Type correctness, and what every book, stored or in a command, says of itself.
THEOREM ManInvariant == ManSpec => []ManIInv
<1> QED
  BY ManIInvInit, ManIInvStep, PTL DEF ManSpec

\* The commands, their files and their books keep their types.
THEOREM ManTypeCorrect == ManSpec => []ManTypeOK
<1>1. ManIInv => ManTypeOK
  BY DEF ManIInv
<1> QED
  BY <1>1, ManInvariant, PTL

\* No exchange order is accounted by two intents, for any number of commands at work
\* at the same time (settleManualOrder refuses an order another intent settled, and a
\* save replaces the whole book).
THEOREM OrderIsAccountedOnce == ManSpec => []OrderAccountedOnce
<1>1. ManIInv => OrderAccountedOnce
  BY DEF ManIInv, BookSound, SettledOnce, OrderAccountedOnce
<1> QED
  BY <1>1, ManInvariant, PTL

\* What is accounted rests on a final order of the exchange, also with commands that
\* overlap: no figure the operator typed gets into the book.
THEOREM AccountingIsTrue == ManSpec => []AccountedOnTruth
<1>1. ManIInv => AccountedOnTruth
  BY DEF ManIInv, BookSound, SettledOnTruth, AccountedOnTruth
<1> QED
  BY <1>1, ManInvariant, PTL

\* Cash, position and pool follow from the settlements and reservations in the book,
\* also with commands that overlap.
THEOREM BookExplainsItself == ManSpec => [](BalancesAreSettled(disk, xo) /\ PoolIsReserved(disk))
<1>1. ManIInv => BalancesAreSettled(disk, xo) /\ PoolIsReserved(disk)
  BY DEF ManIInv, BookSound
<1> QED
  BY <1>1, ManInvariant, PTL

\* With one command at a time the intents agree with the book, too, wherever a command
\* dies between the two files.
THEOREM BookAlwaysMatches == ASSUME ~Overlap PROVE ManSpec => []BookMatchesSettlements
<1>1. ManIInv /\ SerialIInv => BookMatchesSettlements
  BY DEF ManIInv, BookSound, SerialIInv, IntentsMatch, BookMatchesSettlements
<1>2. ManIInv /\ SerialIInv /\ [ManNext]_manVars => SerialIInv'
  BY SerialStep
<1>3. ManSpec => []SerialIInv
  BY <1>2, ManInvariant, SerialInit, PTL DEF ManSpec
<1> QED
  BY <1>1, <1>3, ManInvariant, PTL
=============================================================================
