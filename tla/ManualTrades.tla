---------------------------- MODULE ManualTrades ----------------------------
(****************************************************************************)
(* The manual-execution bridge: RETRAC proposes a trade and reserves its    *)
(* quote, the operator executes it on the exchange by hand, records the     *)
(* order id as evidence, and the settlement is accounted after a read of    *)
(* the exchange (ManualTradeBridge, ManualIntentStore, `bot manual`).       *)
(*                                                                          *)
(* Two files are written, one after the other: the managed book and the     *)
(* intent store.  A command works on the copies it loaded; the lock covers  *)
(* only each write.  A process may die between the two writes, and the next *)
(* command starts from what the files say.                                  *)
(*                                                                          *)
(* An exchange order is DONE with its final fill, price and fee; whether it *)
(* is consistent with an intent (bindOrderToIntent: market, side, quantity, *)
(* limit price) is given, except that it must not be older than the intent. *)
(* Definitions whose name starts with Wrong are deliberate mistakes that no *)
(* action uses; each shows that some property would notice it.              *)
(****************************************************************************)
EXTENDS Integers, FiniteSets, FiniteSetsExt, Functions

CONSTANTS
    Intent, BuyIntents,     \* manual intents, and the BUYs among them
    XOrder,                 \* orders the operator may place on the exchange
    Fits,                   \* the intents each of them is consistent with
    Size,                   \* base quantity of each intent
    Price,                  \* average prices an order may fill at
    Quote,                  \* quote each BUY reserves: notional plus estimated fee
    Typed,                  \* evidence the operator may type for each intent
    Command,                \* processes that run `bot manual`
    None,
    Cash0, Pos0,
    Overlap                 \* whether two processes may be at work at once

ASSUME ManualAssumption ==
    /\ IsFiniteSet(Intent) /\ BuyIntents \subseteq Intent
    /\ Fits \in [XOrder -> SUBSET Intent]
    /\ Size \in [Intent -> Nat \ {0}]
    /\ Price \subseteq Nat \ {0}
    /\ Quote \in [BuyIntents -> Nat \ {0}]
    /\ None \notin XOrder \cup Intent
    /\ Cash0 \in Nat /\ Pos0 \in Nat
    /\ Overlap \in BOOLEAN

\* The book of class Portfolio; what it says of executions plays no part here.
Money == INSTANCE Portfolio WITH
            Order <- Intent, Buys <- BuyIntents, Reserve <- Quote,
            Exec <- {}, OrderOf <- [e \in {} |-> e], Qty <- [e \in {} |-> 1],
            Cost <- [e \in {} |-> 1]

VARIABLES
    disk,     \* the managed book on disk, with the settlement of each intent
    intent,   \* ManualIntentStore: status and evidence of each intent
    xo,       \* the operator's orders, as getOrderStatus reports them
    run,      \* what each command process is doing, on which copies
    found     \* history: the intents and orders of which a settle has read a final fill

manVars == <<disk, intent, xo, run, found>>

Accounted == {"EXCHANGE_VALIDATED", "OPERATOR_ATTESTED"}
Terminal  == Accounted \cup {"CANCELED"}
IntentStatus == {"NONE", "PROPOSED", "CONFIRMED", "EVIDENCE_RECORDED", "PENDING",
                 "RECONCILIATION_REQUIRED", "AMBIGUOUS"} \cup Terminal

Quantity == 0 .. Max({Size[i] : i \in Intent} \cup {0})

\* What the operator typed: the order, whether its status is a final one, the
\* filled quantity (or none), and whether the id, price and fee stand up.
Evidence == [x : XOrder, done : BOOLEAN, filled : Quantity \cup {-1}, sound : BOOLEAN]
NoEvidence == [x |-> None, done |-> FALSE, filled |-> -1, sound |-> FALSE]

ASSUME TypedAssumption == Typed \in [Intent -> SUBSET Evidence]

IntentRecord == [st : IntentStatus, ev : Evidence \cup {NoEvidence}]
NoIntent     == [st |-> "NONE", ev |-> NoEvidence]

Settlement == [x : XOrder, mode : Accounted]
Unsettled  == [x |-> None, mode |-> "NONE"]

ManagedState == [money : Money!Book, settled : [Intent -> Settlement \cup {Unsettled}]]

OrderView == [st : {"NONE", "OPEN", "DONE"}, fits : SUBSET Intent,
              filled : Quantity, price : Price \cup {0}, fee : {"quote", "other"}]
NoOrder   == [st |-> "NONE", fits |-> {}, filled |-> 0, price |-> 0, fee |-> "other"]

Op  == {"propose", "confirm", "evidence", "settle", "cancel", "reconcile", "none"}
At  == {"idle", "loaded", "read", "closing", "repairing"}
Run == [at : At, op : Op, i : Intent \cup {None}, book : ManagedState,
        read : [Intent -> IntentRecord], end : IntentStatus, todo : SUBSET Intent]

ManTypeOK ==
    /\ disk \in ManagedState
    /\ intent \in [Intent -> IntentRecord]
    /\ xo \in [XOrder -> OrderView]
    /\ run \in [Command -> Run]
    /\ found \subseteq Intent \X XOrder

Fresh == [money |-> Money!EmptyBook(Cash0, Pos0), settled |-> [i \in Intent |-> Unsettled]]
Idle  == [at |-> "idle", op |-> "none", i |-> None, book |-> Fresh,
          read |-> [i \in Intent |-> NoIntent], end |-> "NONE", todo |-> {}]

ManInit ==
    /\ disk = Fresh
    /\ intent = [i \in Intent |-> NoIntent]
    /\ xo = [x \in XOrder |-> NoOrder]
    /\ run = [c \in Command |-> Idle]
    /\ found = {}

----------------------------------------------------------------------------
(* Rules *)

Known == {i \in Intent : intent[i].st # "NONE"}

\* assertLiveRealmRecoverable: every reservation has an owner, every accounted
\* intent a settlement.
Recoverable ==
    /\ \A i \in Intent : disk.money.resv[i].st # "NONE" => i \in Known
    /\ \A i \in Intent : intent[i].st \in Accounted => disk.settled[i] # Unsettled

\* evidenceProgressConflict: final evidence is not taken back.
Unfilled(ev) == ev.done /\ ev.filled = 0
Contradicts(old, new) ==
    /\ old.done
    /\ IF Unfilled(old) THEN ~Unfilled(new) ELSE ~new.done \/ Unfilled(new)

\* validateEvidenceStructural.
Impossible(i, ev) ==
    /\ ev.done
    /\ \/ ~ev.sound
       \/ ev.filled > Size[i]

\* Wrong: the operator's figures are taken without the order's binding.
WrongMismatch(i, ev, o) ==
    /\ o.st = "DONE"
    /\ ~ev.sound \/ ev.filled \notin {-1, o.filled}

\* The final order disagrees with what was typed or does not bind to the intent.
Mismatch(i, ev, o) ==
    /\ o.st = "DONE"
    /\ ~ev.sound \/ ev.filled \notin {-1, o.filled} \/ i \notin o.fits

\* What the order pays (BUY) or brings (SELL); its quote fee is one unit.
OrderCost(i, o) == IF i \in BuyIntents THEN o.filled * o.price + 1 ELSE o.filled * o.price - 1

\* Wrong: only this intent's own settlement is looked at.
WrongCanSettle(b, i, o, x, mode) ==
    IF b.settled[i] # Unsettled THEN b.settled[i] = [x |-> x, mode |-> mode]
    ELSE /\ Money!CanFill(b.money, i, o.filled)
         /\ i \in BuyIntents => /\ Money!Active(b.money, i)
                                /\ OrderCost(i, o) <= b.money.resv[i].left

\* settleManualOrder: an intent is settled once, an order by one intent, a BUY out
\* of its own active reservation.
CanSettle(b, i, o, x, mode) ==
    IF b.settled[i] # Unsettled THEN b.settled[i] = [x |-> x, mode |-> mode]
    ELSE /\ \A j \in Intent : b.settled[j].x # x
         /\ Money!CanFill(b.money, i, o.filled)
         /\ i \in BuyIntents => /\ Money!Active(b.money, i)
                                /\ OrderCost(i, o) <= b.money.resv[i].left

\* Wrong: the fill is applied again when the settlement is repeated.
WrongSettled(b, i, o, x, mode) ==
    LET cost == OrderCost(i, o)
        paid == Money!Fill(b.money, i, o.filled, cost)
    IN  [money |-> IF Money!Active(b.money, i)
                     THEN Money!ReleaseOrders(Money!Consume(paid, i, cost), {i})
                     ELSE paid,
         settled |-> [b.settled EXCEPT ![i] = [x |-> x, mode |-> mode]]]

Settled(b, i, o, x, mode) ==
    LET cost == OrderCost(i, o)
        paid == Money!Fill(b.money, i, o.filled, cost)
    IN  IF b.settled[i] # Unsettled THEN b
        ELSE [money |-> IF i \in BuyIntents
                          THEN Money!ReleaseOrders(Money!Consume(paid, i, cost), {i})
                          ELSE paid,
              settled |-> [b.settled EXCEPT ![i] = [x |-> x, mode |-> mode]]]

Released(b, i) == [b EXCEPT !.money = Money!ReleaseOrders(@, {i})]

----------------------------------------------------------------------------
(* A command: it loads, reads the store, and writes one file after the other *)

Stop(c)   == run' = [run EXCEPT ![c] = Idle]
Others(c) == \A d \in Command \ {c} : run[d].at = "idle"

\* A save of the intent store replaces one record; of the book, everything.
SaveIntent(i, st, ev) == intent' = [intent EXCEPT ![i] = [st |-> st, ev |-> ev]]
SaveBook(c, b) == disk' = b

\* Every command refuses to start on files that contradict each other, and loads
\* the book.  What it prompts or reads before it acts takes time.
Start(c) ==
    /\ run[c].at = "idle"
    /\ Overlap \/ Others(c)
    /\ Recoverable
    /\ \E op \in Op \ {"none"}, i \in Intent \cup {None} :
         /\ i = None <=> op = "reconcile"
         /\ i # None => (i \in Known <=> op # "propose")
         /\ run' = [run EXCEPT ![c] = [Idle EXCEPT !.at = "loaded", !.op = op, !.i = i,
                                                   !.book = disk]]
    /\ UNCHANGED <<disk, intent, xo, found>>

\* The operator declines, the intent is unknown, the risk manager refuses, or the
\* exchange cannot be read: nothing is written.
GiveUp(c) ==
    /\ run[c].at \in {"loaded", "read"}
    /\ Stop(c)
    /\ UNCHANGED <<disk, intent, xo, found>>

\* propose, after the risk manager approved: the book is saved first.
Propose(c) ==
    LET i == run[c].i
        b == run[c].book
    IN  /\ run[c].at = "loaded" /\ run[c].op = "propose"
        /\ intent[i].st = "NONE" /\ b.money.resv[i].st = "NONE"
        /\ IF i \in BuyIntents
             THEN /\ Money!CanReserve(b.money, i)
                  /\ SaveBook(c, [b EXCEPT !.money = Money!ReserveOrder(@, i)])
             ELSE /\ Size[i] <= b.money.pos
                  /\ SaveBook(c, b)
        /\ run' = [run EXCEPT ![c].at = "closing", ![c].end = "PROPOSED"]
        /\ UNCHANGED <<intent, xo, found>>

\* The store is read: one intent for its own commands, all of them for reconcile.
Read(c) ==
    /\ run[c].at = "loaded" /\ run[c].op # "propose"
    /\ run' = [run EXCEPT ![c].at = IF run[c].op = "reconcile" THEN "repairing" ELSE "read",
                          ![c].read = intent,
                          ![c].todo = IF run[c].op = "reconcile" THEN Known ELSE {}]
    /\ UNCHANGED <<disk, intent, xo, found>>

Confirm(c) ==
    LET i == run[c].i
        r == run[c].read[i]
    IN  /\ run[c].at = "read" /\ run[c].op = "confirm"
        /\ r.st = "PROPOSED"
        /\ SaveIntent(i, "CONFIRMED", r.ev)
        /\ Stop(c)
        /\ UNCHANGED <<disk, xo, found>>

\* recordEvidence: a conflict is logged with the record, which stays as it was.
RecordEvidence(c) ==
    LET i == run[c].i
        r == run[c].read[i]
    IN  /\ run[c].at = "read" /\ run[c].op = "evidence"
        /\ r.st \notin Terminal \cup {"NONE", "PROPOSED"}
        /\ \E ev \in Typed[i] :
             IF Contradicts(r.ev, ev) THEN SaveIntent(i, r.st, r.ev)
                                      ELSE SaveIntent(i, "EVIDENCE_RECORDED", ev)
        /\ Stop(c)
        /\ UNCHANGED <<disk, xo, found>>

\* The last write of a propose, a settlement or a release.
Close(c) ==
    LET i == run[c].i IN
    /\ run[c].at = "closing"
    /\ SaveIntent(i, run[c].end, run[c].read[i].ev)
    /\ Stop(c)
    /\ UNCHANGED <<disk, xo, found>>

\* The book is saved first.
Closing(c, b, st) ==
    /\ SaveBook(c, b)
    /\ run' = [run EXCEPT ![c].at = "closing", ![c].end = st]
    /\ UNCHANGED intent

\* Nothing is accounted; the reservation stays.
Marked(c, st) ==
    /\ SaveIntent(run[c].i, st, run[c].read[run[c].i].ev)
    /\ Stop(c)
    /\ UNCHANGED disk

MaySettle(c) ==
    /\ run[c].at = "read" /\ run[c].op = "settle"
    /\ run[c].read[run[c].i].st \in {"EVIDENCE_RECORDED", "PENDING", "RECONCILIATION_REQUIRED"}
    /\ run[c].read[run[c].i].ev # NoEvidence

\* settle without an answer: the evidence cannot stand, or the read fails.
SettleUnread(c) ==
    LET i  == run[c].i
        ev == run[c].read[i].ev
    IN  /\ MaySettle(c)
        /\ Marked(c, IF Impossible(i, ev) THEN "AMBIGUOUS" ELSE "RECONCILIATION_REQUIRED")
        /\ UNCHANGED <<xo, found>>

\* settle with the exchange's answer.
Settle(c) ==
    LET i  == run[c].i
        b  == run[c].book
        ev == run[c].read[i].ev
        o  == xo[ev.x]
        final == o.st = "DONE" /\ ~Mismatch(i, ev, o)
    IN  /\ MaySettle(c) /\ ~Impossible(i, ev) /\ o.st # "NONE"
        /\ \/ o.st = "OPEN" /\ Marked(c, "PENDING")
           \/ Mismatch(i, ev, o) /\ Marked(c, "AMBIGUOUS")
           \/ /\ final /\ o.filled = 0
              /\ IF b.money.resv[i].st = "NONE" THEN Marked(c, "CANCELED")
                                                ELSE Closing(c, Released(b, i), "CANCELED")
           \/ /\ final /\ o.filled > 0 /\ o.fee # "quote"
              /\ Marked(c, "RECONCILIATION_REQUIRED")
           \/ /\ final /\ o.filled > 0 /\ o.fee = "quote"
              /\ \E mode \in Accounted :
                   IF CanSettle(b, i, o, ev.x, mode)
                     THEN Closing(c, Settled(b, i, o, ev.x, mode), mode)
                     ELSE Marked(c, "AMBIGUOUS")
        /\ found' = IF final /\ o.filled > 0 THEN found \cup {<<i, ev.x>>} ELSE found
        /\ UNCHANGED xo

\* cancel-intent: before a fill is reported.
Cancel(c) ==
    LET i == run[c].i
        b == run[c].book
        r == run[c].read[i]
    IN  /\ run[c].at = "read" /\ run[c].op = "cancel"
        /\ r.st \in {"PROPOSED", "CONFIRMED", "EVIDENCE_RECORDED"}
        /\ r.ev.filled <= 0
        /\ IF b.money.resv[i].st = "NONE" THEN Marked(c, "CANCELED")
                                          ELSE Closing(c, Released(b, i), "CANCELED")
        /\ UNCHANGED <<xo, found>>

\* Wrong: a settlement is not looked for where no evidence is pending.
WrongFinalises(b, r, i) ==
    r.st = "PENDING" /\ b.settled[i] # Unsettled

\* The book holds a settlement the intent does not know of.
Finalises(b, r, i) == b.settled[i] # Unsettled /\ r.st # b.settled[i].mode

\* reconcile, one intent: only a recorded settlement and a leaked reservation are
\* repaired; everything else is reported.
Repair(c, i) ==
    LET b == run[c].book
        r == run[c].read[i]
        leak == /\ b.settled[i] = Unsettled /\ r.st = "CANCELED"
                /\ Money!Active(b.money, i) /\ r.ev.filled <= 0
    IN  /\ run[c].at = "repairing" /\ i \in run[c].todo
        /\ intent' = IF Finalises(b, r, i) THEN [intent EXCEPT ![i] = [r EXCEPT !.st = b.settled[i].mode]]
                                           ELSE intent
        /\ disk' = IF leak THEN Released(b, i) ELSE disk
        /\ run' = [run EXCEPT ![c].todo = @ \ {i},
                              ![c].book = IF leak THEN Released(b, i) ELSE @]
        /\ UNCHANGED <<xo, found>>

Reported(c) ==
    /\ run[c].at = "repairing" /\ run[c].todo = {}
    /\ Stop(c)
    /\ UNCHANGED <<disk, intent, xo, found>>

\* The process dies; the files stay as they are.
Die(c) ==
    /\ run[c].at # "idle"
    /\ Stop(c)
    /\ UNCHANGED <<disk, intent, xo, found>>

----------------------------------------------------------------------------
(* The world around the commands *)

\* The operator places an order by hand; it binds to no intent younger than itself.
Place(x) ==
    /\ xo[x].st = "NONE" /\ Fits[x] \cap Known # {}
    /\ xo' = [xo EXCEPT ![x].st = "OPEN", ![x].fits = Fits[x] \cap Known]
    /\ UNCHANGED <<disk, intent, run, found>>

\* It ends, filled as far as an intent it fits may ask.
End(x) ==
    /\ xo[x].st = "OPEN"
    /\ \E q \in Quantity, p \in Price, fee \in {"quote", "other"} :
         /\ \A i \in Fits[x] : q <= Size[i]
         /\ q = 0 => fee = "other"
         /\ fee = "other" => p = Max(Price)
         /\ xo' = [xo EXCEPT ![x].st = "DONE", ![x].filled = q, ![x].price = p, ![x].fee = fee]
    /\ UNCHANGED <<disk, intent, run, found>>

----------------------------------------------------------------------------
ManNext ==
    \/ \E c \in Command :
         \/ Start(c) \/ GiveUp(c) \/ Read(c) \/ Propose(c) \/ Confirm(c)
         \/ RecordEvidence(c) \/ SettleUnread(c) \/ Settle(c) \/ Cancel(c)
         \/ Close(c) \/ Reported(c) \/ Die(c)
         \/ \E i \in Intent : Repair(c, i)
    \/ \E x \in XOrder : Place(x) \/ End(x)

\* The operator runs reconcile again and again, and does not break it off for ever;
\* no prompt stays open for ever.
Reconcile(c) == Start(c) /\ run'[c].op = "reconcile"

ManSpec ==
    /\ ManInit /\ [][ManNext]_manVars
    /\ \A c \in Command :
         /\ SF_manVars(Reconcile(c))
         /\ SF_manVars(run[c].op = "reconcile" /\ Read(c))
         /\ \A i \in Intent : SF_manVars(Repair(c, i))
         /\ WF_manVars(Reported(c))
         /\ WF_manVars(GiveUp(c)) /\ WF_manVars(Close(c))

----------------------------------------------------------------------------
(* Properties *)

\* No exchange order is accounted by two intents (the duplicate-order guard of
\* settleManualOrder), whatever was typed, retried or interrupted.
OrderAccountedOnce ==
    \A i, j \in Intent :
        i # j /\ disk.settled[i].x = disk.settled[j].x => disk.settled[i] = Unsettled

\* What is accounted rests on the exchange: a final order with a fill and a quote
\* fee that is consistent with the intent, never on figures the operator typed.
AccountedOnTruth ==
    \A i \in Intent : disk.settled[i] # Unsettled =>
        LET o == xo[disk.settled[i].x] IN
        o.st = "DONE" /\ o.filled > 0 /\ o.fee = "quote" /\ i \in o.fits

\* What the settlement of an intent took from the cash, and brought to the position, if
\* the orders are as the exchange reports them in w.
Spent(b, w, i) ==
    IF b.settled[i] = Unsettled THEN 0
    ELSE LET cost == OrderCost(i, w[b.settled[i].x])
         IN  IF i \in BuyIntents THEN cost ELSE -cost

Gained(b, w, i) ==
    IF b.settled[i] = Unsettled THEN 0
    ELSE LET qty == w[b.settled[i].x].filled
         IN  IF i \in BuyIntents THEN qty ELSE -qty

BalancesAreSettled(b, w) ==
    /\ b.money.cash = Cash0 - SumFunctionOnSet([i \in Intent |-> Spent(b, w, i)], Intent)
    /\ b.money.pos  = Pos0 + SumFunctionOnSet([i \in Intent |-> Gained(b, w, i)], Intent)

PoolIsReserved(b) ==
    b.money.reserved = Money!Left(b.money, {i \in Intent : Money!Active(b.money, i)})

\* Cash, position and pool of the book are those of the settlements and active
\* reservations it records: nothing is booked twice when a settle is repeated; and an
\* intent says ACCOUNTED only if the book holds its settlement with the same authority,
\* wherever a command died between the two files.
BookMatchesSettlements ==
    /\ BalancesAreSettled(disk, xo) /\ PoolIsReserved(disk)
    /\ \A i \in Intent : intent[i].st \in Accounted => disk.settled[i].mode = intent[i].st

\* A settlement in the book reaches its intent, although processes die between the
\* writes - unless one died inside a propose: its reservation has no intent, every
\* command refuses to start, and only an edit of the files helps.
Orphaned ==
    /\ \A c \in Command : run[c].at = "idle"
    /\ \E i \in Intent : disk.money.resv[i].st # "NONE" /\ i \notin Known

SettledIsFinalised ==
    \A i \in Intent :
        (disk.settled[i] # Unsettled) ~> (intent[i].st \in Accounted \/ Orphaned)

\* "A PENDING, AMBIGUOUS, or RECONCILIATION_REQUIRED order may have a positive
\* external execution and is NEVER silently canceled" (cancel): an intent is not
\* canceled when a settle has read a final fill of the order its evidence names.
KnownFillIsNotCanceled ==
    \A i \in Intent : intent[i].st = "CANCELED" => <<i, intent[i].ev.x>> \notin found

\* "The lock protects the WHOLE mutation transaction (load, validate, mutate,
\* validate, atomic save, release)" (lock.ts): no save drops a reservation or a
\* settlement that another process recorded.
BookForgetsNothing ==
    [][/\ \A o \in Intent : disk.money.resv[o].st # "NONE" => disk'.money.resv[o].st # "NONE"
       /\ \A i \in Intent : disk.settled[i] # Unsettled => disk'.settled[i] # Unsettled]_manVars
=============================================================================
