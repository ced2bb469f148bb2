---------------------------- MODULE ManagedFunds ----------------------------
(****************************************************************************)
(* What RETRAC may trade with in LIVE, and how the owner hands it over.     *)
(* The exchange account holds the owner's money and the bot's in one        *)
(* balance; the managed book says which part is the bot's.  Two commands    *)
(* widen that part: `bot live-adopt-external-cash` takes over the quote the *)
(* book does not know, `bot live-onboard-external` the base.  Each loads    *)
(* the book, reads the balance, waits for the operator's word, reads the    *)
(* balance again and writes the book it loaded at its start, changed.  The  *)
(* second reading is awaited: what the owner does between the exchange's    *)
(* answer and the save is not seen (the history variables gone, unseen).    *)
(*                                                                          *)
(* Beside them the bot reserves, submits, fills and accounts its orders     *)
(* (class Portfolio), each save of the book under the state-directory lock. *)
(* The pre-trade gate is the subject of LiveAccounting; here an order may   *)
(* be placed whenever no other is unresolved, which is more than the gate   *)
(* allows.                                                                  *)
(*                                                                          *)
(* The book on disk is a document of class PortfolioJson: what the program  *)
(* reads back is what Load makes of it.                                     *)
(* Definitions whose name starts with Wrong are deliberate mistakes that no *)
(* action uses; each shows that some property would notice it.              *)
(****************************************************************************)
EXTENDS Portfolio

CONSTANTS
    Command,            \* processes that run one of the two commands
    ManagedCash0,       \* managed quote at the beginning
    OwnCash0, OwnBase0, \* what else the account holds at the beginning
    MaxDeposits,        \* bound on the owner's deposits
    LegacyBase,         \* base of a position in a document of version 1
    None, Refused,
    Quiet               \* whether the two commands run only while nothing else is at work

ASSUME FundsAssumption ==
    /\ ManagedCash0 \in Nat /\ OwnCash0 \in Nat /\ OwnBase0 \in Nat
    /\ MaxDeposits \in Nat /\ LegacyBase \in Nat
    /\ Quiet \in BOOLEAN

VARIABLES
    doc,       \* the managed book, as it stands on disk
    account,   \* the exchange's balances, holds included
    order,     \* where each order stands on the exchange
    happened,  \* executions the exchange made
    run,       \* what each command process is doing, on which copy of the book
    deposits,  \* how often the owner deposited (bounded by MaxDeposits)
    gone,      \* history: what left the account since a command read it again
    unseen     \* history: what had left it so when a command saved its book

history   == <<gone, unseen>>
fundsVars == <<doc, account, order, happened, run, deposits, history>>

\* The book in memory: money.pos is the quantity of the position, split by where it
\* came from; snapshot is what the operator declared and has not authorized.
Holdings ==
    [money : Book, bot : Int, ext : Int, snapshot : Int, authorized : BOOLEAN,
     source : {"BOT", "EXTERNAL_AUTHORIZED", "none"}]

ASSUME HoldingsAssumption == Refused \notin Holdings /\ None \notin Holdings

\* The document: version 1 may lack the position's source, its split, or both.
Document == [ver : {1, 2}, book : Holdings, split : BOOLEAN]

Copy == [at : {"idle", "loaded", "asked", "verified"}, op : {"adopt", "onboard", "none"},
         book : Holdings \cup {None}, amount : Int]

FundsTypeOK ==
    /\ doc \in Document
    /\ account \in [quote : Int, base : Int]
    /\ order \in [Order -> {"none", "open", "closed"}]
    /\ happened \subseteq Exec
    /\ run \in [Command -> Copy]
    /\ deposits \in 0 .. MaxDeposits
    /\ gone \in [Command -> Nat]
    /\ unseen \in [quote : Nat, base : Nat]

Idle == [at |-> "idle", op |-> "none", book |-> None, amount |-> 0]

----------------------------------------------------------------------------
(* The document *)

\* assertReservationConservation.
ReservationSound(r) ==
    r.st = "NONE" \/ (0 <= r.left /\ (r.st = "RELEASED" => r.left = 0))

\* What a book must be for its document to be read back: the pool of reserved quote
\* is not negative and within the cash, the parts make up the position.
Sound(b) ==
    /\ b.bot + b.ext = b.money.pos
    /\ b.money.pos >= 0 /\ b.snapshot >= 0
    /\ 0 <= b.money.reserved /\ b.money.reserved <= b.money.cash
    /\ \A o \in Order : /\ ReservationSound(b.money.resv[o])
                        /\ o \in Buys => b.money.resv[o].left <= Reserve[o]
    /\ \A o \in b.money.attested : TotalQty(ExecsOf(o)) > 0

\* parsePosition: a position without a split is all of its source; without a source
\* either it has no owner, which the LIVE realm refuses.
Owned(d) ==
    IF d.split THEN d.book
    ELSE [d.book EXCEPT !.bot = IF d.book.source = "BOT" THEN d.book.money.pos ELSE 0,
                        !.ext = IF d.book.source = "BOT" THEN 0 ELSE d.book.money.pos]

Unowned(d) == ~d.split /\ d.book.money.pos # 0 /\ d.book.source = "none"

Load(d) == IF Unowned(d) \/ ~Sound(Owned(d)) THEN Refused ELSE Owned(d)

\* serializePortfolio: version 2, with the split; a split or a reservation that does
\* not add up is not written.
Writable(b) ==
    /\ b.bot + b.ext = b.money.pos
    /\ \A o \in Order : ReservationSound(b.money.resv[o])
Written(b) == [ver |-> 2, book |-> b, split |-> TRUE]

NewBook(base, source) ==
    [money |-> EmptyBook(ManagedCash0, base),
     bot |-> 0, ext |-> 0, snapshot |-> 0, authorized |-> FALSE, source |-> source]

\* A book this version wrote, or one of version 1 with a position.
FirstDocuments ==
    {Written(NewBook(0, "none"))}
        \cup {[ver |-> 1, book |-> NewBook(LegacyBase, s), split |-> FALSE] :
                  s \in {"BOT", "EXTERNAL_AUTHORIZED", "none"}}

FundsInit ==
    /\ doc \in FirstDocuments
    /\ account = [quote |-> ManagedCash0 + OwnCash0, base |-> doc.book.money.pos + OwnBase0]
    /\ order = [o \in Order |-> "none"]
    /\ happened = {}
    /\ run = [c \in Command |-> Idle]
    /\ deposits = 0
    /\ gone = [c \in Command |-> 0]
    /\ unseen = [quote |-> 0, base |-> 0]

----------------------------------------------------------------------------
(* Ownership: methods of class Portfolio *)

WithExternalSnapshot(b, q) == [b EXCEPT !.snapshot = q]

\* The whole declared quantity joins the position, whose own part stays what it was;
\* with nothing declared there is nothing to do.
AuthorizeExternal(b) ==
    IF b.snapshot = 0 THEN b
    ELSE [b EXCEPT !.money.pos = @ + b.snapshot, !.ext = @ + b.snapshot, !.snapshot = 0,
                   !.authorized = TRUE,
                   !.source = IF b.money.pos = 0 THEN "EXTERNAL_AUTHORIZED" ELSE @]

AdoptExternalCash(b, amount) == [b EXCEPT !.money.cash = @ + amount]

\* applyFill: a BUY is the bot's; a SELL takes the bot's part first.
Parts(b, buy, qty) ==
    LET own == IF qty < b.bot THEN qty ELSE b.bot IN
    IF buy THEN [b EXCEPT !.bot = @ + qty]
    ELSE [b EXCEPT !.bot = @ - own, !.ext = @ - (qty - own)]

\* The position that is opened gets its source; one that is sold out is forgotten.
Filled(b, o, qty, money) ==
    LET p == Parts(b, o \in Buys, qty) IN
    [p EXCEPT !.money = money,
              !.source = IF money.pos = 0 THEN "none"
                         ELSE IF b.money.pos = 0 THEN "BOT" ELSE @]

----------------------------------------------------------------------------
(* The exchange account *)

Done(o) == happened \cap ExecsOf(o)

\* What an open order keeps back: a BUY its price, a SELL its quantity, less what
\* was executed.
HeldQuote == SumFunctionOnSet([o \in Buys |-> Reserve[o] - TotalCost(Done(o))],
                              {o \in Buys : order[o] = "open"})
HeldBase  == SumFunctionOnSet([o \in Order |-> TotalQty(ExecsOf(o) \ happened)],
                              {o \in Order \ Buys : order[o] = "open"})

\* getBalances: available = total - held.
AvailableQuote == account.quote - HeldQuote
AvailableBase  == account.base - HeldBase

\* Everything the order executed is in the book.
InBook(o) == o \in doc.book.money.attested \/ Done(o) \subseteq doc.book.money.applied
Resolved(o)  == order[o] = "none" \/ (order[o] = "closed" /\ InBook(o))

AtWork == {c \in Command : run[c].at # "idle"}

\* The operator waits until the bot is quiet, and then lets one command run.
MayCommand == Quiet => AtWork = {} /\ \A o \in Order : Resolved(o)
MayTrade   == Quiet => AtWork = {}

----------------------------------------------------------------------------
(* The two commands *)

\* What is available beyond what the book knows.
Beyond(available, managed) == IF available > managed THEN available - managed ELSE 0
ExternalCash(b)     == Beyond(AvailableQuote, b.money.cash)
ExternalQuantity(b) == Beyond(AvailableBase, b.money.pos)
External(op, b) == IF op = "adopt" THEN ExternalCash(b) ELSE ExternalQuantity(b)

End(c) == run' = [run EXCEPT ![c] = Idle]

Begin(c, op) == run' = [run EXCEPT ![c] = [Idle EXCEPT !.at = "loaded", !.op = op, !.book = Load(doc)]]

\* The gates hold (live mode, authenticated reads, no kill switch, one pair), the files
\* of the realm are recoverable: the command loads the book.
StartAdopt(c) ==
    /\ run[c].at = "idle" /\ MayCommand
    /\ Load(doc) # Refused
    /\ Begin(c, "adopt")
    /\ UNCHANGED <<doc, account, order, happened, deposits, history>>

\* The same gates; a symbol is onboarded once.
StartOnboard(c) ==
    /\ run[c].at = "idle" /\ MayCommand
    /\ Load(doc) # Refused /\ ~Load(doc).authorized
    /\ Begin(c, "onboard")
    /\ UNCHANGED <<doc, account, order, happened, deposits, history>>

\* The first reading of the balance; the operator is asked for the amount it gives.
Ask(c) ==
    LET amount == External(run[c].op, run[c].book) IN
    /\ run[c].at = "loaded" /\ amount > 0
    /\ run' = [run EXCEPT ![c].at = "asked", ![c].amount = amount]
    /\ UNCHANGED <<doc, account, order, happened, deposits, history>>

\* Nothing to take over, the operator says no, a reading fails, or the process dies.
GiveUp(c) ==
    /\ run[c].at # "idle"
    /\ End(c)
    /\ gone' = [gone EXCEPT ![c] = 0]
    /\ UNCHANGED <<doc, account, order, happened, deposits, unseen>>

\* Wrong: the balance is not read again after the operator's answer.
WrongAsConfirmed(c) == run[c].at = "asked"

\* The second reading gives the amount the operator agreed to.
AsConfirmed(c) == run[c].at = "asked" /\ External(run[c].op, run[c].book) = run[c].amount

\* The operator agreed and the exchange answers the second reading: from here on the
\* command goes by that answer.
Reread(c) ==
    /\ AsConfirmed(c)
    /\ run' = [run EXCEPT ![c].at = "verified"]
    /\ UNCHANGED <<doc, account, order, happened, deposits, history>>

\* The whole book is written as it was when the command loaded it, changed.
Save(c, b) ==
    /\ Writable(b)
    /\ doc' = Written(b)
    /\ End(c)
    /\ gone' = [gone EXCEPT ![c] = 0]
    /\ UNCHANGED <<account, order, happened, deposits>>

Adopt(c) ==
    /\ run[c].at = "verified" /\ run[c].op = "adopt"
    /\ Save(c, AdoptExternalCash(run[c].book, run[c].amount))
    /\ unseen' = [unseen EXCEPT !.quote = @ + gone[c]]

\* The authorized part of the position must come out as the amount confirmed.
Onboard(c) ==
    LET next == AuthorizeExternal(WithExternalSnapshot(run[c].book, run[c].amount)) IN
    /\ run[c].at = "verified" /\ run[c].op = "onboard"
    /\ next.ext = run[c].amount
    /\ Save(c, next)
    /\ unseen' = [unseen EXCEPT !.base = @ + gone[c]]

----------------------------------------------------------------------------
(* The bot's orders *)

\* A new book is loaded, changed and written within one locked section.
Update(b, money) ==
    /\ Writable([b EXCEPT !.money = money])
    /\ doc' = Written([b EXCEPT !.money = money])

\* One order is worked on at a time.
Free(o) == /\ MayTrade /\ order[o] = "none" /\ Load(doc) # Refused
           /\ \A p \in Order : Resolved(p)

\* The BUY reserves its worst-case cost and goes out; NDAX refuses what the account
\* cannot pay, and the reservation is released.
SubmitBuy(o) ==
    LET b == Load(doc) IN
    /\ o \in Buys /\ Free(o)
    /\ CanReserve(b.money, o)
    /\ IF Reserve[o] <= AvailableQuote
         THEN /\ Update(b, ReserveOrder(b.money, o))
              /\ order' = [order EXCEPT ![o] = "open"]
         ELSE /\ Update(b, ReleaseOrders(ReserveOrder(b.money, o), {o}))
              /\ order' = [order EXCEPT ![o] = "closed"]
    /\ UNCHANGED <<account, happened, run, deposits, history>>

\* The managed position covers the SELL, when the section begins.
Covered(b, o) == TotalQty(ExecsOf(o)) <= b.money.pos

SubmitSell(o) ==
    LET qty == TotalQty(ExecsOf(o)) IN
    /\ o \notin Buys /\ Free(o)
    /\ Covered(Load(doc), o)
    /\ order' = [order EXCEPT ![o] = IF qty <= AvailableBase THEN "open" ELSE "closed"]
    /\ UNCHANGED <<doc, account, happened, run, deposits, history>>

\* NDAX executes part of an order, or ends it.
Trade(e) ==
    /\ order[OrderOf[e]] = "open" /\ e \notin happened
    /\ happened' = happened \cup {e}
    /\ account' = IF IsBuy(e)
                     THEN [quote |-> account.quote - Cost[e], base |-> account.base + Qty[e]]
                     ELSE [quote |-> account.quote + Cost[e], base |-> account.base - Qty[e]]
    /\ UNCHANGED <<doc, order, run, deposits, history>>

Close(o) ==
    /\ order[o] = "open"
    /\ order' = [order EXCEPT ![o] = "closed"]
    /\ UNCHANGED <<doc, account, happened, run, deposits, history>>

\* An execution that is proven is accounted; the reservation of a BUY whose order has
\* ended is released with it or on its own.
Account(e) ==
    LET b == Load(doc)
        o == OrderOf[e]
        next == Filled(b, o, Qty[e], ApplyLiveFill(b.money, e))
    IN  /\ MayTrade /\ b # Refused /\ e \in happened
        /\ o \notin b.money.attested
        /\ CanApplyLiveFill(b.money, e)
        /\ Writable(next)
        /\ doc' = Written(next)
        /\ UNCHANGED <<account, order, happened, run, deposits, history>>

Release(o) ==
    LET b == Load(doc) IN
    /\ MayTrade /\ b # Refused
    /\ order[o] = "closed" /\ Active(b.money, o)
    /\ Update(b, ReleaseOrders(b.money, {o}))
    /\ UNCHANGED <<account, order, happened, run, deposits, history>>

\* The operator attests a filled order as a whole.
AttestFilled(o) ==
    LET b == Load(doc)
        next == Filled(b, o, TotalQty(ExecsOf(o)), SettleAttested(b.money, o))
    IN  /\ MayTrade /\ b # Refused
        /\ order[o] = "closed" /\ ExecsOf(o) \subseteq happened
        /\ o \notin b.money.attested /\ CanSettle(b.money, o)
        /\ Writable(next)
        /\ doc' = Written(next)
        /\ UNCHANGED <<account, order, happened, run, deposits, history>>

----------------------------------------------------------------------------
(* The owner *)

\* What executions the book has not got yet did to the account.
Pending(S) == {e \in S : OrderOf[e] \notin doc.book.money.attested} \ doc.book.money.applied
PendingBuys  == Pending({e \in happened : IsBuy(e)})
PendingSells == Pending({e \in happened : ~IsBuy(e)})

\* The part of the account that is not the bot's, by the book and what is still to
\* be accounted.
OwnersQuote == account.quote - (doc.book.money.cash - TotalCost(PendingBuys)
                                                   + TotalCost(PendingSells))
OwnersBase  == account.base - (doc.book.money.pos + TotalQty(PendingBuys)
                                                 - TotalQty(PendingSells))

\* The owner brings money and takes away what is his.
Deposit ==
    /\ deposits < MaxDeposits
    /\ \/ account' = [account EXCEPT !.quote = @ + 1]
       \/ account' = [account EXCEPT !.base = @ + 1]
    /\ deposits' = deposits + 1
    /\ UNCHANGED <<doc, order, happened, run, history>>

\* One unit leaves, unseen by the commands that have read its balance again.
Leaves(op) ==
    gone' = [c \in Command |->
               gone[c] + (IF run[c].at = "verified" /\ run[c].op = op THEN 1 ELSE 0)]

Withdraw ==
    /\ \/ /\ OwnersQuote > 0 /\ AvailableQuote > 0
          /\ account' = [account EXCEPT !.quote = @ - 1]
          /\ Leaves("adopt")
       \/ /\ OwnersBase > 0 /\ AvailableBase > 0
          /\ account' = [account EXCEPT !.base = @ - 1]
          /\ Leaves("onboard")
    /\ UNCHANGED <<doc, order, happened, run, deposits, unseen>>

----------------------------------------------------------------------------
FundsNext ==
    \/ \E c \in Command : StartAdopt(c) \/ StartOnboard(c) \/ Ask(c) \/ GiveUp(c)
                             \/ Reread(c) \/ Adopt(c) \/ Onboard(c)
    \/ \E o \in Order : SubmitBuy(o) \/ SubmitSell(o) \/ Close(o) \/ Release(o) \/ AttestFilled(o)
    \/ \E e \in Exec : Trade(e) \/ Account(e)
    \/ Deposit \/ Withdraw

FundsSpec == FundsInit /\ [][FundsNext]_fundsVars

----------------------------------------------------------------------------
(* Properties *)

\* Adoption and onboarding never give the bot more than the account holds, and nothing
\* twice: what the book manages, with the executions it has not got yet, exceeds the
\* exchange's balance by no more than what its owner took away between a command's
\* second reading and its save; through deposits and withdrawals during the prompt,
\* partial fills, attestations and repeated commands.
ManagedIsBacked == OwnersQuote + unseen.quote >= 0 /\ OwnersBase + unseen.base >= 0

\* Without that allowance it is false: ManagedFunds_window.cfg shows a withdrawal between
\* the second reading and the save, which nobody sees.
CoveredWithoutFail == OwnersQuote >= 0 /\ OwnersBase >= 0

\* The program reads back every book it wrote: no sequence of adoptions, fills, releases
\* and attestations leads to a document that deserializePortfolio refuses, although
\* serializePortfolio checks less.
SavedBookLoads == doc.ver = 2 => Load(doc) # Refused
=============================================================================
