---------------------------- MODULE LivePlacement ----------------------------
(****************************************************************************)
(* What entitles an order to leave for the exchange, and what its answer    *)
(* means: the autonomous session the engine trades under, the single-use    *)
(* authorization of the supervised `live-test` command, the order an        *)
(* operator confirms on a screen, the checks inside the submission section, *)
(* the placement boundary of NdaxAdapter and the classification of answers. *)
(*                                                                          *)
(* Engine and command are processes on one state directory (StateLock); an  *)
(* engine runs one cycle at a time (overlapping cycles are LiveSubmission's *)
(* subject).  Time is a clock of coarse ticks.  How much is bought or sold  *)
(* is RiskManager's subject: here any size the managed book covers may be   *)
(* approved.  The cycle around a placement, and what becomes of the order,  *)
(* are those of LiveSubmission and LiveAccounting.  Wrong... marks a        *)
(* deliberate mistake.                                                      *)
(****************************************************************************)
EXTENDS StateLock, Integers, FiniteSets, Functions

CONSTANTS
    Eng, Cmd,        \* the two processes
    Id,              \* client order ids, in the order they are used
    Price,           \* limit prices
    Book,            \* managed portfolios another command may leave: base and quote
    None,            \* no session, no order
    AccountKnown,    \* is NDAX_ACCOUNT_ID configured
    MaxAge,          \* marketDataMaxAgeMs
    AckTimeout,      \* ackTimeoutMs
    SessionLife,     \* liveAutonomousSessionMinutes
    SessionOrders, SessionNotional, MaxNotional, MaxBase,  \* the scope's caps
    MaxMinted,       \* bound: capabilities minted
    Horizon          \* bound: the last tick

ASSUME ProcessesAssumption == Eng \in Process /\ Cmd \in Process /\ Eng # Cmd
ASSUME OneTaskEachAssumption == Serial
ASSUME AccountAssumption == AccountKnown \in BOOLEAN
ASSUME AmountsAssumption ==
    /\ Id \subseteq Nat /\ IsFiniteSet(Id)
    /\ Price \subseteq Nat
    /\ Book \subseteq [cash : Nat, pos : Nat]
    /\ {MaxAge, AckTimeout, SessionLife, Horizon} \subseteq Nat
    /\ {SessionOrders, SessionNotional, MaxNotional, MaxBase, MaxMinted} \subseteq Nat
ASSUME NoneAssumption ==
    /\ None \notin [side : {"BUY", "SELL"}, qty : Nat, price : Price]
    /\ None \notin [side : {"BUY", "SELL"}, qty : Nat, price : Price, cap : Nat]
    /\ None \notin [orders : Nat, spent : Nat, until : Nat, cap : Nat]

VARIABLES
    clock,
    feed,     \* the engine's polled ticker: price and exchange time
    book,     \* the managed portfolio on disk: base and quote
    status,   \* OrderStore
    order,    \* the transaction of each record, and the capability it goes under
    wire,     \* how far the placement of each order got
    job,      \* what each task is at
    session,  \* the engine's session registry entry
    token,    \* the command's authorization, 0 once used or gone
    shown,    \* the transaction an authorization was shown to the operator with
    halted    \* the engine has halted (its risk manager's kill switch is set)

plVars == <<lockVars, clock, feed, book, status, order, wire, job, session,
            token, shown, halted>>

Minted     == DOMAIN shown
Cycle      == {t \in Task : ProcOf[t] = Eng}
Command    == {t \in Task : ProcOf[t] = Cmd}
Unresolved == {"CREATED", "SUBMITTED", "UNKNOWN"}
AtExchange == {"posted", "placed", "turned"}
Idle       == [pc |-> "idle"]
Cost(o)    == o.qty * o.price

NoUnresolved == \A o \in Id : status[o] \notin Unresolved
Fresh        == {o \in Id : status[o] = "ABSENT"}
Costs        == [o \in Id |-> IF order[o] = None THEN 0 ELSE Cost(order[o])]
Reserved     == SumFunctionOnSet(Costs,
                   {o \in Id : status[o] \in Unresolved /\ order[o].side = "BUY"})

----------------------------------------------------------------------------
(* The answers of the exchange *)

\* What tells answers apart: the HTTP status, the errorcode, what its text is
\* recognised by, and the status of a SendOrder body.
Response ==
    [http : {200, 400, 401, 403, 429, 500}, code : {0, 20, 100, 101, 102, 104, 105},
     text : {"none", "auth", "funds", "server", "resource"},
     body : {"accepted", "rejected", "other"}]

\* Wrong: every error the exchange reports is read as a refusal.
WrongMapError(r) == "OrderRejected"

\* mapError: the text is looked at before the code.
MapError(r) ==
    CASE r.text = "auth"     -> "Authentication"
      [] r.text = "funds"    -> "OrderRejected"
      [] r.text = "server"   -> "Server"
      [] r.text = "resource" -> "NotFound"
      [] OTHER -> CASE r.code = 20  -> "Authentication"
                    [] r.code = 100 -> "InvalidResponse"
                    [] r.code = 101 -> "OrderRejected"
                    [] r.code = 102 -> "Server"
                    [] r.code = 104 -> "NotFound"
                    [] OTHER        -> "Exchange"

ThrowForResponse(r) ==
    IF r.http = 429 \/ r.code = 105 THEN "RateLimit"
    ELSE IF r.http \in {401, 403} THEN "Authentication"
    ELSE IF r.http >= 500 THEN "Server"
    ELSE IF r.code # 0 \/ r.http >= 400 THEN MapError(r)
    ELSE "none"

MapSendOrderResponse(r) ==
    IF ThrowForResponse(r) # "none" THEN ThrowForResponse(r)
    ELSE IF r.body = "rejected" THEN "OrderRejected"
    ELSE IF r.body = "accepted" THEN "none"
    ELSE "InvalidResponse"

\* handleSubmissionError: only OrderRejectedError is a definite refusal.
Verdict(error) ==
    CASE error = "none"          -> "SUBMITTED"
      [] error = "OrderRejected" -> "REJECTED"
      [] OTHER                   -> "UNKNOWN"

\* What the exchange means.  It accepts an order or turns it down, and says so;
\* every other answer, and a broken connection, leaves open which.
Refusal(r) == /\ r.http \in {200, 400}
              /\ r.body = "rejected" \/ r.text = "funds" \/ r.code = 101
Acceptance(r) == r.http = 200 /\ r.code = 0 /\ r.text = "none" /\ r.body = "accepted"

PlacedVerdicts == {Verdict(MapSendOrderResponse(r)) : r \in {r \in Response : ~Refusal(r)}}
TurnedVerdicts == {Verdict(MapSendOrderResponse(r)) : r \in {r \in Response : ~Acceptance(r)}}
                     \ {"SUBMITTED"}
LookupVerdicts == {Verdict(e) : e \in {ThrowForResponse(r) : r \in Response}} \ {"SUBMITTED"}

----------------------------------------------------------------------------
(* Capabilities *)

SessionLive == session # None /\ clock < session.until

\* evaluateAutonomousLiveOrder.
InSessionScope(o) ==
    /\ SessionLive
    /\ o.qty <= MaxBase
    /\ Cost(o) <= MaxNotional
    /\ session.orders + 1 <= SessionOrders
    /\ session.spent + Cost(o) <= SessionNotional

\* isControlledLiveOrder: a registered token, of its side and within its caps.
InTokenScope(o) == /\ token = o.cap /\ o.side = shown[o.cap].side
                   /\ o.qty <= MaxBase /\ Cost(o) <= MaxNotional

OfCommand(o) == shown[o.cap] # None

\* assertOrderPlacementEnabled.
Authorized(o) == IF OfCommand(o) THEN InTokenScope(o) ELSE InSessionScope(o)

\* Wrong: the budget is not charged until an order is known to have been placed.
WrongConsume(o) ==
    /\ token' = IF OfCommand(o) THEN 0 ELSE token
    /\ UNCHANGED session

\* The token is removed, the budget is charged, before anything is awaited.
Consume(o) ==
    IF OfCommand(o)
    THEN token' = 0 /\ UNCHANGED session
    ELSE /\ session' = [session EXCEPT !.orders = @ + 1, !.spent = @ + Cost(o)]
         /\ UNCHANGED token

NewSession == [orders |-> 0, spent |-> 0, until |-> clock + SessionLife,
               cap |-> Cardinality(Minted) + 1]

\* create...Session / create...Authorization: a token of its own.
Mint(what) == shown' = [c \in 1..Cardinality(Minted) + 1 |->
                           IF c \in Minted THEN shown[c] ELSE what]

PlInit ==
    /\ LockInit
    /\ clock = 0
    /\ feed \in [price : Price, at : {0}]
    /\ book \in Book
    /\ status = [o \in Id |-> "ABSENT"]
    /\ order = [o \in Id |-> None]
    /\ wire = [o \in Id |-> "none"]
    /\ job = [t \in Task |-> Idle]
    /\ shown = [c \in {1} |-> None]
    /\ session = [orders |-> 0, spent |-> 0, until |-> SessionLife, cap |-> 1]
    /\ token = 0
    /\ halted = FALSE

----------------------------------------------------------------------------
(* The environment *)

Tick ==
    /\ clock < Horizon
    /\ clock' = clock + 1
    /\ UNCHANGED <<lockVars, feed, book, status, order, wire, job, session, token,
                   shown, halted>>

\* LiveMarketData stores what the exchange last quoted, possibly some time ago.
Poll ==
    /\ Eng \in up
    /\ feed' \in {q \in [price : Price, at : feed.at..clock] : q # feed}
    /\ UNCHANGED <<lockVars, clock, book, status, order, wire, job, session, token,
                   shown, halted>>

\* Another command (a manual settlement, an adoption) changes the managed book.
OtherCommand ==
    /\ lockFile = NoProcess
    /\ book' \in {b \in Book : b # book /\ b.cash >= Reserved}
    /\ UNCHANGED <<lockVars, clock, feed, status, order, wire, job, session, token,
                   shown, halted>>

\* The monitor settles an order the exchange has; an operator attaches or abandons
\* any order without an outcome.
Resolve(o) ==
    /\ status[o] \in Unresolved
    /\ \/ lockFile = NoProcess
       \/ status[o] = "SUBMITTED" /\ held[Eng]
    /\ status' = [status EXCEPT ![o] = "SETTLED"]
    /\ UNCHANGED <<lockVars, clock, feed, book, order, wire, job, session, token,
                   shown, halted>>

----------------------------------------------------------------------------
(* Up to the submission section *)

\* What the risk manager may approve: never more than the managed book covers.
Approvals(price) ==
    {[side |-> "BUY", qty |-> q, price |-> price] :
        q \in {q \in 1..MaxBase : q * price <= book.cash - Reserved}}
    \cup {[side |-> "SELL", qty |-> q, price |-> price] : q \in 1..book.pos}

\* evaluateFreshness, at the time `now` the caller passes.
FreshAt(at, now) == now - at <= MaxAge

\* The timer fires: evaluateOnce captures the time, then awaits the reconciliation.
StartCycle(t) ==
    /\ Eng \in up /\ job[t] = Idle
    /\ job' = [job EXCEPT ![t] = [pc |-> "reconciling", now |-> clock]]
    /\ UNCHANGED <<lockVars, clock, feed, book, status, order, wire, session, token,
                   shown, halted>>

Go(t, want, cap) ==
    job' = [job EXCEPT ![t] = [pc |-> "validating", want |-> want, cap |-> cap]]

\* The coordinator selects a trade on the polled ticker, dated by the captured time;
\* the gates hold, place() approves it again and the section is entered.
Place(t) ==
    /\ job[t].pc = "reconciling"
    /\ ~halted /\ NoUnresolved /\ SessionLive
    /\ FreshAt(feed.at, job[t].now)
    /\ Enter(t)
    /\ \E want \in Approvals(feed.price) : Go(t, want, session.cap)
    /\ UNCHANGED <<clock, feed, book, status, order, wire, session, token, shown, halted>>

\* No trade, a gate refuses, the lock is busy or a read failed; some of these halt.
EndCycle(t) ==
    /\ job[t].pc = "reconciling"
    /\ job' = [job EXCEPT ![t] = Idle]
    /\ halted' \in {halted, TRUE}
    /\ UNCHANGED <<lockVars, clock, feed, book, status, order, wire, session, token, shown>>

\* The preparation of a command's order on one snapshot: a fresh quote, no order of the
\* ledger unresolved (the pre-trade gate), an approval.  The authorization is minted, the
\* order is shown.  EXECUTE may be typed at any later time.
Prepare(t, at, want) ==
    /\ Cmd \in up /\ job[t] = Idle
    /\ FreshAt(at, clock) /\ NoUnresolved
    /\ Cardinality(Minted) < MaxMinted
    /\ Mint(want)
    /\ token' = Cardinality(Minted) + 1
    /\ job' = [job EXCEPT ![t] = [pc |-> "prompt", at |-> at, want |-> want]]
    /\ UNCHANGED <<lockVars, clock, feed, book, status, order, wire, session, halted>>

\* live-test.
PrepareSell(t) ==
    \E p \in Price, at \in 0..clock : \E want \in Approvals(p) :
        want.side = "SELL" /\ Prepare(t, at, want)

\* What `live-test buy` must know before it mints anything; only TRUE counts.
BuyReadiness(at, want) ==
    [capsPositive     |-> MaxBase > 0 /\ MaxNotional > 0,
     snapshotFresh    |-> FreshAt(at, clock),
     noUnresolved     |-> NoUnresolved,
     quantityValid    |-> want.qty > 0,
     priceValid       |-> want.price > 0,
     managedCash      |-> Cost(want) <= book.cash - Reserved]
Blockers(facts) == {f \in DOMAIN facts : facts[f] # TRUE}

\* live-test buy.
PrepareBuy(t) ==
    \E p \in Price, at \in 0..clock : \E want \in Approvals(p) :
        /\ want.side = "BUY"
        /\ Blockers(BuyReadiness(at, want)) = {}
        /\ Prepare(t, at, want)

\* Wrong: after the confirmation the order is sized and priced anew.
WrongExecute(t) ==
    /\ job[t].pc = "prompt"
    /\ FreshAt(job[t].at, clock)
    /\ Enter(t) /\ NoUnresolved
    /\ \E p \in Price : \E want \in Approvals(p) : Go(t, want, token)
    /\ UNCHANGED <<clock, feed, book, status, order, wire, session, token, shown, halted>>

\* EXECUTE: placePrepared evaluates risk in the snapshot's context with only the time
\* advanced, so the approval can differ by freshness alone.
Execute(t) ==
    /\ job[t].pc = "prompt"
    /\ FreshAt(job[t].at, clock)
    /\ Enter(t) /\ NoUnresolved
    /\ Go(t, job[t].want, token)
    /\ UNCHANGED <<clock, feed, book, status, order, wire, session, token, shown, halted>>

----------------------------------------------------------------------------
(* The submission section *)

\* A process that ends takes with it what it has not sent.
Unsent(p) == {o \in Id : wire[o] = "authorized" /\ p = IF OfCommand(order[o]) THEN Cmd ELSE Eng}

\* The section ends.  The command's process ends with it; an order without an
\* outcome halts the engine.
Finish(t, outcome) ==
    /\ Leave(t)
    /\ job' = [job EXCEPT ![t] = Idle]
    /\ halted' = (halted \/ (t \in Cycle /\ outcome = "UNKNOWN"))
    /\ UNCHANGED <<clock, feed, book, session, shown>>

Forget(t) == token' = IF t \in Command THEN 0 ELSE token

\* The outcome is recorded unless the lock has gone to another process meanwhile.
Record(t, outcome) ==
    /\ status' = IF CanMutate(ProcOf[t])
                 THEN [status EXCEPT ![job[t].id] = outcome] ELSE status
    /\ Finish(t, outcome)

\* Wrong: the managed book is not read again inside the section.
WrongCovered(o) == TRUE

\* buildManagedOrderGuard for a SELL, reserveOrder for a BUY, on the reloaded book.
Covered(o) ==
    IF o.side = "SELL" THEN o.qty <= book.pos ELSE Cost(o) <= book.cash - Reserved

\* validateOrder's caps.
Valid(o) == o.qty <= MaxBase /\ (o.side = "BUY" => Cost(o) <= MaxNotional)

\* validateOrder, the one-in-flight guard, the managed guard or the reservation
\* refuses; or the operator types something else: nothing is recorded or sent.
Refuse(t) ==
    /\ \/ job[t].pc = "validating" /\ Finish(t, "none")
       \/ /\ job[t].pc = "prompt"
          /\ job' = [job EXCEPT ![t] = Idle]
          /\ UNCHANGED <<lockVars, clock, feed, book, session, shown, halted>>
    /\ Forget(t)
    /\ UNCHANGED <<status, order, wire>>

\* The checks passed: CREATED is saved, the adapter authorizes and consumes, and the
\* placement is under way.  An adapter that refuses ends in REJECTED at once.
Submit(t) ==
    LET o    == CHOOSE i \in Fresh : \A j \in Fresh : i <= j
        want == [side |-> job[t].want.side, qty |-> job[t].want.qty,
                 price |-> job[t].want.price, cap |-> job[t].cap]
    IN
    /\ job[t].pc = "validating"
    /\ Fresh # {}
    /\ CanMutate(ProcOf[t])
    /\ Valid(want) /\ Covered(want)
    /\ order' = [order EXCEPT ![o] = want]
    /\ IF Authorized(want)
       THEN /\ Consume(want)
            /\ status' = [status EXCEPT ![o] = "CREATED"]
            /\ wire' = [wire EXCEPT ![o] = "authorized"]
            /\ job' = [job EXCEPT ![t] = [pc |-> "sending", id |-> o, since |-> clock]]
            /\ UNCHANGED <<lockVars, clock, feed, book, shown, halted>>
       ELSE /\ status' = [status EXCEPT ![o] = "REJECTED"]
            /\ Finish(t, "REJECTED")
            /\ Forget(t)
            /\ UNCHANGED wire

\* SendOrder is posted: with a configured account as soon as the throttle lets it, else
\* after GetUserAccounts has answered, however long that takes.
Post(o) ==
    /\ wire[o] = "authorized"
    /\ wire' = [wire EXCEPT ![o] = "posted"]
    /\ UNCHANGED <<lockVars, clock, feed, book, status, order, job, session, token,
                   shown, halted>>

\* GetUserAccounts fails: SendOrder is never posted.
LookupFails(t) ==
    /\ ~AccountKnown
    /\ job[t].pc = "sending" /\ wire[job[t].id] = "authorized"
    /\ wire' = [wire EXCEPT ![job[t].id] = "dropped"]
    /\ \E v \in LookupVerdicts : Record(t, v)
    /\ Forget(t)
    /\ UNCHANGED order

\* The request reaches the exchange, which takes the order or turns it down; a
\* request that is lost on the way is turned down, too.
Receive(o) ==
    /\ wire[o] = "posted"
    /\ \E w \in {"placed", "turned"} : wire' = [wire EXCEPT ![o] = w]
    /\ UNCHANGED <<lockVars, clock, feed, book, status, order, job, session, token,
                   shown, halted>>

\* An answer, or a broken connection, ends the wait.
Answer(t) ==
    /\ job[t].pc = "sending"
    /\ \/ wire[job[t].id] = "placed" /\ \E v \in PlacedVerdicts : Record(t, v)
       \/ wire[job[t].id] = "turned" /\ \E v \in TurnedVerdicts : Record(t, v)
       \/ wire[job[t].id] = "posted" /\ Record(t, "UNKNOWN")
    /\ Forget(t)
    /\ UNCHANGED <<order, wire>>

\* The acknowledgement timeout ends the wait, not the placement.
Timeout(t) ==
    /\ job[t].pc = "sending"
    /\ clock - job[t].since >= AckTimeout
    /\ AccountKnown => wire[job[t].id] # "authorized"
    /\ Record(t, "UNKNOWN")
    /\ Forget(t)
    /\ wire' = [o \in Id |-> IF t \in Command /\ o \in Unsent(Cmd) THEN "dropped" ELSE wire[o]]
    /\ UNCHANGED order

----------------------------------------------------------------------------
(* Process ends *)

\* A crash, a signal (onSignal ends the session and the process), or Ctrl-C.
Die(p) ==
    /\ Crash(p)
    /\ job' = [t \in Task |-> IF ProcOf[t] = p THEN Idle ELSE job[t]]
    /\ wire' = [o \in Id |-> IF o \in Unsent(p) THEN "dropped" ELSE wire[o]]
    /\ session' = IF p = Eng THEN None ELSE session
    /\ token' = IF p = Cmd THEN 0 ELSE token
    /\ halted' = (halted /\ p # Eng)
    /\ UNCHANGED <<clock, feed, book, status, order, shown>>

\* buildLiveEngine arms a session of its own; a new command starts from nothing.
Begin(p) ==
    /\ Restart(p)
    /\ IF p = Eng
       THEN /\ Cardinality(Minted) < MaxMinted
            /\ session' = NewSession
            /\ Mint(None)
       ELSE UNCHANGED <<session, shown>>
    /\ UNCHANGED <<clock, feed, book, status, order, wire, job, token, halted>>

RemoveLock ==
    /\ OperatorRemove
    /\ UNCHANGED <<clock, feed, book, status, order, wire, job, session, token, shown, halted>>

PlNext ==
    \/ Tick \/ Poll \/ OtherCommand \/ RemoveLock
    \/ \E t \in Cycle : StartCycle(t) \/ Place(t) \/ EndCycle(t)
    \/ \E t \in Command : PrepareSell(t) \/ PrepareBuy(t) \/ Execute(t)
    \/ \E t \in Task : Refuse(t) \/ Submit(t) \/ LookupFails(t) \/ Answer(t) \/ Timeout(t)
    \/ \E o \in Id : Post(o) \/ Receive(o) \/ Resolve(o)
    \/ \E p \in Process : Die(p) \/ Begin(p)

PlSpec == PlInit /\ [][PlNext]_plVars

----------------------------------------------------------------------------
(* Properties *)

\* The orders the exchange was sent under one session stay within its order count and
\* its quote budget, whatever overlaps, fails or times out (AutonomousLiveSession:
\* "a session can permit at most maxSessionOrders orders").
SessionWithinBudget ==
    \A c \in Minted : shown[c] = None =>
        LET sent == {o \in Id : wire[o] \in AtExchange /\ order[o].cap = c} IN
        /\ Cardinality(sent) <= SessionOrders
        /\ SumFunctionOnSet(Costs, sent) <= SessionNotional

\* Whatever the command sends is the transaction the operator saw, and he saw it for
\* this order alone (PreparedLiveOrder: "the order a human confirms can never diverge
\* from the order submitted"; ControlledLiveAuthorization: SINGLE-USE).
SentAsConfirmed ==
    \A o \in Id : wire[o] \in AtExchange /\ OfCommand(order[o]) =>
        /\ shown[order[o].cap] =
              [side |-> order[o].side, qty |-> order[o].qty, price |-> order[o].price]
        /\ \A u \in Id \ {o} : wire[u] \in AtExchange => order[u].cap # order[o].cap

\* While an order is being sent under the lock, the managed book still covers it,
\* whatever other processes did between its preparation and its submission.
CoveredWhileSending ==
    /\ Reserved <= book.cash
    /\ \A t \in Task : job[t].pc = "sending" /\ order[job[t].id].side = "SELL"
          => order[job[t].id].qty <= book.pos

\* An order recorded as rejected is not at the exchange and will not get there: its
\* reservation may be released, and the same trade may be tried again.
RejectedMeansNotPlaced ==
    \A o \in Id : status[o] = "REJECTED" => wire[o] \in {"none", "dropped", "turned"}

\* LiveEngine promises that "a stale quote fails closed in the decision path": the quote
\* an autonomous cycle decides on is not older than the limit by the clock of that moment.
DecidedOnFreshQuote ==
    [][\A t \in Cycle : job[t].pc = "reconciling" /\ job'[t].pc = "validating"
          => clock - feed.at <= MaxAge]_plVars

\* LiveOrderEngine.submit holds the lock "for the WHOLE critical section ... and the
\* exchange submission": no SendOrder leaves once its section has ended.
SentUnderLock ==
    [][\A o \in Id : wire[o] = "authorized" /\ wire'[o] = "posted"
          => \E t \in Task : Inside(t) /\ job[t].pc = "sending" /\ job[t].id = o]_plVars

----------------------------------------------------------------------------
(* Types, and the inductive invariant behind the state properties *)

Transaction == [side : {"BUY", "SELL"}, qty : Nat, price : Price]
Capability  == 1..Cardinality(Minted)
Submitted   == [side : {"BUY", "SELL"}, qty : Nat, price : Price, cap : Capability]
Registered  == [orders : Nat, spent : Nat, until : Nat, cap : Capability]

Job == {Idle}
       \cup [pc : {"reconciling"}, now : Nat]
       \cup [pc : {"prompt"}, at : Nat, want : Transaction]
       \cup [pc : {"validating"}, want : Transaction, cap : Capability]
       \cup [pc : {"sending"}, id : Id, since : Nat]

PlTypeOK ==
    /\ LockTypeOK
    /\ clock \in Nat
    /\ feed \in [price : Price, at : Nat]
    /\ book \in Book
    /\ status \in [Id -> Unresolved \cup {"ABSENT", "REJECTED", "SETTLED"}]
    /\ order \in [Id -> {None} \cup Submitted]
    /\ wire \in [Id -> AtExchange \cup {"none", "authorized", "dropped"}]
    /\ job \in [Task -> Job]
    /\ Cardinality(Minted) \in Nat
    /\ shown \in [Capability -> {None} \cup Transaction]
    /\ session \in {None} \cup Registered
    /\ token \in {0} \cup Capability
    /\ halted \in BOOLEAN

\* The steps of a task belong to its process, and the section is open exactly while
\* a submission is checked or sent.
JobsInPlace ==
    \A t \in Task :
        /\ job[t].pc = "reconciling" => t \in Cycle
        /\ job[t].pc = "prompt" => t \in Command
        /\ job[t] # Idle => t \in Cycle \cup Command
        /\ Inside(t) <=> job[t].pc \in {"validating", "sending"}

\* What was never recorded was never sent; an order being sent has no outcome yet.
RecordsMatch ==
    /\ \A o \in Id : status[o] = "ABSENT" <=> order[o] = None
    /\ \A o \in Id : status[o] = "ABSENT" => wire[o] = "none"
    /\ \A t \in Task : job[t].pc = "sending" =>
          status[job[t].id] = "CREATED" /\ order[job[t].id] # None

\* The command's authorization is for what its order was shown as; a cycle submits
\* under the session that is registered.
CapabilityHeld ==
    /\ \A t \in Command :
          /\ job[t].pc = "prompt" => token # 0 /\ shown[token] = job[t].want
          /\ job[t].pc = "validating" =>
                token # 0 /\ job[t].cap = token /\ shown[token] = job[t].want
    /\ \A t \in Cycle : job[t].pc = "validating" =>
          session # None /\ job[t].cap = session.cap
    /\ session # None => shown[session.cap] = None
    /\ token # 0 => shown[token] # None

\* Orders that were, or still may be, sent.
Live == {o \in Id : wire[o] \in AtExchange \cup {"authorized"}}
LiveUnder(c) == {o \in Live : order[o].cap = c}

\* An unused authorization has no order, a used one has one, as it was shown.
AuthorizationOnce ==
    /\ token # 0 => LiveUnder(token) = {}
    /\ \A o \in Live : OfCommand(order[o]) =>
          /\ shown[order[o].cap] =
                [side |-> order[o].side, qty |-> order[o].qty, price |-> order[o].price]
          /\ LiveUnder(order[o].cap) = {o}

\* What a session has permitted is charged to it before it can leave.
BudgetCharged ==
    /\ session # None =>
          /\ Cardinality(LiveUnder(session.cap)) <= session.orders
          /\ session.orders <= SessionOrders
          /\ SumFunctionOnSet(Costs, LiveUnder(session.cap)) <= session.spent
          /\ session.spent <= SessionNotional
    /\ \A c \in Capability : shown[c] = None =>
          /\ Cardinality(LiveUnder(c)) <= SessionOrders
          /\ SumFunctionOnSet(Costs, LiveUnder(c)) <= SessionNotional

PlIInv ==
    /\ PlTypeOK
    /\ HolderConsistent
    /\ \A t \in Task : section[t] # "guest"
    /\ JobsInPlace
    /\ RecordsMatch
    /\ CapabilityHeld
    /\ AuthorizationOnce
    /\ BudgetCharged
    /\ CoveredWhileSending
    /\ RejectedMeansNotPlaced
=============================================================================
