--------------------------- MODULE LiveAccounting ---------------------------
(****************************************************************************)
(* How the executions of LIVE orders reach the managed book: the monitor    *)
(* (LiveOrderMonitor.monitorOnce), reconciliation (reconcile, commitProven) *)
(* and the operator's attestation (resolve-live-order), each of which reads *)
(* the exchange without the lock and then loads, changes and saves the book *)
(* under it.                                                                *)
(*                                                                          *)
(* An actor is the evaluation cycle of an engine process, or a command that *)
(* runs a part of it (live-monitor, reconcile --commit).  Submission is     *)
(* summarised to the placements that are acknowledged with an exchange id:  *)
(* LiveSubmission is about the others.                                      *)
(* Definitions whose name starts with Wrong are deliberate mistakes that no *)
(* action uses; each shows that some property would notice it.              *)
(****************************************************************************)
EXTENDS Portfolio

CONSTANTS
    Actor,
    NoActor,        \* "nobody holds the lock"
    BaseFee,        \* the executions whose fee is taken in the base asset
    Cash0, Pos0,    \* the managed cash and position to begin with
    Faults          \* which saves may fail, a subset of Fault

Fault == {"book", "ledger"}

ASSUME AccountingAssumption ==
    /\ NoActor \notin Actor
    /\ BaseFee \subseteq Exec
    /\ Cash0 \in Nat /\ Pos0 \in Nat
    /\ Faults \subseteq Fault

VARIABLES
    status,    \* OrderStore: status of each order, "ABSENT" before its record
    disk,      \* ManagedStateStore: the book
    xst,       \* the exchange's status of each order
    done,      \* the executions that happened
    visible,   \* those the account-trades endpoint reports
    owner,     \* the actor inside the lock's section
    work,      \* its working copy of the book
    pc,        \* where each actor stands
    seen,      \* the exchange statuses it read ("NONE": not read)
    trades,    \* the account trades it read
    snap,      \* its snapshot of the stores, with the verdict on the balances
    gate,      \* the sides the pre-trade gate allows it to trade
    half       \* history: the orders attested in the book while the save of the
               \* ledger that should have followed failed

stores == <<status, disk>>
exch   == <<xst, done, visible, half>>   \* what no cycle of an actor changes
sect   == <<owner, work>>
reads  == <<seen, trades, snap, gate>>
accVars == <<stores, exch, sect, pc, reads>>

Watched  == {"SUBMITTED", "OPEN", "PARTIALLY_FILLED"}
Working  == {"OPEN", "PARTIALLY_FILLED"}
XStatus  == Working \cup {"FILLED", "CANCELED", "NONE"}
PC == {"idle", "watched", "adopting", "monitored",
       "snapshot", "read", "committing", "committed"}

Snapshot == [known : SUBSET Order, attested : SUBSET Order, agrees : SUBSET {"BUY", "SELL"}]

AccTypeOK ==
    /\ status \in [Order -> Watched \cup {"FILLED", "CANCELED", "ABSENT"}]
    /\ disk \in Book
    /\ xst \in [Order -> XStatus]
    /\ done \subseteq Exec
    /\ visible \subseteq done
    /\ owner \in Actor \cup {NoActor}
    /\ work \in Book
    /\ pc \in [Actor -> PC]
    /\ seen \in [Actor -> [Order -> XStatus]]
    /\ trades \in [Actor -> SUBSET Exec]
    /\ snap \in [Actor -> Snapshot]
    /\ gate \in [Actor -> SUBSET {"BUY", "SELL"}]
    /\ half \subseteq Order

NothingSeen == [o \in Order |-> "NONE"]
NoSnapshot  == [known |-> {}, attested |-> {}, agrees |-> {}]

AccInit ==
    /\ status = [o \in Order |-> "ABSENT"]
    /\ disk = EmptyBook(Cash0, Pos0)
    /\ xst = NothingSeen
    /\ done = {} /\ visible = {}
    /\ owner = NoActor
    /\ work = EmptyBook(Cash0, Pos0)
    /\ pc = [a \in Actor |-> "idle"]
    /\ seen = [a \in Actor |-> NothingSeen]
    /\ trades = [a \in Actor |-> {}]
    /\ snap = [a \in Actor |-> NoSnapshot]
    /\ gate = [a \in Actor |-> {}]
    /\ half = {}

----------------------------------------------------------------------------
(* Helpers *)

Side(o) == IF o \in Buys THEN "BUY" ELSE "SELL"
Known   == {o \in Order : status[o] # "ABSENT"}
Unresolved == {o \in Order : status[o] \in Watched}

Goto(a, l) == pc' = [pc EXCEPT ![a] = l]

\* What a read of the exchange returns for the orders of S.
StatusOf(S) == [o \in Order |-> IF o \in S THEN xst[o] ELSE "NONE"]
TradesOf(S) == {e \in visible : OrderOf[e] \in S}

\* An actor forgets what it has read.
Forget(a) ==
    /\ seen' = [seen EXCEPT ![a] = NothingSeen]
    /\ trades' = [trades EXCEPT ![a] = {}]
    /\ snap' = [snap EXCEPT ![a] = NoSnapshot]
    /\ gate' = [gate EXCEPT ![a] = {}]

\* Wrong: a book that cannot be read counts as empty.
WrongEnterSection(a) ==
    /\ owner = NoActor
    /\ owner' = a
    /\ work' \in {disk, EmptyBook(Cash0, Pos0)}

\* The section is entered with a fresh copy of the book, and left without it.
EnterSection(a) ==
    /\ owner = NoActor
    /\ owner' = a
    /\ work' = disk

LeaveSection ==
    /\ owner' = NoActor
    /\ work' = EmptyBook(Cash0, Pos0)

\* reservationDisposition: an order that ended without a fill, as far as the
\* executions of T tell.
EndedUnfilled(a, T) ==
    {o \in Order : /\ seen[a][o] = "CANCELED"
                   /\ \A e \in T : OrderOf[e] # o}

----------------------------------------------------------------------------
(* monitorOnce *)

\* Phase 1: the status of each unresolved order, then its trades; a status that
\* cannot be read skips the order, trades that cannot be read count as none.
ReadStatuses(a) ==
    /\ pc[a] = "idle"
    /\ Unresolved # {}
    /\ \E S \in SUBSET Unresolved : \E T \in SUBSET S :
          /\ seen' = [seen EXCEPT ![a] = StatusOf(S)]
          /\ trades' = [trades EXCEPT ![a] = TradesOf(T)]
    /\ Goto(a, "watched")
    /\ UNCHANGED <<stores, exch, sect, snap, gate>>

\* Phase 2 begins: under the lock, the statuses read for the orders that are still
\* unresolved are saved in the ledger; the others are skipped.
MonitorOpens(a) ==
    LET adopted == {o \in Unresolved : seen[a][o] # "NONE"} IN
    /\ pc[a] = "watched"
    /\ EnterSection(a)
    /\ status' = [o \in Order |-> IF o \in adopted THEN seen[a][o] ELSE status[o]]
    /\ seen' = [seen EXCEPT ![a] =
                  [o \in Order |-> IF o \in adopted THEN @[o] ELSE "NONE"]]
    /\ Goto(a, "adopting")
    /\ UNCHANGED <<disk, exch, trades, snap, gate>>

\* The executions the monitor accounts: of the adopted orders, the proven ones with
\* a quote fee that the book accepts; the others are reported and skipped.
MonitorMayApply(a, e) ==
    /\ e \in trades[a] \ BaseFee
    /\ seen[a][OrderOf[e]] # "NONE"
    /\ CanApplyLiveFill(work, e)

MonitorApplies(a, e) ==
    /\ pc[a] = "adopting"
    /\ MonitorMayApply(a, e)
    /\ work' = ApplyLiveFill(work, e)
    /\ UNCHANGED <<stores, exch, owner, pc, reads>>

MonitorIsDone(a) == pc[a] = "adopting" /\ \A e \in Exec : ~MonitorMayApply(a, e)

\* One save at the end.  A fill with a base fee keeps the reservation here.
MonitorSaves(a) ==
    /\ MonitorIsDone(a)
    /\ disk' = ReleaseOrders(work, EndedUnfilled(a, trades[a]))
    /\ LeaveSection
    /\ Goto(a, "monitored")
    /\ Forget(a)
    /\ UNCHANGED <<status, exch>>

\* Nothing to monitor, or the lock is refused: the cycle goes on without it.
MonitorEnds(a) ==
    /\ \/ pc[a] = "idle"
       \/ pc[a] = "watched" /\ owner # NoActor
    /\ Goto(a, "monitored")
    /\ Forget(a)
    /\ UNCHANGED <<stores, exch, sect>>

----------------------------------------------------------------------------
(* reconcile *)

\* The balances as they should be, were every execution accounted.
Bought(S) == {e \in S : IsBuy(e)}
Sold(S)   == {e \in S : ~IsBuy(e)}
CashAfter(S) == Cash0 - TotalCost(Bought(S)) + TotalCost(Sold(S))
PosAfter(S)  == Pos0 + TotalQty(Bought(S)) - TotalQty(Sold(S))

\* Wrong: what the exchange holds does not matter.
WrongBalancesAgree == {"BUY", "SELL"}

\* reconcileBalances, per side: a BUY asks for the quote balance, a SELL for the
\* base balance.  What a working order holds at the exchange is not available.
BalancesAgree ==
    LET held == {Side(o) : o \in {x \in Order : xst[x] \in Working}} IN
    {s \in {"BUY", "SELL"} \ held :
        IF s = "BUY" THEN disk.cash = CashAfter(done) ELSE disk.pos = PosAfter(done)}

\* crossDomainValidation: an unresolved BUY without an active reservation.
CrossDomainOK == \A o \in Unresolved \cap Buys : Active(disk, o)

\* The snapshot of the stores under the lock, then the first read: the balances.
TakeSnapshot(a) ==
    /\ pc[a] = "monitored"
    /\ owner = NoActor
    /\ snap' = [snap EXCEPT ![a] =
                  [known |-> Known, attested |-> disk.attested,
                   agrees |-> IF CrossDomainOK THEN BalancesAgree ELSE {}]]
    /\ Goto(a, "snapshot")
    /\ UNCHANGED <<stores, exch, sect, seen, trades, gate>>

\* The lock is refused or the stores cannot be read: HALTED.
NoSnapshotTaken(a) ==
    /\ pc[a] = "monitored"
    /\ Goto(a, "idle")
    /\ UNCHANGED <<stores, exch, sect, reads>>

\* classifyOrder on what was read, for the orders of the snapshot.
Confirmed(read, T, s) ==
    \A o \in s.known :
        \/ /\ read[o] \in {"OPEN", "CANCELED"}
           /\ \A e \in T : OrderOf[e] # o
        \/ read[o] = "FILLED" /\ o \in s.attested

\* livePreTradeGate: every order confirmed, no execution with an unsafe fee.
GateFor(read, T, s) ==
    IF Confirmed(read, T, s) /\ T \cap BaseFee = {} THEN s.agrees ELSE {}

\* Wrong: only the orders unresolved in the ledger are asked for.
WrongReadExchange(a) ==
    /\ pc[a] = "snapshot"
    /\ \E S \in SUBSET snap[a].known, ok \in BOOLEAN :
          /\ seen' = [seen EXCEPT ![a] = StatusOf(S)]
          /\ trades' = [trades EXCEPT ![a] = IF ok THEN TradesOf(Unresolved) ELSE {}]
          /\ gate' = [gate EXCEPT ![a] =
                        IF ok THEN GateFor(seen'[a], trades'[a], snap[a]) ELSE {}]
    /\ Goto(a, "read")
    /\ UNCHANGED <<stores, exch, sect, snap>>

\* Open orders, history and account trades; a failed read blocks the gate, and the
\* rest of what was read is used all the same.
ReadExchange(a) ==
    /\ pc[a] = "snapshot"
    /\ \E S \in SUBSET snap[a].known, ok \in BOOLEAN :
          /\ seen' = [seen EXCEPT ![a] = StatusOf(S)]
          /\ trades' = [trades EXCEPT ![a] = IF ok THEN TradesOf(snap[a].known) ELSE {}]
          /\ gate' = [gate EXCEPT ![a] =
                        IF ok THEN GateFor(seen'[a], trades'[a], snap[a]) ELSE {}]
    /\ Goto(a, "read")
    /\ UNCHANGED <<stores, exch, sect, snap>>

----------------------------------------------------------------------------
(* commitProven *)

Candidates(a) == trades[a] \ BaseFee
Releases(a) ==
    {o \in snap[a].known : disk.resv[o].st # "NONE"} \cap EndedUnfilled(a, Candidates(a))

CommitOpens(a) ==
    /\ pc[a] = "read"
    /\ Candidates(a) # {} \/ Releases(a) # {}
    /\ EnterSection(a)
    /\ Goto(a, "committing")
    /\ UNCHANGED <<stores, exch, reads>>

\* Nothing to commit: no section at all.
NothingToCommit(a) ==
    /\ pc[a] = "read"
    /\ Candidates(a) = {} /\ Releases(a) = {}
    /\ Goto(a, "committed")
    /\ UNCHANGED <<stores, exch, sect, reads>>

\* The lock is refused: StateLockedError ends the cycle.
CommitRefused(a) ==
    /\ pc[a] = "read"
    /\ owner # NoActor
    /\ Goto(a, "idle")
    /\ Forget(a)
    /\ UNCHANGED <<stores, exch, sect>>

\* Wrong: an attestation does not keep executions out.
WrongExcluded(e) == FALSE

\* The two ways to account an order exclude each other.
Excluded(e) == OrderOf[e] \in work.attested

CommitApplies(a, e) ==
    /\ pc[a] = "committing"
    /\ e \in Candidates(a)
    /\ ~Excluded(e) /\ CanApplyLiveFill(work, e)
    /\ work' = ApplyLiveFill(work, e)
    /\ UNCHANGED <<stores, exch, owner, pc, reads>>

\* The first candidate that cannot be applied, be its order attested or the book
\* refuse it, makes the whole commit HALTED: nothing is saved, the gate is closed.
CommitHalts(a) ==
    /\ pc[a] = "committing"
    /\ \E e \in Candidates(a) :
          \/ Excluded(e)
          \/ e \notin work.applied /\ ~CanApplyLiveFill(work, e)
    /\ LeaveSection
    /\ Goto(a, "committed")
    /\ Forget(a)
    /\ UNCHANGED <<stores, exch>>

CommitIsDone(a) ==
    /\ pc[a] = "committing"
    /\ \A e \in Candidates(a) : e \in work.applied /\ ~Excluded(e)

CommitSaves(a) ==
    /\ CommitIsDone(a)
    /\ disk' = ReleaseOrders(work, Releases(a))
    /\ LeaveSection
    /\ Goto(a, "committed")
    /\ UNCHANGED <<status, exch, reads>>

\* The book cannot be saved, or the process dies inside the section and the operator
\* clears its lock: what the section put in the ledger stays.
BookNotSaved(a) ==
    /\ "book" \in Faults
    /\ MonitorIsDone(a) \/ CommitIsDone(a)
    /\ LeaveSection
    /\ Goto(a, IF pc[a] = "adopting" THEN "monitored" ELSE "idle")
    /\ Forget(a)
    /\ UNCHANGED <<stores, exch>>

----------------------------------------------------------------------------
(* The end of the cycle *)

\* A placement that the exchange acknowledges with its order id: one in flight, the
\* gate allows the side, a BUY reserves its cost, a SELL is covered.
Place(a, o) ==
    /\ pc[a] = "committed"
    /\ owner = NoActor
    /\ Side(o) \in gate[a]
    /\ Unresolved = {}
    /\ status[o] = "ABSENT"
    /\ IF o \in Buys
       THEN CanReserve(disk, o) /\ disk' = ReserveOrder(disk, o)
       ELSE TotalQty(ExecsOf(o)) <= disk.pos /\ UNCHANGED disk
    /\ status' = [status EXCEPT ![o] = "SUBMITTED"]
    /\ xst' = [xst EXCEPT ![o] = "OPEN"]
    /\ Goto(a, "idle")
    /\ Forget(a)
    /\ UNCHANGED <<done, visible, half, sect>>

NoTrade(a) ==
    /\ pc[a] = "committed"
    /\ Goto(a, "idle")
    /\ Forget(a)
    /\ UNCHANGED <<stores, exch, sect>>

----------------------------------------------------------------------------
(* The operator: resolve-live-order *)

\* resolveAttestationFee: the only execution reported for the order is all of it
\* and has a quote fee, or none is reported and the order has a quote fee.
FeeResolved(o) ==
    \/ \E e \in visible \ BaseFee : TradesOf({o}) = {e} /\ ExecsOf(o) = {e}
    \/ TradesOf({o}) = {} /\ ExecsOf(o) \cap BaseFee = {}

\* The book is saved first, then the ledger; a repeated attestation changes no book.
Attest(o) ==
    /\ owner = NoActor
    /\ xst[o] = "FILLED"
    /\ FeeResolved(o)
    /\ \/ o \in disk.attested /\ UNCHANGED disk
       \/ /\ o \notin disk.attested
          /\ CanSettle(disk, o)
          /\ disk' = SettleAttested(disk, o)
    /\ \/ status' = [status EXCEPT ![o] = "FILLED"] /\ UNCHANGED half
       \/ "ledger" \in Faults /\ UNCHANGED status /\ half' = half \cup {o}
    /\ UNCHANGED <<xst, done, visible, sect, pc, reads>>

----------------------------------------------------------------------------
(* The exchange *)

Execute(e) ==
    LET o == OrderOf[e] IN
    /\ xst[o] \in Working
    /\ e \notin done
    /\ done' = done \cup {e}
    /\ xst' = [xst EXCEPT ![o] = IF ExecsOf(o) \subseteq done' THEN "FILLED"
                                                              ELSE "PARTIALLY_FILLED"]
    /\ UNCHANGED <<stores, visible, half, sect, pc, reads>>

Cancel(o) ==
    /\ xst[o] \in Working
    /\ xst' = [xst EXCEPT ![o] = "CANCELED"]
    /\ UNCHANGED <<stores, done, visible, half, sect, pc, reads>>

\* Account trades are eventually consistent.
Report(e) ==
    /\ e \in done \ visible
    /\ visible' = visible \cup {e}
    /\ UNCHANGED <<stores, xst, done, half, sect, pc, reads>>

----------------------------------------------------------------------------
MonitorNext(a) ==
    \/ ReadStatuses(a) \/ MonitorOpens(a) \/ MonitorEnds(a)
    \/ (\E e \in Exec : MonitorApplies(a, e)) \/ MonitorSaves(a)

ReconcileNext(a) ==
    \/ TakeSnapshot(a) \/ NoSnapshotTaken(a) \/ ReadExchange(a)
    \/ CommitOpens(a) \/ NothingToCommit(a) \/ CommitRefused(a)
    \/ (\E e \in Exec : CommitApplies(a, e)) \/ CommitHalts(a) \/ CommitSaves(a)
    \/ NoTrade(a)

AccNext ==
    \/ \E a \in Actor : \/ MonitorNext(a) \/ ReconcileNext(a) \/ BookNotSaved(a)
                        \/ \E o \in Order : Place(a, o)
    \/ \E o \in Order : Attest(o) \/ Cancel(o)
    \/ \E e \in Exec : Execute(e) \/ Report(e)

AccSpec == AccInit /\ [][AccNext]_accVars

\* Scheduling: a cycle goes on, the exchange reports what it executed, and what is
\* retried every cycle (the snapshot, the reads, the save) succeeds at last.
FullRead(a) == ReadExchange(a) /\ trades'[a] = TradesOf(snap[a].known)
SavesFills(a) == CommitSaves(a) /\ work.applied # disk.applied

FairAccSpec ==
    /\ AccSpec
    /\ \A a \in Actor :
          /\ WF_accVars(MonitorNext(a) \/ ReconcileNext(a))
          /\ SF_accVars(TakeSnapshot(a))
          /\ SF_accVars(FullRead(a))
          /\ SF_accVars(SavesFills(a))
    /\ \A e \in Exec : WF_accVars(Report(e))

----------------------------------------------------------------------------
(* Properties *)

\* The pool of reserved quote is exactly what the active reservations have left, a
\* released one has nothing left, and no more is reserved than there is cash.
BooksAddUp ==
    LET active == {o \in Order : Active(disk, o)} IN
    /\ disk.reserved = Left(disk, active)
    /\ \A o \in Order : disk.resv[o].left >= 0 /\ (o \notin active => disk.resv[o].left = 0)
    /\ disk.reserved <= disk.cash

\* Cash and position are what the executions applied and the orders attested make of
\* the initial ones, each record once: no save ever loses, repeats or halves an amount.
AttestedExecs(p) == {e \in Exec : OrderOf[e] \in p.attested}

CashIsAccounted ==
    /\ disk.cash = CashAfter(disk.applied) + CashAfter(AttestedExecs(disk)) - Cash0
    /\ disk.pos = PosAfter(disk.applied) + PosAfter(AttestedExecs(disk)) - Pos0

\* An execution is accounted only if it happened; and both on its own and with the
\* attested total of its order only after the attestation's save of the ledger failed.
Accounted(p) == p.applied \cup AttestedExecs(p)

AccountedOnce ==
    /\ Accounted(disk) \subseteq done
    /\ \A e \in disk.applied : OrderOf[e] \in disk.attested => OrderOf[e] \in half

\* Not even then: false, the monitor does not ask whether an order is attested.
NeverAccountedTwice == \A e \in disk.applied : OrderOf[e] \notin disk.attested

\* What the book says was applied or attested stays so, whoever saves it next.
AppliedNeverForgotten ==
    [][/\ disk.applied \subseteq disk'.applied
       /\ disk.attested \subseteq disk'.attested]_accVars

\* An order is placed only while the book's side of it equals what the exchange
\* really has: the balances checked earlier in the cycle are still right.
PlacedOnTrueBooks ==
    [][\A o \in Order : status[o] = "ABSENT" /\ status'[o] # "ABSENT" =>
          IF o \in Buys THEN disk.cash = CashAfter(done) ELSE disk.pos = PosAfter(done)]_accVars

\* "A reservation is released ONLY when the existing safety rules PROVE release is
\* safe": when an order's reservation is gone, so is every fill of it unaccounted.
ReleasedWhenSafe ==
    \A o \in Buys : disk.resv[o].st = "RELEASED" =>
        \A e \in done : OrderOf[e] = o => e \in Accounted(disk)

\* An execution with a quote fee is accounted in the end.
FillIsAccounted ==
    \A e \in Exec \ BaseFee : (e \in done) ~> (e \in Accounted(disk))

\* It is, unless a reported execution of an attested order makes every commit HALT.
Blocked == \E e \in visible \ BaseFee : OrderOf[e] \in disk.attested

FillIsAccountedUnlessBlocked ==
    \A e \in Exec \ BaseFee : (e \in done) ~> (e \in Accounted(disk) \/ Blocked)

----------------------------------------------------------------------------
(* The inductive invariant behind AccountedOnce and AppliedNeverForgotten    *)

\* The ledger says FILLED of what is attested, so that the monitor leaves it alone,
\* unless its save failed.
AttestedIsSettled == \A o \in disk.attested \ half : status[o] = "FILLED"

\* The exchange reports only what happened, and all of it happened when FILLED.
ReportsAreTrue ==
    /\ \A o \in Order : xst[o] = "FILLED" => ExecsOf(o) \subseteq done
    /\ \A a \in Actor : trades[a] \subseteq done

\* An actor is in the lock's section exactly while it adopts or commits, and its
\* working copy holds all the stored book holds.
SectionHoldsBook ==
    /\ \A a \in Actor : owner = a <=> pc[a] \in {"adopting", "committing"}
    /\ owner # NoActor =>
          /\ disk.applied \subseteq work.applied
          /\ work.applied \subseteq done
          /\ work.attested = disk.attested
          /\ \A e \in work.applied : OrderOf[e] \in work.attested => OrderOf[e] \in half

\* While the monitor accounts, none of the orders it adopted is attested and settled.
AdoptedIsNotAttested ==
    \A a \in Actor : pc[a] = "adopting" =>
        \A o \in Order : seen[a][o] # "NONE" => o \notin disk.attested \ half

AccIInv ==
    /\ AttestedIsSettled
    /\ ReportsAreTrue
    /\ SectionHoldsBook
    /\ AdoptedIsNotAttested
    /\ AccountedOnce
=============================================================================
