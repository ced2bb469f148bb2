--------------------------- MODULE LiveSubmission ---------------------------
(****************************************************************************)
(* How a LIVE order comes to exist: the evaluation cycle of LiveEngine, the *)
(* submission transaction of LiveOrderEngine.submit inside the mutation     *)
(* lock, the managed-quote reservation hooks, the adoption of exchange      *)
(* statuses by LiveOrderMonitor, the releases of commitProven, and the      *)
(* commands an operator resolves an ambiguous order with.                   *)
(*                                                                          *)
(* The lock is that of module StateLock; a task is one evaluation cycle of  *)
(* an engine process.  A step of a task is the code between two awaits.     *)
(* Quantities, prices and the session budget are abstracted: what an order  *)
(* costs and how fills are accounted is the subject of LiveAccounting.      *)
(* Definitions whose name starts with Wrong are deliberate mistakes that no *)
(* action uses; each shows that some property would notice it.              *)
(****************************************************************************)
EXTENDS StateLock

CONSTANTS
    Order,      \* client order ids (random UUIDs: two submissions never share one)
    Buys,       \* the BUY orders among them: they reserve managed quote
    NoOrder,    \* "no order in submission"
    Faults      \* what may go wrong on the local side, a subset of Fault

Fault == {"crash", "save", "metadata"}

ASSUME BuysAssumption == Buys \subseteq Order
ASSUME NoOrderAssumption == NoOrder \notin Order
ASSUME FaultsAssumption == Faults \subseteq Fault

VARIABLES
    status,    \* OrderStore: status of each order, "ABSENT" before its record
    exId,      \* OrderStore: is the exchange order id recorded
    resv,      \* ManagedStateStore: reservation "NONE", "ACTIVE", "RELEASED"
    attested,  \* ManagedStateStore: the orders with an operator attestation
    wire,      \* the placement request of each order
    xst,       \* the exchange's status of each order, "NONE" if it has none
    pc,        \* where each cycle stands
    cur,       \* the order a cycle is submitting
    seen,      \* exchange statuses a cycle has read and will act on
    gate,      \* did the pre-trade gate allow this cycle to trade
    halted     \* the processes whose engine has halted (process memory)

localVars == <<status, exId, resv, attested>>
exchVars  == <<wire, xst>>
cycleVars == <<pc, cur, seen, gate, halted>>
subVars   == <<lockVars, localVars, exchVars, cycleVars>>

\* Statuses the one-in-flight guard counts (UNRESOLVED_LIVE), and those the
\* monitor looks at (CREATED has no exchange id to look up).
Unresolved == {"CREATED", "SUBMITTED", "OPEN", "PARTIALLY_FILLED", "UNKNOWN"}
Watched    == Unresolved \ {"CREATED"}
NoFillEnd  == {"CANCELED", "REJECTED"}
Working    == {"OPEN", "PARTIALLY_FILLED"}
Terminal   == NoFillEnd \cup {"FILLED", "ABANDONED"}
XStatus    == Working \cup NoFillEnd \cup {"FILLED", "NONE"}
WireState  == {"idle", "sent", "delivered", "refused", "lost"}
PC == {"idle", "watched", "monitored", "reconciled", "ready",
       "validating", "sending", "unknown"}

SubTypeOK ==
    /\ LockTypeOK
    /\ status \in [Order -> Unresolved \cup Terminal \cup {"ABSENT"}]
    /\ exId \in [Order -> BOOLEAN]
    /\ resv \in [Order -> {"NONE", "ACTIVE", "RELEASED"}]
    /\ attested \subseteq Order
    /\ wire \in [Order -> WireState]
    /\ xst \in [Order -> XStatus]
    /\ pc \in [Task -> PC]
    /\ cur \in [Task -> Order \cup {NoOrder}]
    /\ seen \in [Task -> [Order -> XStatus]]
    /\ gate \in [Task -> BOOLEAN]
    /\ halted \subseteq Process

NothingSeen == [o \in Order |-> "NONE"]

SubInit ==
    /\ LockInit
    /\ status = [o \in Order |-> "ABSENT"]
    /\ exId = [o \in Order |-> FALSE]
    /\ resv = [o \in Order |-> "NONE"]
    /\ attested = {}
    /\ wire = [o \in Order |-> "idle"]
    /\ xst = [o \in Order |-> "NONE"]
    /\ pc = [t \in Task |-> "idle"]
    /\ cur = [t \in Task |-> NoOrder]
    /\ seen = [t \in Task |-> NothingSeen]
    /\ gate = [t \in Task |-> FALSE]
    /\ halted = {}

----------------------------------------------------------------------------
(* Helpers *)

Goto(t, l) == pc' = [pc EXCEPT ![t] = l]

\* Between two awaits a cycle runs only while its process lives.
At(t, l) == ProcOf[t] \in up /\ pc[t] = l

\* What was read, and the verdict on it, is local to a cycle and not used again.
Forget(t) == seen' = [seen EXCEPT ![t] = NothingSeen]
DropGate(t) == gate' = [gate EXCEPT ![t] = FALSE]

\* Wrong: the guard counts only the orders the monitor can look up.
WrongNoUnresolved == \A o \in Order : status[o] \notin Watched

NoUnresolved == \A o \in Order : status[o] \notin Unresolved

\* What an exchange read returns for the orders of S: the others are not asked for.
ReadOf(S) == [o \in Order |-> IF o \in S THEN xst[o] ELSE "NONE"]

\* Release the reservations of S (releaseOrderReservation: a no-op unless ACTIVE).
Released(S) ==
    [o \in Order |-> IF o \in S /\ resv[o] = "ACTIVE" THEN "RELEASED" ELSE resv[o]]

\* classifyOrder and livePreTradeGate on a reconciliation read: every order the
\* ledger knows must be confirmed, and no reservation may lack an order.
GateAllows(read) ==
    \A o \in Order : \/ status[o] = "ABSENT" /\ resv[o] = "NONE"
                     \/ status[o] = "ABANDONED"
                     \/ read[o] \in NoFillEnd \cup {"OPEN"}
                     \/ read[o] = "FILLED" /\ o \in attested

----------------------------------------------------------------------------
(* The evaluation cycle up to the decision to trade *)

\* Wrong: the monitor asks only for orders it has seen working at the exchange.
WrongWatch(t) ==
    /\ At(t, "idle")
    /\ LET asked == {o \in Order : status[o] \in Working /\ exId[o]} IN
       \E S \in SUBSET asked : seen' = [seen EXCEPT ![t] = ReadOf(S)]
    /\ IF \E o \in Order : status[o] \in Watched
       THEN Goto(t, "watched")
       ELSE Goto(t, "monitored")
    /\ UNCHANGED <<lockVars, localVars, exchVars, cur, gate, halted>>

\* monitorOnce, phase 1: read the exchange status of the unresolved orders whose
\* exchange id is known, without the lock; single reads may fail.
Watch(t) ==
    /\ At(t, "idle")
    /\ LET asked == {o \in Order : status[o] \in Watched /\ exId[o]} IN
       \E S \in SUBSET asked : seen' = [seen EXCEPT ![t] = ReadOf(S)]
    /\ IF \E o \in Order : status[o] \in Watched
       THEN Goto(t, "watched")
       ELSE Goto(t, "monitored")
    /\ UNCHANGED <<lockVars, localVars, exchVars, cur, gate, halted>>

\* Adopt for the orders picked by a rule of its own.
AdoptOnly(t, adopted) ==
    /\ At(t, "watched")
    /\ CanMutate(ProcOf[t])
    /\ status' = [o \in Order |-> IF o \in adopted THEN seen[t][o] ELSE status[o]]
    /\ Goto(t, "monitored")
    /\ Forget(t)
    /\ UNCHANGED <<lockVars, exId, resv, attested, exchVars, cur, gate, halted>>

\* Wrong: the status is not read again under the lock.
WrongAdoptUnchecked(t) == AdoptOnly(t, {o \in Order : seen[t][o] # "NONE"})

\* monitorOnce, phase 2: under the lock, adopt what was read for the orders that
\* are still unresolved, and release the reservation of a terminal no-fill.  Which
\* ended orders have a proven fill, and keep theirs, is not followed here; nor is
\* a failure of the second save, which releases nothing.
Adopt(t) ==
    LET adopted == {o \in Order : seen[t][o] # "NONE" /\ status[o] \in Watched} IN
    /\ At(t, "watched")
    /\ CanMutate(ProcOf[t])
    /\ status' = [o \in Order |-> IF o \in adopted THEN seen[t][o] ELSE status[o]]
    /\ \E S \in SUBSET {o \in adopted : seen[t][o] \in NoFillEnd} : resv' = Released(S)
    /\ Goto(t, "monitored")
    /\ Forget(t)
    /\ UNCHANGED <<lockVars, exId, attested, exchVars, cur, gate, halted>>

\* The lock is refused: the monitor cycle fails and is only logged.
AdoptRefused(t) ==
    /\ At(t, "watched")
    /\ ~CanMutate(ProcOf[t])
    /\ Goto(t, "monitored")
    /\ Forget(t)
    /\ UNCHANGED <<lockVars, localVars, exchVars, cur, gate, halted>>

\* reconcile(): snapshot the local state under the lock, read the exchange.
Reconcile(t) ==
    LET read == ReadOf({o \in Order : exId[o]}) IN
    /\ At(t, "monitored")
    /\ CanMutate(ProcOf[t])
    /\ seen' = [seen EXCEPT ![t] = read]
    /\ gate' = [gate EXCEPT ![t] = GateAllows(read)]
    /\ Goto(t, "reconciled")
    /\ UNCHANGED <<lockVars, localVars, exchVars, cur, halted>>

\* No snapshot (the lock is refused) or a failed exchange read: haltNow.
ReconcileHalts(t) ==
    /\ At(t, "monitored")
    /\ halted' = halted \cup {ProcOf[t]}
    /\ Goto(t, "idle")
    /\ UNCHANGED <<lockVars, localVars, exchVars, cur, seen, gate>>

\* What commitProven may be asked to release: the ended orders without a proven
\* fill.  It releases nothing when it returns HALTED, and the cycle goes on.
Releases(t) == {o \in Order : resv[o] # "NONE" /\ seen[t][o] \in NoFillEnd}

Commit(t) ==
    /\ At(t, "reconciled")
    /\ \E S \in SUBSET Releases(t) :
          /\ S # {} => CanMutate(ProcOf[t])
          /\ resv' = Released(S)
    /\ Goto(t, "ready")
    /\ Forget(t)
    /\ UNCHANGED <<lockVars, status, exId, attested, exchVars, cur, gate, halted>>

\* StateLockedError out of commitProven, or any other end of the cycle without a
\* trade: halted, an order still unresolved, the gate, no signal, risk.
EndCycle(t) ==
    /\ \/ At(t, "ready")
       \/ At(t, "reconciled") /\ ~CanMutate(ProcOf[t])
    /\ Goto(t, "idle")
    /\ Forget(t) /\ DropGate(t)
    /\ UNCHANGED <<lockVars, localVars, exchVars, cur, halted>>

----------------------------------------------------------------------------
(* LiveOrderEngine.submit *)

\* Everything from the halt check of evaluateOnce to the first await of
\* validateOrder runs without interruption: the cycle is not halted, no order is
\* unresolved, the gate and risk agree, the lock is entered, the guard re-checked.
Begin(t, o) ==
    /\ At(t, "ready")
    /\ ProcOf[t] \notin halted
    /\ gate[t]
    /\ NoUnresolved
    /\ status[o] = "ABSENT" /\ resv[o] = "NONE"
    /\ \A u \in Task : cur[u] # o
    /\ Enter(t) \/ Reenter(t)
    /\ cur' = [cur EXCEPT ![t] = o]
    /\ Goto(t, "validating")
    /\ DropGate(t)
    /\ UNCHANGED <<localVars, exchVars, seen, halted>>

\* The lock is created but not acquired: the cycle fails.
BeginFails(t) ==
    /\ "metadata" \in Faults
    /\ At(t, "ready")
    /\ ProcOf[t] \notin halted /\ gate[t] /\ NoUnresolved
    /\ EnterFailsMidway(t)
    /\ Goto(t, "idle")
    /\ DropGate(t)
    /\ UNCHANGED <<localVars, exchVars, cur, seen, halted>>

\* Wrong: an early return skips the finally that releases the lock.
WrongDone(t, l) ==
    /\ ProcOf[t] \in up
    /\ cur' = [cur EXCEPT ![t] = NoOrder]
    /\ Goto(t, l)
    /\ UNCHANGED <<lockVars, seen, gate>>

\* The section is left, and the cycle goes to l.
Done(t, l) ==
    /\ Leave(t)
    /\ cur' = [cur EXCEPT ![t] = NoOrder]
    /\ Goto(t, l)
    /\ UNCHANGED <<seen, gate>>

\* validateOrder, the managed guard or the reservation refuses, or the lock has
\* gone and no store accepts a write: nothing is recorded, nothing is sent.
Refuse(t) ==
    /\ At(t, "validating")
    /\ Done(t, "idle")
    /\ UNCHANGED <<localVars, exchVars, halted>>

\* Wrong: the order is sent first and recorded once its outcome is known.
WrongPersistAndSend(t) ==
    LET o == cur[t] IN
    /\ At(t, "validating")
    /\ CanMutate(ProcOf[t])
    /\ resv' = IF o \in Buys THEN [resv EXCEPT ![o] = "ACTIVE"] ELSE resv
    /\ wire' = [wire EXCEPT ![o] = "sent"]
    /\ Goto(t, "sending")
    /\ UNCHANGED <<lockVars, status, exId, attested, xst, cur, seen, gate, halted>>

\* The reservation is saved, the CREATED record is saved, and placeOrder is called,
\* with no await between them.
PersistAndSend(t) ==
    LET o == cur[t] IN
    /\ At(t, "validating")
    /\ CanMutate(ProcOf[t])
    /\ resv' = IF o \in Buys THEN [resv EXCEPT ![o] = "ACTIVE"] ELSE resv
    /\ status' = [status EXCEPT ![o] = "CREATED"]
    /\ wire' = [wire EXCEPT ![o] = "sent"]
    /\ Goto(t, "sending")
    /\ UNCHANGED <<lockVars, exId, attested, xst, cur, seen, gate, halted>>

\* The CREATED record cannot be saved: the reservation is released again (best
\* effort) and the error ends the cycle.
CreatedNotSaved(t) ==
    LET o == cur[t] IN
    /\ "save" \in Faults
    /\ At(t, "validating")
    /\ CanMutate(ProcOf[t])
    /\ o \in Buys
    /\ \E r \in {"ACTIVE", "RELEASED"} : resv' = [resv EXCEPT ![o] = r]
    /\ Done(t, "idle")
    /\ UNCHANGED <<status, exId, attested, exchVars, halted>>

\* The exchange acknowledged receipt, with or without an order id.
Acked(t) ==
    LET o == cur[t] IN
    /\ At(t, "sending")
    /\ wire[o] = "delivered"
    /\ CanMutate(ProcOf[t])
    /\ status' = [status EXCEPT ![o] = "SUBMITTED"]
    /\ \E known \in BOOLEAN : exId' = [exId EXCEPT ![o] = known]
    /\ Done(t, "idle")
    /\ UNCHANGED <<resv, attested, exchVars, halted>>

\* Wrong: a timeout counts as a refusal.
WrongAmbiguousRejects(t) ==
    LET o == cur[t] IN
    /\ At(t, "sending")
    /\ CanMutate(ProcOf[t])
    /\ status' = [status EXCEPT ![o] = "REJECTED"]
    /\ Done(t, "idle")
    /\ UNCHANGED <<exId, resv, attested, exchVars, halted>>

\* Wrong: a timeout gives the reserved quote back.
WrongAmbiguousReleases(t) ==
    LET o == cur[t] IN
    /\ At(t, "sending")
    /\ CanMutate(ProcOf[t])
    /\ status' = [status EXCEPT ![o] = "UNKNOWN"]
    /\ resv' = Released({o})
    /\ Done(t, "unknown")
    /\ UNCHANGED <<exId, attested, exchVars, halted>>

\* Acknowledgement timeout, network failure or an unreadable answer, at any time
\* after the call: the request may be on its way, executed or lost.
Ambiguous(t) ==
    LET o == cur[t] IN
    /\ At(t, "sending")
    /\ CanMutate(ProcOf[t])
    /\ status' = [status EXCEPT ![o] = "UNKNOWN"]
    /\ Done(t, "unknown")
    /\ UNCHANGED <<exId, resv, attested, exchVars, halted>>

\* OrderRejectedError: a definite refusal releases the reservation, then records it.
Rejected(t) ==
    LET o == cur[t] IN
    /\ At(t, "sending")
    /\ wire[o] = "refused"
    /\ CanMutate(ProcOf[t])
    /\ resv' = Released({o})
    /\ status' = [status EXCEPT ![o] = "REJECTED"]
    /\ Done(t, "idle")
    /\ UNCHANGED <<exId, attested, exchVars, halted>>

\* The outcome cannot be saved (another process has the lock, or the write fails):
\* the record stays CREATED.  A refusal may have released the reservation before.
OutcomeNotSaved(t) ==
    /\ At(t, "sending")
    /\ \/ ~CanMutate(ProcOf[t]) /\ UNCHANGED resv
       \/ /\ "save" \in Faults
          /\ resv' \in {resv} \cup
                 (IF wire[cur[t]] = "refused" THEN {Released({cur[t]})} ELSE {})
    /\ Done(t, "idle")
    /\ UNCHANGED <<status, exId, attested, exchVars, halted>>

\* executeSelected: an ambiguous submission halts the engine.
HaltOnUnknown(t) ==
    /\ At(t, "unknown")
    /\ halted' = halted \cup {ProcOf[t]}
    /\ Goto(t, "idle")
    /\ UNCHANGED <<lockVars, localVars, exchVars, cur, seen, gate>>

----------------------------------------------------------------------------
(* Crashes *)

\* The process memory is gone: cycles, halt flag; the stores and the file stay.
ProcessDies(p) ==
    /\ "crash" \in Faults
    /\ Crash(p)
    /\ pc' = [t \in Task |-> IF ProcOf[t] = p THEN "idle" ELSE pc[t]]
    /\ cur' = [t \in Task |-> IF ProcOf[t] = p THEN NoOrder ELSE cur[t]]
    /\ seen' = [t \in Task |-> IF ProcOf[t] = p THEN NothingSeen ELSE seen[t]]
    /\ gate' = [t \in Task |-> IF ProcOf[t] = p THEN FALSE ELSE gate[t]]
    /\ halted' = halted \ {p}
    /\ UNCHANGED <<status, exId, attested, exchVars>>

Die(p) == ProcessDies(p) /\ UNCHANGED resv

\* Between the reservation and the CREATED record.
DieAfterReserve(t) ==
    /\ pc[t] = "validating" /\ cur[t] \in Buys /\ CanMutate(ProcOf[t])
    /\ ProcessDies(ProcOf[t])
    /\ resv' = [resv EXCEPT ![cur[t]] = "ACTIVE"]

\* Between the release of a refused order's reservation and its REJECTED record.
DieAfterRelease(t) ==
    /\ pc[t] = "sending" /\ wire[cur[t]] = "refused" /\ CanMutate(ProcOf[t])
    /\ ProcessDies(ProcOf[t])
    /\ resv' = Released({cur[t]})

Reboot(p) == Restart(p) /\ UNCHANGED <<localVars, exchVars, cycleVars>>

RemoveLock == OperatorRemove /\ UNCHANGED <<localVars, exchVars, cycleVars>>

----------------------------------------------------------------------------
(* The exchange *)

\* The placement request arrives and is accepted, is refused, or is lost.  Nothing
\* recalls it: it may arrive after the engine gave up on it, or died.
Deliver(o) ==
    /\ wire[o] = "sent"
    /\ \/ wire' = [wire EXCEPT ![o] = "delivered"] /\ xst' = [xst EXCEPT ![o] = "OPEN"]
       \/ wire' = [wire EXCEPT ![o] = "refused"] /\ UNCHANGED xst
       \/ wire' = [wire EXCEPT ![o] = "lost"] /\ UNCHANGED xst
    /\ UNCHANGED <<lockVars, localVars, cycleVars>>

\* The order executes, or ends without executing (further).
Match(o) ==
    /\ xst[o] \in Working
    /\ xst' \in {[xst EXCEPT ![o] = s] : s \in {"PARTIALLY_FILLED", "FILLED", "CANCELED"}
                     \cup (IF xst[o] = "OPEN" THEN {"REJECTED"} ELSE {})}
    /\ UNCHANGED <<lockVars, localVars, wire, cycleVars>>

----------------------------------------------------------------------------
(* The operator's commands, each a process of its own under the lock *)

\* A CREATED, SUBMITTED or UNKNOWN record without an exchange id.
Unidentified(o) == status[o] \in {"CREATED", "SUBMITTED", "UNKNOWN"} /\ ~exId[o]

\* What a status read some time ago may have been.
ReadBefore(o) ==
    {"OPEN", xst[o]} \cup (IF xst[o] \in {"FILLED", "CANCELED"}
                          THEN {"PARTIALLY_FILLED"} ELSE {})

\* resolve-created-order --attach: the operator names the exchange order; its
\* status was read before the lock and may have moved on since.
Attach(o) ==
    /\ lockFile = NoProcess
    /\ Unidentified(o)
    /\ xst[o] # "NONE"
    /\ \E s \in ReadBefore(o) : status' = [status EXCEPT ![o] = s]
    /\ exId' = [exId EXCEPT ![o] = TRUE]
    /\ UNCHANGED <<lockVars, resv, attested, exchVars, cycleVars>>

\* resolve-created-order --abandon: a local resolution, the reservation is kept.
Abandon(o) ==
    /\ lockFile = NoProcess
    /\ Unidentified(o)
    /\ status' = [status EXCEPT ![o] = "ABANDONED"]
    /\ UNCHANGED <<lockVars, exId, resv, attested, exchVars, cycleVars>>

\* Wrong: the order's status at the exchange is not asked for.
WrongAttest(o) ==
    /\ lockFile = NoProcess
    /\ exId[o] /\ o \notin attested
    /\ status' = [status EXCEPT ![o] = "FILLED"]
    /\ attested' = attested \cup {o}
    /\ resv' = Released({o})
    /\ UNCHANGED <<lockVars, exId, exchVars, cycleVars>>

\* resolve-live-order: account a FILLED order on the operator's word.  The portfolio
\* is saved before the ledger, whose save may fail.
Attest(o) ==
    /\ lockFile = NoProcess
    /\ exId[o] /\ xst[o] = "FILLED" /\ o \notin attested
    /\ o \in Buys => resv[o] = "ACTIVE"
    /\ \/ status' = [status EXCEPT ![o] = "FILLED"]
       \/ "save" \in Faults /\ UNCHANGED status
    /\ attested' = attested \cup {o}
    /\ resv' = Released({o})
    /\ UNCHANGED <<lockVars, exId, exchVars, cycleVars>>

----------------------------------------------------------------------------
CycleNext(t) ==
    \/ Watch(t) \/ Adopt(t) \/ AdoptRefused(t)
    \/ Reconcile(t) \/ ReconcileHalts(t) \/ Commit(t) \/ EndCycle(t)

SubmitNext(t) ==
    \/ \E o \in Order : Begin(t, o)
    \/ BeginFails(t) \/ Refuse(t) \/ PersistAndSend(t) \/ CreatedNotSaved(t)
    \/ Acked(t) \/ Ambiguous(t) \/ Rejected(t) \/ OutcomeNotSaved(t)
    \/ HaltOnUnknown(t)

FaultNext ==
    \/ \E p \in Process : Die(p) \/ Reboot(p)
    \/ \E t \in Task : DieAfterReserve(t) \/ DieAfterRelease(t)
    \/ RemoveLock

OrderNext(o) == Deliver(o) \/ Match(o) \/ Attach(o) \/ Abandon(o) \/ Attest(o)

SubNext ==
    \/ \E t \in Task : CycleNext(t) \/ SubmitNext(t)
    \/ \E o \in Order : OrderNext(o)
    \/ FaultNext

SubSpec == SubInit /\ [][SubNext]_subVars

\* Scheduling: between awaits the code runs to the next await, every promise
\* settles (each exchange call has a timeout, the acknowledgement has its own), the
\* timer keeps starting cycles, and reads that are retried every cycle succeed at
\* last.  An order the exchange works on ends (autonomous orders are IOC).  The
\* operator and the faults owe nothing.
ReadAll(t) ==
    /\ Watch(t)
    /\ \A o \in Order : status[o] \in Watched /\ exId[o] => seen'[t][o] = xst[o]

Ends(o) == Match(o) /\ xst'[o] \notin Working

FairTask(t) ==
    /\ WF_subVars(CycleNext(t) \/ SubmitNext(t))
    /\ SF_subVars(ReadAll(t))

FairSpec ==
    /\ SubSpec
    /\ \A t \in Task : FairTask(t)
    /\ \A o \in Order : WF_subVars(Deliver(o)) /\ WF_subVars(Ends(o))

----------------------------------------------------------------------------
(* Properties *)

\* The request is under way or the exchange works on the order: it may execute.
InFlight(o) == wire[o] = "sent" \/ xst[o] \in Working

\* At most one unresolved LIVE order exists, whatever processes run: the
\* one-in-flight guard of submit under the mutation lock.
OneUnresolved ==
    \A o1, o2 \in Order :
        status[o1] \in Unresolved /\ status[o2] \in Unresolved => o1 = o2

\* Whatever may have reached the exchange has a durable record, and a BUY a
\* durable reservation (persist-before-submit), whichever write fails or process
\* dies on the way.
PersistBeforeSubmit ==
    \A o \in Order :
        wire[o] # "idle" => /\ status[o] # "ABSENT"
                            /\ o \in Buys => resv[o] # "NONE"

\* An order that may still execute counts as unresolved, so that the guard blocks
\* the next one; only an operator's ABANDON gives that up.
InFlightIsTracked ==
    \A o \in Order : InFlight(o) => status[o] \in Unresolved \cup {"ABANDONED"}

\* A BUY that may still execute keeps its managed quote reserved through
\* timeouts, crashes, stale reads and abandonment.
InFlightBuyIsReserved ==
    \A o \in Order : o \in Buys /\ InFlight(o) => resv[o] = "ACTIVE"

\* A terminal status in the ledger (other than ABANDONED) is the exchange's own.
LedgerIsTruthful ==
    \A o \in Order :
        /\ status[o] \in {"FILLED", "CANCELED"} => xst[o] = status[o]
        /\ status[o] = "REJECTED" => xst[o] = "REJECTED" \/ wire[o] = "refused"

\* No late answer, stale read or racing actor changes a terminal status.
SettledStaysSettled ==
    [][\A o \in Order : status[o] \in Terminal => status'[o] = status[o]]_subVars

\* A halted engine sends no order, even one whose submission had begun.
HaltedSendsNothing ==
    [][\A t \in Task : cur[t] # NoOrder /\ wire[cur[t]] = "idle"
          => wire'[cur[t]] = "idle" \/ ProcOf[t] \notin halted]_subVars

\* An acknowledged order whose exchange id is known is settled in the ledger in
\* the end, by the monitor alone, halted engine or not.
AckedOrderSettles ==
    \A o \in Order :
        (status[o] = "SUBMITTED" /\ exId[o]) ~> (status[o] \in Terminal)

\* A submission does not keep the state directory locked.
SectionEnds == \A t \in Task : Inside(t) ~> ~Inside(t)

----------------------------------------------------------------------------
(* The inductive invariant behind the safety properties, for cycles that do  *)
(* not overlap within a process                                             *)

\* A cycle is inside the lock's section exactly while it submits an order.
SectionIsSubmission ==
    \A t \in Task : /\ Inside(t) <=> pc[t] \in {"validating", "sending"}
                    /\ Inside(t) <=> cur[t] # NoOrder

\* What the guard established at Begin still holds when the order is recorded, and
\* its record is untouched until the outcome is saved.
GuardStillHolds ==
    \A t \in Task :
        /\ pc[t] = "validating" =>
              /\ NoUnresolved
              /\ ProcOf[t] \notin halted
              /\ status[cur[t]] = "ABSENT" /\ resv[cur[t]] = "NONE"
        /\ pc[t] = "sending" => status[cur[t]] = "CREATED"

RecordMatchesRequest ==
    \A o \in Order :
        /\ status[o] = "ABSENT" <=> wire[o] = "idle"
        /\ xst[o] = "NONE" <=> wire[o] # "delivered"
        /\ exId[o] => /\ wire[o] = "delivered"
                      /\ status[o] \notin {"CREATED", "ABANDONED"}

\* What a cycle has read may be old, but not wrong about an order's end.
ReadsStayTrue ==
    \A t \in Task, o \in Order :
        seen[t][o] # "NONE" => /\ wire[o] = "delivered"
                               /\ seen[t][o] \in Working \/ seen[t][o] = xst[o]

SubIInv ==
    /\ SubTypeOK
    /\ HolderConsistent
    /\ \A t \in Task : section[t] # "guest"
    /\ SectionIsSubmission
    /\ GuardStillHolds
    /\ RecordMatchesRequest
    /\ ReadsStayTrue
    /\ OneUnresolved
    /\ InFlightIsTracked
    /\ LedgerIsTruthful
    /\ PersistBeforeSubmit
    /\ InFlightBuyIsReserved
=============================================================================
