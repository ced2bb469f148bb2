------------------------ MODULE LiveSubmissionProofs ------------------------
(****************************************************************************)
(* The safety of LIVE submission, for any number of orders, cycles and      *)
(* processes and any local faults, when the cycles of one process do not    *)
(* overlap (Serial).                                                        *)
(*                                                                          *)
(* The argument: a cycle is inside the lock exactly while it submits, and   *)
(* the lock excludes every other writer, so what the guard saw on entry     *)
(* (no unresolved order) is still true when the order is recorded.  Reads   *)
(* acted upon later can be old but not wrong about an order's end, so a     *)
(* terminal status, once in the ledger, is the exchange's own and stays.    *)
(****************************************************************************)
EXTENDS LiveSubmission, StateLockProofs

USE NoProcessAssumption, ProcOfAssumption, BuysAssumption, NoOrderAssumption

----------------------------------------------------------------------------
(* The lock under the submission steps *)

LEMMA SubStepIsLockStep ==
    ASSUME [SubNext]_subVars PROVE [LockNext]_lockVars
<1>1. ASSUME NEW t \in Task, CycleNext(t) PROVE UNCHANGED lockVars
  BY <1>1 DEF CycleNext, Watch, Adopt, AdoptRefused, Reconcile, ReconcileHalts,
              Commit, EndCycle
<1>2. ASSUME NEW t \in Task, SubmitNext(t) PROVE [LockNext]_lockVars
  <2>1. ASSUME NEW o \in Order, Begin(t, o) PROVE LockNext
    BY <2>1 DEF Begin, LockNext
  <2>2. CASE BeginFails(t)
    BY <2>2 DEF BeginFails, LockNext
  <2>3. CASE PersistAndSend(t) \/ HaltOnUnknown(t)
    BY <2>3 DEF PersistAndSend, HaltOnUnknown
  <2>4. CASE Refuse(t) \/ CreatedNotSaved(t) \/ Acked(t) \/ Ambiguous(t)
             \/ Rejected(t) \/ OutcomeNotSaved(t)
    <3>1. Leave(t)
      BY <2>4 DEF Refuse, CreatedNotSaved, Acked, Ambiguous, Rejected,
                  OutcomeNotSaved, Done
    <3> QED
      BY <3>1 DEF LockNext
  <2> QED
    BY <1>2, <2>1, <2>2, <2>3, <2>4 DEF SubmitNext
<1>3. ASSUME NEW o \in Order, OrderNext(o) PROVE UNCHANGED lockVars
  BY <1>3 DEF OrderNext, Deliver, Match, Attach, Abandon, Attest
<1>4. ASSUME FaultNext PROVE LockNext
  BY <1>4 DEF FaultNext, Die, DieAfterReserve, DieAfterRelease, ProcessDies,
              Reboot, RemoveLock, LockNext
<1> QED
  BY <1>1, <1>2, <1>3, <1>4 DEF SubNext, subVars

\* Whoever may write while a submission is in the section is that submission.
LEMMA Alone ==
    ASSUME Serial, SubIInv, NEW t \in Task, Inside(t),
           NEW u \in Task, CanMutate(ProcOf[u])
    PROVE  t = u
<1>1. section[t] = "owner"
  BY DEF SubIInv, SubTypeOK, LockTypeOK, SectionState, Inside
<1>2. LockIInv
  BY DEF SubIInv, SubTypeOK, LockIInv, NoGuest
<1>3. ProcOf[t] = ProcOf[u]
  BY <1>1, <1>2, OwnerExcludesWriters
<1> QED
  BY <1>3 DEF Serial

\* While the lock is free, no submission is in the section.
LEMMA FreeMeansOut ==
    ASSUME SubIInv, lockFile = NoProcess, NEW t \in Task PROVE ~Inside(t)
  BY DEF SubIInv, SubTypeOK, LockTypeOK, SectionState, HolderConsistent, Inside

----------------------------------------------------------------------------
(* Types *)

LEMMA SubInitOK == SubInit => SubIInv
<1> SUFFICES ASSUME SubInit PROVE SubIInv
  OBVIOUS
<1>1. LockIInv
  BY LockInitOK DEF SubInit
<1>2. SubTypeOK
  BY <1>1 DEF SubInit, LockIInv, SubTypeOK, Unresolved, Terminal, NoFillEnd,
              WireState, XStatus, Working, PC, NothingSeen
<1>3. SectionIsSubmission /\ GuardStillHolds /\ RecordMatchesRequest
      /\ ReadsStayTrue
  BY DEF SubInit, LockInit, SectionIsSubmission, GuardStillHolds,
         RecordMatchesRequest, ReadsStayTrue, NothingSeen, Inside
<1>4. OneUnresolved /\ InFlightIsTracked /\ LedgerIsTruthful
      /\ PersistBeforeSubmit /\ InFlightBuyIsReserved
  BY DEF SubInit, OneUnresolved, InFlightIsTracked, LedgerIsTruthful, InFlight,
         PersistBeforeSubmit, InFlightBuyIsReserved, Unresolved, Working
<1> QED
  BY <1>1, <1>2, <1>3, <1>4 DEF SubIInv, LockIInv, SubInit, LockInit

LEMMA SubTypeStep == SubTypeOK /\ [SubNext]_subVars => SubTypeOK'
<1> SUFFICES ASSUME SubTypeOK, [SubNext]_subVars PROVE SubTypeOK'
  OBVIOUS
<1>1. LockTypeOK'
  BY SubStepIsLockStep, LockTypeStep DEF SubTypeOK
<1>2. LockTypeOK
  BY DEF SubTypeOK
<1> USE DEF SubTypeOK, Unresolved, Terminal, NoFillEnd, WireState, XStatus,
            Working, PC
<1>3. \A S : Released(S) \in [Order -> {"NONE", "ACTIVE", "RELEASED"}]
  BY DEF Released
<1>4. \A S : ReadOf(S) \in [Order -> XStatus]
  BY DEF ReadOf
<1>5. NothingSeen \in [Order -> XStatus]
  BY DEF NothingSeen
<1>6. ASSUME NEW t \in Task, CycleNext(t) PROVE SubTypeOK'
  <2> USE DEF Goto, localVars, exchVars
  <2>1. CASE Watch(t)
    BY <1>1, <1>4, <2>1 DEF Watch
  <2>2. CASE Adopt(t)
    BY <1>1, <1>3, <1>5, <2>2 DEF Adopt, Forget, Watched
  <2>3. CASE AdoptRefused(t)
    BY <1>1, <1>5, <2>3 DEF AdoptRefused, Forget
  <2>7. CASE EndCycle(t)
    BY <1>1, <1>5, <2>7 DEF EndCycle, Forget, DropGate
  <2>4. CASE Reconcile(t)
    BY <1>1, <1>4, <2>4 DEF Reconcile, GateAllows
  <2>5. CASE ReconcileHalts(t)
    BY <1>1, <2>5 DEF ReconcileHalts
  <2>6. CASE Commit(t)
    BY <1>1, <1>3, <1>5, <2>6 DEF Commit, Forget
  <2> QED
    BY <1>6, <2>1, <2>2, <2>3, <2>4, <2>5, <2>6, <2>7 DEF CycleNext
<1>7. ASSUME NEW t \in Task, SubmitNext(t) PROVE SubTypeOK'
  <2> USE DEF Goto, Done, localVars, exchVars
  <2>1. ASSUME NEW o \in Order, Begin(t, o) PROVE SubTypeOK'
    BY <1>1, <2>1 DEF Begin, DropGate
  <2>2. CASE BeginFails(t)
    BY <1>1, <2>2 DEF BeginFails, DropGate
  <2>3. CASE Refuse(t)
    BY <1>1, <2>3 DEF Refuse
  <2>4. CASE PersistAndSend(t)
    BY <1>1, <2>4 DEF PersistAndSend
  <2>5. CASE CreatedNotSaved(t)
    BY <1>1, <2>5 DEF CreatedNotSaved
  <2>6. CASE Acked(t)
    <3>1. exId' \in [Order -> BOOLEAN]
      BY <2>6 DEF Acked
    <3> QED
      BY <1>1, <2>6, <3>1 DEF Acked
  <2>7. CASE Ambiguous(t)
    BY <1>1, <2>7 DEF Ambiguous
  <2>8. CASE Rejected(t)
    BY <1>1, <1>3, <2>8 DEF Rejected
  <2>9. CASE OutcomeNotSaved(t)
    BY <1>1, <1>3, <2>9 DEF OutcomeNotSaved
  <2>10. CASE HaltOnUnknown(t)
    BY <1>1, <2>10 DEF HaltOnUnknown
  <2> QED
    BY <1>7, <2>1, <2>2, <2>3, <2>4, <2>5, <2>6, <2>7, <2>8, <2>9, <2>10
       DEF SubmitNext
<1>8. ASSUME NEW o \in Order, OrderNext(o) PROVE SubTypeOK'
  <2> USE DEF localVars, exchVars, cycleVars
  <2>1. CASE Deliver(o)
    BY <1>1, <2>1 DEF Deliver
  <2>2. CASE Match(o)
    BY <1>1, <2>2 DEF Match
  <2>3. CASE Attach(o)
    <3>1. PICK s \in ReadBefore(o) : status' = [status EXCEPT ![o] = s]
      BY <2>3 DEF Attach
    <3>2. s \in Unresolved \cup Terminal
      BY <2>3, <3>1 DEF Attach, ReadBefore
    <3>3. status' \in [Order -> Unresolved \cup Terminal \cup {"ABSENT"}]
      BY <3>1, <3>2
    <3> QED
      BY <1>1, <2>3, <3>3 DEF Attach
  <2>4. CASE Abandon(o)
    BY <1>1, <2>4 DEF Abandon
  <2>5. CASE Attest(o)
    BY <1>1, <1>3, <2>5 DEF Attest
  <2> QED
    BY <1>8, <2>1, <2>2, <2>3, <2>4, <2>5 DEF OrderNext
<1>9. ASSUME FaultNext PROVE SubTypeOK'
  <2> USE DEF localVars, exchVars, cycleVars
  <2>1. ASSUME NEW p \in Process, ProcessDies(p),
               resv' \in [Order -> {"NONE", "ACTIVE", "RELEASED"}]
        PROVE  SubTypeOK'
    BY <1>1, <1>5, <2>1 DEF ProcessDies
  <2>2. ASSUME NEW p \in Process, Die(p) PROVE SubTypeOK'
    BY <2>1, <2>2 DEF Die
  <2>3. ASSUME NEW t \in Task, DieAfterReserve(t) PROVE SubTypeOK'
    BY <2>1, <2>3 DEF DieAfterReserve
  <2>4. ASSUME NEW t \in Task, DieAfterRelease(t) PROVE SubTypeOK'
    BY <1>3, <2>1, <2>4 DEF DieAfterRelease
  <2>5. ASSUME NEW p \in Process, Reboot(p) PROVE SubTypeOK'
    BY <1>1, <2>5 DEF Reboot
  <2>6. CASE RemoveLock
    BY <1>1, <2>6 DEF RemoveLock
  <2> QED
    BY <1>9, <2>2, <2>3, <2>4, <2>5, <2>6 DEF FaultNext
<1>10. CASE UNCHANGED subVars
  BY <1>1, <1>10 DEF subVars, localVars, exchVars, cycleVars
<1> QED
  BY <1>6, <1>7, <1>8, <1>9, <1>10 DEF SubNext

----------------------------------------------------------------------------
(* The section and the guard *)

LEMMA SectionStep ==
    ASSUME SubIInv, [SubNext]_subVars PROVE SectionIsSubmission'
<1> USE DEF SubIInv, SubTypeOK, SectionIsSubmission, LockTypeOK, SectionState,
            Inside, Goto, At, PC
<1>1. ASSUME NEW t \in Task, CycleNext(t) PROVE SectionIsSubmission'
  <2>1. UNCHANGED <<section, cur>>
    BY <1>1 DEF CycleNext, Watch, Adopt, AdoptRefused, Reconcile, ReconcileHalts,
                Commit, EndCycle, lockVars
  <2>2. pc[t] \notin {"validating", "sending"}
    BY <1>1 DEF CycleNext, Watch, Adopt, AdoptRefused, Reconcile, ReconcileHalts,
                Commit, EndCycle
  <2>3. \E l \in PC \ {"validating", "sending"} : Goto(t, l)
    BY <1>1 DEF CycleNext, Watch, Adopt, AdoptRefused, Reconcile, ReconcileHalts,
                Commit, EndCycle
  <2> QED
    BY <2>1, <2>2, <2>3
<1>2. ASSUME NEW t \in Task, SubmitNext(t) PROVE SectionIsSubmission'
  <2>1. ASSUME NEW o \in Order, Begin(t, o) PROVE SectionIsSubmission'
    BY <2>1 DEF Begin, Enter, Reenter
  <2>2. CASE BeginFails(t)
    BY <2>2 DEF BeginFails, EnterFailsMidway
  <2>3. CASE PersistAndSend(t)
    BY <2>3 DEF PersistAndSend, lockVars
  <2>5. CASE HaltOnUnknown(t)
    BY <2>5 DEF HaltOnUnknown, lockVars
  <2>4. ASSUME NEW l \in {"idle", "unknown"}, Done(t, l) PROVE SectionIsSubmission'
    BY <2>4 DEF Done, Leave
  <2> QED
    BY <1>2, <2>1, <2>2, <2>3, <2>4, <2>5
       DEF SubmitNext, Refuse, CreatedNotSaved, Acked, Ambiguous, Rejected,
           OutcomeNotSaved
<1>3. ASSUME NEW o \in Order, OrderNext(o) PROVE SectionIsSubmission'
  BY <1>3 DEF OrderNext, Deliver, Match, Attach, Abandon, Attest, lockVars,
              cycleVars
<1>4. ASSUME NEW p \in Process, ProcessDies(p) PROVE SectionIsSubmission'
  BY <1>4 DEF ProcessDies, Crash
<1>5. ASSUME NEW p \in Process, Reboot(p) PROVE SectionIsSubmission'
  BY <1>5 DEF Reboot, Restart, cycleVars
<1>6. CASE RemoveLock
  BY <1>6 DEF RemoveLock, OperatorRemove, cycleVars
<1>7. CASE UNCHANGED subVars
  BY <1>7 DEF subVars, lockVars, cycleVars
<1> QED
  BY <1>1, <1>2, <1>3, <1>4, <1>5, <1>6, <1>7
     DEF SubNext, FaultNext, Die, DieAfterReserve, DieAfterRelease

LEMMA GuardStep ==
    ASSUME Serial, SubIInv, [SubNext]_subVars PROVE GuardStillHolds'
<1> USE DEF SubIInv, SubTypeOK, SectionIsSubmission, LockTypeOK, SectionState,
            GuardStillHolds, Goto, At, PC, NoUnresolved
<1>1. ASSUME NEW t \in Task, CycleNext(t) PROVE GuardStillHolds'
  <2>1. CASE Watch(t) \/ AdoptRefused(t) \/ Reconcile(t) \/ EndCycle(t)
    BY <2>1 DEF Watch, AdoptRefused, Reconcile, EndCycle, localVars
  <2>2. CASE ReconcileHalts(t)
    BY <2>2 DEF ReconcileHalts, localVars, Serial
  <2>3. CASE Adopt(t)
    <3>1. \A u \in Task : ~Inside(u)
      BY <2>3, Alone DEF Adopt
    <3> QED
      BY <2>3, <3>1 DEF Adopt
  <2>4. CASE Commit(t)
    BY <2>4 DEF Commit, Released
  <2> QED
    BY <1>1, <2>1, <2>2, <2>3, <2>4 DEF CycleNext
<1>2. ASSUME NEW t \in Task, SubmitNext(t) PROVE GuardStillHolds'
  <2>1. ASSUME NEW o \in Order, Begin(t, o) PROVE GuardStillHolds'
    BY <2>1 DEF Begin, localVars
  <2>2. CASE BeginFails(t)
    BY <2>2 DEF BeginFails, localVars
  <2>3. CASE HaltOnUnknown(t)
    BY <2>3 DEF HaltOnUnknown, localVars, Serial
  <2>4. CASE PersistAndSend(t)
    <3>1. \A u \in Task : u # t => ~Inside(u)
      BY <2>4, Alone DEF PersistAndSend
    <3> QED
      BY <2>4, <3>1 DEF PersistAndSend
  <2>5. CASE Refuse(t) \/ CreatedNotSaved(t) \/ Acked(t) \/ Ambiguous(t)
             \/ Rejected(t) \/ OutcomeNotSaved(t)
    <3>1. \A u \in Task : u # t => ~Inside(u)
      <4>1. section[t] = "owner"
        BY <2>5 DEF Refuse, CreatedNotSaved, Acked, Ambiguous, Rejected,
                    OutcomeNotSaved, Inside
      <4> QED
        BY <4>1 DEF HolderConsistent, Inside
    <3>2. Done(t, "idle") \/ Done(t, "unknown")
      BY <2>5 DEF Refuse, CreatedNotSaved, Acked, Ambiguous, Rejected,
                  OutcomeNotSaved
    <3> QED
      BY <3>1, <3>2 DEF Done
  <2> QED
    BY <1>2, <2>1, <2>2, <2>3, <2>4, <2>5 DEF SubmitNext
<1>3. ASSUME NEW o \in Order, OrderNext(o) PROVE GuardStillHolds'
  <2>1. CASE Deliver(o) \/ Match(o)
    BY <2>1 DEF Deliver, Match, localVars, cycleVars
  <2>2. CASE Attach(o) \/ Abandon(o) \/ Attest(o)
    <3>1. \A u \in Task : ~Inside(u)
      BY <2>2, FreeMeansOut DEF Attach, Abandon, Attest
    <3> QED
      BY <2>2, <3>1 DEF Attach, Abandon, Attest, cycleVars
  <2> QED
    BY <1>3, <2>1, <2>2 DEF OrderNext
<1>4. ASSUME FaultNext PROVE GuardStillHolds'
  <2>1. ASSUME NEW p \in Process, ProcessDies(p),
               \A u \in Task : ProcOf[u] # p => resv'[cur[u]] = resv[cur[u]]
        PROVE  GuardStillHolds'
    BY <2>1 DEF ProcessDies
  <2>2. ASSUME NEW t \in Task, DieAfterReserve(t) \/ DieAfterRelease(t)
        PROVE  GuardStillHolds'
    <3>1. \A u \in Task : u # t => ~Inside(u)
      BY <2>2, Alone DEF DieAfterReserve, DieAfterRelease
    <3>2. ProcessDies(ProcOf[t])
      BY <2>2 DEF DieAfterReserve, DieAfterRelease
    <3>3. \A u \in Task : pc'[u] \notin {"validating", "sending"}
      BY <3>1, <3>2 DEF ProcessDies
    <3> QED
      BY <3>3
  <2> QED
    BY <1>4, <2>1, <2>2 DEF FaultNext, Die, Reboot, RemoveLock, localVars, cycleVars
<1>5. CASE UNCHANGED subVars
  BY <1>5 DEF subVars, localVars, cycleVars
<1> QED
  BY <1>1, <1>2, <1>3, <1>4, <1>5 DEF SubNext

----------------------------------------------------------------------------
(* Records, requests and reads *)

LEMMA RecordStep ==
    ASSUME SubIInv, [SubNext]_subVars PROVE RecordMatchesRequest'
<1> USE DEF SubIInv, SubTypeOK, RecordMatchesRequest, GuardStillHolds,
            SectionIsSubmission, Inside, At
<1>1. ASSUME NEW t \in Task, CycleNext(t) PROVE RecordMatchesRequest'
  <2>1. CASE Adopt(t)
    <3>1. UNCHANGED <<exId, wire, xst>>
      BY <2>1 DEF Adopt, exchVars
    <3>2. \A o \in Order :
             \/ status'[o] = status[o]
             \/ /\ seen[t][o] # "NONE" /\ status[o] \in Watched
                /\ status'[o] = seen[t][o]
      BY <2>1 DEF Adopt
    <3>3. \A o \in Order : seen[t][o] \notin {"ABSENT", "CREATED", "ABANDONED"}
      BY DEF XStatus, Working, NoFillEnd
    <3>4. \A o \in Order : status'[o] = "ABSENT" <=> status[o] = "ABSENT"
      BY <3>2, <3>3 DEF Watched, Unresolved
    <3>5. \A o \in Order : status'[o] \in {"CREATED", "ABANDONED"}
                              => status[o] = status'[o]
      BY <3>2, <3>3
    <3> QED
      BY <3>1, <3>4, <3>5
  <2> QED
    BY <1>1, <2>1 DEF CycleNext, Watch, AdoptRefused, Reconcile, ReconcileHalts,
                      Commit, EndCycle, localVars, exchVars
<1>2. ASSUME NEW t \in Task, SubmitNext(t) PROVE RecordMatchesRequest'
  <2>1. CASE PersistAndSend(t)
    BY <2>1 DEF PersistAndSend
  <2>2. CASE Acked(t)
    BY <2>2 DEF Acked, exchVars
  <2>3. CASE Ambiguous(t) \/ Rejected(t)
    BY <2>3 DEF Ambiguous, Rejected, exchVars
  <2> QED
    BY <1>2, <2>1, <2>2, <2>3
       DEF SubmitNext, Begin, BeginFails, Refuse, CreatedNotSaved,
           OutcomeNotSaved, HaltOnUnknown, localVars, exchVars
<1>3. ASSUME NEW o \in Order, OrderNext(o) PROVE RecordMatchesRequest'
  <2>1. CASE Deliver(o)
    BY <2>1 DEF Deliver, localVars
  <2>2. CASE Match(o)
    BY <2>2 DEF Match, localVars, Working
  <2>3. CASE Attach(o)
    BY <2>3 DEF Attach, ReadBefore, Unidentified, exchVars, XStatus, Working,
                NoFillEnd
  <2>4. CASE Abandon(o) \/ Attest(o)
    BY <2>4 DEF Abandon, Attest, Unidentified, exchVars
  <2> QED
    BY <1>3, <2>1, <2>2, <2>3, <2>4 DEF OrderNext
<1>4. CASE UNCHANGED <<status, exId, wire, xst>>
  BY <1>4
<1> QED
  BY <1>1, <1>2, <1>3, <1>4
     DEF SubNext, FaultNext, Die, DieAfterReserve, DieAfterRelease, ProcessDies,
         Reboot, RemoveLock, subVars, localVars, exchVars

\* An order's end is final at the exchange, and a delivered request stays delivered.
LEMMA ExchangeStep ==
    ASSUME SubIInv, [SubNext]_subVars, NEW o \in Order
    PROVE  /\ wire[o] = "delivered" => wire'[o] = "delivered"
           /\ xst[o] \notin Working \cup {"NONE"} => xst'[o] = xst[o]
<1> USE DEF SubIInv, SubTypeOK, RecordMatchesRequest, GuardStillHolds, At, Working
<1>1. ASSUME NEW t \in Task, PersistAndSend(t)
      PROVE  UNCHANGED xst /\ (wire[o] = "delivered" => wire'[o] = "delivered")
  BY <1>1 DEF PersistAndSend
<1>2. ASSUME NEW x \in Order, Deliver(x) \/ Match(x)
      PROVE  /\ wire[o] = "delivered" => wire'[o] = "delivered"
             /\ xst[o] \notin Working \cup {"NONE"} => xst'[o] = xst[o]
  BY <1>2 DEF Deliver, Match
<1>3. CASE UNCHANGED exchVars
  BY <1>3 DEF exchVars
<1> QED
  BY <1>1, <1>2, <1>3
     DEF SubNext, CycleNext, Watch, Adopt, AdoptRefused, Reconcile, ReconcileHalts,
         Commit, EndCycle, SubmitNext, Begin, BeginFails, Refuse, CreatedNotSaved,
         Acked, Ambiguous, Rejected, OutcomeNotSaved, HaltOnUnknown, OrderNext,
         Attach, Abandon, Attest, FaultNext, Die, DieAfterReserve, DieAfterRelease,
         ProcessDies, Reboot, RemoveLock, subVars

LEMMA ReadsStep ==
    ASSUME SubIInv, [SubNext]_subVars PROVE ReadsStayTrue'
<1> SUFFICES ASSUME NEW t \in Task, NEW o \in Order, seen'[t][o] # "NONE"
             PROVE  /\ wire'[o] = "delivered"
                    /\ seen'[t][o] \in Working \/ seen'[t][o] = xst'[o]
  BY DEF ReadsStayTrue
<1> USE DEF SubIInv, SubTypeOK
\* Either the cycle has just read this, or it remembers it.
<1>1. seen'[t][o] \in {seen[t][o], xst[o]}
  <2>1. ASSUME NEW u \in Task, Watch(u) \/ Reconcile(u) PROVE seen'[t][o] \in {seen[t][o], xst[o]}
    BY <2>1 DEF Watch, Reconcile, ReadOf
  <2>2. ASSUME NEW u \in Task, Forget(u) \/ UNCHANGED seen PROVE seen'[t][o] \in {seen[t][o], xst[o]}
    BY <2>2 DEF Forget, NothingSeen
  <2>3. ASSUME NEW p \in Process, ProcessDies(p) PROVE seen'[t][o] \in {seen[t][o], xst[o]}
    BY <2>3 DEF ProcessDies, NothingSeen
  <2> QED
    BY <2>1, <2>2, <2>3
     DEF SubNext, CycleNext, Adopt, AdoptRefused, ReconcileHalts,
         Commit, EndCycle, SubmitNext, Begin, BeginFails, Refuse, CreatedNotSaved,
         Acked, Ambiguous, Rejected, OutcomeNotSaved, HaltOnUnknown, OrderNext,
         Attach, Abandon, Attest, Deliver, Match, FaultNext, Die, DieAfterReserve,
         DieAfterRelease, Reboot, RemoveLock, subVars, cycleVars, PersistAndSend,
         Done
<1> QED
  BY <1>1, ExchangeStep DEF ReadsStayTrue, RecordMatchesRequest, Working

----------------------------------------------------------------------------
(* The safety properties *)

\* What a step may do to the status of one order.
LEMMA StatusStep ==
    ASSUME SubIInv, [SubNext]_subVars, NEW o \in Order
    PROVE  \/ status'[o] = status[o]
           \/ /\ status[o] \in Unresolved
              /\ \/ status'[o] \in Unresolved
                 \/ status'[o] \in {"FILLED", "CANCELED", "REJECTED"} /\ xst[o] = status'[o]
                 \/ status'[o] = "REJECTED" /\ wire[o] = "refused"
                 \/ status'[o] = "ABANDONED"
           \/ /\ status[o] = "ABSENT" /\ status'[o] = "CREATED"
              /\ \E t \in Task : PersistAndSend(t) /\ o = cur[t]
<1> USE DEF SubIInv, SubTypeOK, At, Unresolved, Terminal, XStatus, Working, NoFillEnd
<1>1. ASSUME NEW t \in Task, Adopt(t)
      PROVE  \/ status'[o] = status[o]
             \/ /\ status[o] \in Unresolved
                /\ status'[o] \in Working \/ status'[o] = xst[o]
                /\ status'[o] # "NONE"
  BY <1>1 DEF Adopt, Watched, ReadsStayTrue
<1>2. ASSUME NEW t \in Task, Acked(t) \/ Ambiguous(t) \/ Rejected(t)
      PROVE  \/ status'[o] = status[o]
             \/ status[o] \in Unresolved /\ status'[o] \in Unresolved
             \/ /\ status[o] \in Unresolved
                /\ status'[o] = "REJECTED" /\ wire[o] = "refused"
  BY <1>2 DEF Acked, Ambiguous, Rejected, GuardStillHolds, SectionIsSubmission
<1>3. ASSUME NEW t \in Task, PersistAndSend(t)
      PROVE  status'[o] = status[o] \/ (/\ status[o] = "ABSENT"
                                        /\ status'[o] = "CREATED" /\ o = cur[t])
  BY <1>3 DEF PersistAndSend, GuardStillHolds
<1>4. ASSUME NEW x \in Order, Attach(x) \/ Abandon(x)
      PROVE  \/ status'[o] = status[o]
             \/ /\ status[o] \in Unresolved
                /\ \/ status'[o] \in Working \cup {xst[o]} /\ xst[o] # "NONE"
                   \/ status'[o] = "ABANDONED"
  BY <1>4 DEF Attach, ReadBefore, Abandon, Unidentified
<1>5. ASSUME NEW x \in Order, Attest(x)
      PROVE  \/ status'[o] = status[o]
             \/ /\ status[o] \in Unresolved
                /\ status'[o] = "FILLED" /\ xst[o] = "FILLED"
  BY <1>5 DEF Attest, RecordMatchesRequest, LedgerIsTruthful
<1>6. CASE UNCHANGED status
  BY <1>6
<1> QED
  BY <1>1, <1>2, <1>3, <1>4, <1>5, <1>6
     DEF SubNext, CycleNext, Watch, AdoptRefused, Reconcile, ReconcileHalts,
         Commit, EndCycle, SubmitNext, Begin, BeginFails, Refuse, CreatedNotSaved,
         OutcomeNotSaved, HaltOnUnknown, OrderNext, Deliver, Match,
         FaultNext, Die, DieAfterReserve, DieAfterRelease, ProcessDies, Reboot,
         RemoveLock, subVars, localVars

LEMMA OneUnresolvedStep ==
    ASSUME SubIInv, [SubNext]_subVars PROVE OneUnresolved'
<1>1. CASE \A o \in Order : status'[o] \in Unresolved => status[o] \in Unresolved
  BY <1>1 DEF SubIInv, OneUnresolved
<1>2. ASSUME NEW o \in Order, status'[o] \in Unresolved, status[o] \notin Unresolved
      PROVE  OneUnresolved'
  <2>1. PICK t \in Task : PersistAndSend(t) /\ o = cur[t]
    BY <1>2, StatusStep
  <2>2. NoUnresolved
    BY <2>1 DEF PersistAndSend, At, SubIInv, GuardStillHolds
  <2> QED
    BY <2>1, <2>2 DEF PersistAndSend, NoUnresolved, OneUnresolved, SubIInv, SubTypeOK
<1> QED
  BY <1>1, <1>2

LEMMA TrackedStep ==
    ASSUME SubIInv, [SubNext]_subVars PROVE InFlightIsTracked' /\ LedgerIsTruthful'
<1> SUFFICES ASSUME NEW o \in Order
             PROVE  /\ InFlight(o)' => status'[o] \in Unresolved \cup {"ABANDONED"}
                    /\ status'[o] \in {"FILLED", "CANCELED"} => xst'[o] = status'[o]
                    /\ status'[o] = "REJECTED" => xst'[o] = "REJECTED" \/ wire'[o] = "refused"
  BY DEF InFlightIsTracked, LedgerIsTruthful
<1> USE DEF SubIInv, SubTypeOK, Unresolved, Working, InFlight
\* How the request and its execution move.
<1> DEFINE Move ==
       \/ UNCHANGED <<wire[o], xst[o]>>
       \/ status[o] = "ABSENT" /\ status'[o] = "CREATED"
       \/ InFlight(o) /\ status'[o] = status[o]
<1>1. Move
  <2>1. ASSUME NEW t \in Task, PersistAndSend(t) PROVE Move
    BY <2>1 DEF PersistAndSend, GuardStillHolds, At
  <2>2. ASSUME NEW x \in Order, Deliver(x) \/ Match(x) PROVE Move
    BY <2>2 DEF Deliver, Match, localVars
  <2>3. CASE UNCHANGED exchVars
    BY <2>3 DEF exchVars
  <2> QED
    BY <2>1, <2>2, <2>3
     DEF SubNext, CycleNext, Watch, Adopt, AdoptRefused, Reconcile, ReconcileHalts,
         Commit, EndCycle, SubmitNext, Begin, BeginFails, Refuse, CreatedNotSaved,
         Acked, Ambiguous, Rejected, OutcomeNotSaved, HaltOnUnknown, OrderNext,
         Attach, Abandon, Attest, FaultNext, Die, DieAfterReserve, DieAfterRelease,
         ProcessDies, Reboot, RemoveLock, subVars
<1>2. CASE UNCHANGED <<wire[o], xst[o]>>
  BY <1>2, StatusStep DEF InFlightIsTracked, LedgerIsTruthful, RecordMatchesRequest
<1>3. CASE InFlight(o) /\ status'[o] = status[o]
  BY <1>3 DEF InFlightIsTracked
<1> QED
  BY <1>1, <1>2, <1>3

LEMMA PersistStep ==
    ASSUME Serial, SubIInv, [SubNext]_subVars
    PROVE  PersistBeforeSubmit' /\ InFlightBuyIsReserved'
<1> SUFFICES ASSUME NEW o \in Buys
             PROVE  /\ wire'[o] # "idle" => resv'[o] # "NONE"
                    /\ InFlight(o)' => resv'[o] = "ACTIVE"
  BY RecordStep DEF PersistBeforeSubmit, InFlightBuyIsReserved, RecordMatchesRequest,
                    SubIInv, SubTypeOK
<1> USE DEF SubIInv, SubTypeOK, PersistBeforeSubmit, InFlightBuyIsReserved, InFlight,
            Working, RecordMatchesRequest
<1> DEFINE Goal == /\ wire'[o] # "idle" => resv'[o] # "NONE"
                   /\ InFlight(o)' => resv'[o] = "ACTIVE"
\* Releasing the reservation of an order that has ended is harmless.
<1>1. ASSUME NEW S, resv' = Released(S), UNCHANGED exchVars, o \in S => ~InFlight(o)
      PROVE  Goal
  BY <1>1 DEF Released, exchVars
<1>2. CASE UNCHANGED <<resv, wire, xst>>
  BY <1>2
<1>3. ASSUME NEW t \in Task, CycleNext(t) PROVE Goal
  <2>1. CASE Adopt(t)
    BY <1>1, <2>1 DEF Adopt, ReadsStayTrue, NoFillEnd
  <2>2. CASE Commit(t)
    BY <1>1, <2>2 DEF Commit, Releases, ReadsStayTrue, NoFillEnd
  <2> QED
    BY <1>2, <1>3, <2>1, <2>2
       DEF CycleNext, Watch, AdoptRefused, Reconcile, ReconcileHalts, EndCycle,
           localVars, exchVars
<1>4. ASSUME NEW t \in Task, SubmitNext(t) PROVE Goal
  <2>1. CASE PersistAndSend(t)
    BY <2>1 DEF PersistAndSend, GuardStillHolds, At
  <2>2. CASE CreatedNotSaved(t)
    BY <2>2 DEF CreatedNotSaved, GuardStillHolds, At, exchVars
  <2>3. CASE Rejected(t)
    BY <1>1, <2>3 DEF Rejected
  <2>4. CASE OutcomeNotSaved(t)
    <3>1. CASE UNCHANGED resv
      BY <1>2, <2>4, <3>1 DEF OutcomeNotSaved, exchVars
    <3>2. CASE resv' = Released({cur[t]}) /\ wire[cur[t]] = "refused"
      BY <1>1, <2>4, <3>2 DEF OutcomeNotSaved
    <3> QED
      BY <2>4, <3>1, <3>2 DEF OutcomeNotSaved
  <2> QED
    BY <1>2, <1>4, <2>1, <2>2, <2>3, <2>4
       DEF SubmitNext, Begin, BeginFails, Refuse, Acked, Ambiguous, HaltOnUnknown,
           localVars, exchVars
<1>5. ASSUME NEW x \in Order, OrderNext(x) PROVE Goal
  <2>1. CASE Deliver(x) \/ Match(x)
    BY <2>1 DEF Deliver, Match, localVars
  <2>2. CASE Attest(x)
    BY <1>1, <2>2 DEF Attest
  <2> QED
    BY <1>2, <1>5, <2>1, <2>2 DEF OrderNext, Attach, Abandon, exchVars
<1>6. ASSUME NEW t \in Task, DieAfterReserve(t) PROVE Goal
  BY <1>6 DEF DieAfterReserve, ProcessDies, GuardStillHolds, exchVars
<1>7. ASSUME NEW t \in Task, DieAfterRelease(t) PROVE Goal
  BY <1>1, <1>7 DEF DieAfterRelease, ProcessDies
<1> QED
  BY <1>2, <1>3, <1>4, <1>5, <1>6, <1>7
     DEF SubNext, FaultNext, Die, ProcessDies, Reboot, RemoveLock, subVars,
         localVars, exchVars

----------------------------------------------------------------------------
(* The theorems *)

LEMMA SubIInvStep == ASSUME Serial, SubIInv, [SubNext]_subVars PROVE SubIInv'
<1>1. SubTypeOK'
  BY SubTypeStep DEF SubIInv
<1>2. HolderConsistent' /\ \A t \in Task : section'[t] # "guest"
  BY SubStepIsLockStep, HolderStep, NoGuestStep DEF SubIInv, SubTypeOK, NoGuest
<1> QED
  BY <1>1, <1>2, SectionStep, GuardStep, RecordStep, ReadsStep, OneUnresolvedStep,
     TrackedStep, PersistStep DEF SubIInv

\* Type correctness, overlapping cycles included.
THEOREM SubTypeCorrect == SubSpec => []SubTypeOK
<1>1. SubInit => SubTypeOK
  BY SubInitOK DEF SubIInv
<1> QED
  BY <1>1, SubTypeStep, PTL DEF SubSpec

\* The inductive invariant, when the cycles of a process do not overlap.
THEOREM SubInvariant == ASSUME Serial PROVE SubSpec => []SubIInv
<1>1. SubIInv /\ [SubNext]_subVars => SubIInv'
  BY SubIInvStep
<1> QED
  BY <1>1, SubInitOK, PTL DEF SubSpec

\* One unresolved LIVE order at a time, across processes, crashes and lost answers.
THEOREM AlwaysOneUnresolved == ASSUME Serial PROVE SubSpec => []OneUnresolved
<1>1. SubIInv => OneUnresolved
  BY DEF SubIInv
<1> QED
  BY <1>1, SubInvariant, PTL

\* Nothing reaches the exchange without a durable record of it, and a BUY not without
\* its durable reservation (LiveOrderEngine.submit saves both before it places).
THEOREM SubmissionIsDurable == ASSUME Serial PROVE SubSpec => []PersistBeforeSubmit
<1>1. SubIInv => PersistBeforeSubmit
  BY DEF SubIInv
<1> QED
  BY <1>1, SubInvariant, PTL

\* Whatever may still execute at the exchange has an unresolved record, or one an
\* operator abandoned: lost answers, failed saves and crashes never close it.
THEOREM ExecutableIsTracked == ASSUME Serial PROVE SubSpec => []InFlightIsTracked
<1>1. SubIInv => InFlightIsTracked
  BY DEF SubIInv
<1> QED
  BY <1>1, SubInvariant, PTL

\* A BUY that may still execute keeps its reservation: none is released on the strength
\* of a read, a local rejection or an operator's decision that came too early.
THEOREM ExecutableBuyIsReserved == ASSUME Serial PROVE SubSpec => []InFlightBuyIsReserved
<1>1. SubIInv => InFlightBuyIsReserved
  BY DEF SubIInv
<1> QED
  BY <1>1, SubInvariant, PTL

\* A record that says FILLED, CANCELED or REJECTED says what the exchange says of the
\* order, or it was refused before it was sent: no stale read or late answer lies.
THEOREM LedgerNeverLies == ASSUME Serial PROVE SubSpec => []LedgerIsTruthful
<1>1. SubIInv => LedgerIsTruthful
  BY DEF SubIInv
<1> QED
  BY <1>1, SubInvariant, PTL

\* A terminal status is never changed again.
THEOREM TerminalIsFinal == ASSUME Serial PROVE SubSpec => SettledStaysSettled
<1>1. ASSUME SubIInv, [SubNext]_subVars
      PROVE  \A o \in Order : status[o] \in Terminal => status'[o] = status[o]
  BY <1>1, StatusStep DEF Terminal, Unresolved, NoFillEnd
<1> QED
  BY <1>1, SubInvariant, PTL DEF SubSpec, SettledStaysSettled

\* A halted engine sends nothing.
THEOREM HaltIsEffective == ASSUME Serial PROVE SubSpec => HaltedSendsNothing
<1>1. ASSUME SubIInv, [SubNext]_subVars
      PROVE  \A t \in Task : cur[t] # NoOrder /\ wire[cur[t]] = "idle"
                => wire'[cur[t]] = "idle" \/ ProcOf[t] \notin halted
  <2> SUFFICES ASSUME NEW t \in Task, cur[t] # NoOrder, wire[cur[t]] = "idle",
                      wire'[cur[t]] # "idle"
               PROVE  ProcOf[t] \notin halted
    OBVIOUS
  <2>1. cur[t] \in Order
    BY <1>1 DEF SubIInv, SubTypeOK
  <2>2. PICK u \in Task : PersistAndSend(u) /\ cur[u] = cur[t]
    BY <1>1, <2>1, StatusStep, RecordStep DEF SubIInv, RecordMatchesRequest, Unresolved
  <2>3. pc[t] = "validating"
    BY <1>1, <2>2 DEF PersistAndSend, At, SubIInv, SectionIsSubmission, GuardStillHolds
  <2> QED
    BY <1>1, <2>3 DEF SubIInv, GuardStillHolds
<1> QED
  BY <1>1, SubInvariant, PTL DEF SubSpec, HaltedSendsNothing
=============================================================================
