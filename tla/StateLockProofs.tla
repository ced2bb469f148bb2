-------------------------- MODULE StateLockProofs ---------------------------
(****************************************************************************)
(* Lemmas about the steps of the mutation lock, for any processes, tasks    *)
(* and placement of tasks; the modules that compose the lock with what runs *)
(* under it use them.                                                       *)
(*                                                                          *)
(* The argument: the reentrancy set, the file and the owning task always    *)
(* agree (HolderConsistent); when activities of a process never overlap     *)
(* there is no guest, so an open section is an owner's, and an owner's lock *)
(* excludes everybody else.                                                 *)
(****************************************************************************)
EXTENDS StateLock, TLAPS

USE NoProcessAssumption, ProcOfAssumption

\* No activity runs in another's section.
NoGuest == \A t \in Task : section[t] # "guest"

LockIInv ==
    /\ LockTypeOK
    /\ HolderConsistent
    /\ Serial => NoGuest

----------------------------------------------------------------------------
(* The lock on its own *)

LEMMA LockInitOK == LockInit => LockIInv
  BY DEF LockInit, LockIInv, LockTypeOK, HolderConsistent, NoGuest, SectionState

\* Every step of the lock keeps its variables in their types.
LEMMA LockTypeStep == LockTypeOK /\ [LockNext]_lockVars => LockTypeOK'
<1> SUFFICES ASSUME LockTypeOK, [LockNext]_lockVars PROVE LockTypeOK'
  OBVIOUS
<1> USE DEF LockTypeOK, SectionState
<1>1. ASSUME NEW t \in Task, Enter(t) PROVE LockTypeOK'
  BY <1>1 DEF Enter
<1>2. ASSUME NEW t \in Task, EnterFailsMidway(t) PROVE LockTypeOK'
  BY <1>2 DEF EnterFailsMidway
<1>3. ASSUME NEW t \in Task, Reenter(t) PROVE LockTypeOK'
  BY <1>3 DEF Reenter
<1>4. ASSUME NEW t \in Task, Leave(t) PROVE LockTypeOK'
  BY <1>4 DEF Leave
<1>5. ASSUME NEW p \in Process, Crash(p) PROVE LockTypeOK'
  BY <1>5 DEF Crash
<1>6. ASSUME NEW p \in Process, Restart(p) PROVE LockTypeOK'
  BY <1>6 DEF Restart
<1>7. CASE OperatorRemove
  BY <1>7 DEF OperatorRemove
<1>8. CASE UNCHANGED lockVars
  BY <1>8 DEF lockVars
<1> QED
  BY <1>1, <1>2, <1>3, <1>4, <1>5, <1>6, <1>7, <1>8 DEF LockNext

\* Every step of the lock keeps the reentrancy set, the file and the owners in
\* agreement.
LEMMA HolderStep ==
    LockTypeOK /\ HolderConsistent /\ [LockNext]_lockVars => HolderConsistent'
<1> SUFFICES ASSUME LockTypeOK, HolderConsistent, [LockNext]_lockVars
             PROVE  HolderConsistent'
  OBVIOUS
<1> USE DEF LockTypeOK, SectionState, HolderConsistent
<1>1. ASSUME NEW t \in Task, Enter(t) PROVE HolderConsistent'
  BY <1>1 DEF Enter
<1>2. ASSUME NEW t \in Task, EnterFailsMidway(t) PROVE HolderConsistent'
  BY <1>2 DEF EnterFailsMidway
<1>3. ASSUME NEW t \in Task, Reenter(t) PROVE HolderConsistent'
  BY <1>3 DEF Reenter
<1>4. ASSUME NEW t \in Task, Leave(t) PROVE HolderConsistent'
  <2>1. CASE section[t] = "owner"
    BY <1>4, <2>1 DEF Leave, Inside
  <2>2. CASE section[t] # "owner"
    BY <1>4, <2>2 DEF Leave, Inside
  <2> QED
    BY <2>1, <2>2
<1>5. ASSUME NEW p \in Process, Crash(p) PROVE HolderConsistent'
  BY <1>5 DEF Crash
<1>6. ASSUME NEW p \in Process, Restart(p) PROVE HolderConsistent'
  BY <1>6 DEF Restart
<1>7. CASE OperatorRemove
  BY <1>7 DEF OperatorRemove, Inside
<1>8. CASE UNCHANGED lockVars
  BY <1>8 DEF lockVars
<1> QED
  BY <1>1, <1>2, <1>3, <1>4, <1>5, <1>6, <1>7, <1>8 DEF LockNext

\* When activities of one process never overlap, nobody enters as a guest: the
\* owner a guest would join is an activity of its own process, hence itself.
LEMMA NoGuestStep ==
    ASSUME Serial, LockTypeOK, HolderConsistent, NoGuest, [LockNext]_lockVars
    PROVE  NoGuest'
<1> USE DEF NoGuest, LockTypeOK
<1>1. ASSUME NEW t \in Task, Enter(t) PROVE NoGuest'
  BY <1>1 DEF Enter
<1>2. ASSUME NEW t \in Task, EnterFailsMidway(t) PROVE NoGuest'
  BY <1>2 DEF EnterFailsMidway
<1>3. ASSUME NEW t \in Task, Reenter(t) PROVE NoGuest'
  BY <1>3 DEF Reenter, Serial, HolderConsistent
<1>4. ASSUME NEW t \in Task, Leave(t) PROVE NoGuest'
  BY <1>4 DEF Leave
<1>5. ASSUME NEW p \in Process, Crash(p) PROVE NoGuest'
  BY <1>5 DEF Crash
<1>6. CASE UNCHANGED section
  BY <1>6
<1> QED
  BY <1>1, <1>2, <1>3, <1>4, <1>5, <1>6
     DEF LockNext, lockVars, Restart, OperatorRemove

LEMMA LockIInvStep == LockIInv /\ [LockNext]_lockVars => LockIInv'
  BY LockTypeStep, HolderStep, NoGuestStep DEF LockIInv, Serial

\* Without guests the open sections belong to one process.
LEMMA ExclusionFromInv ==
    ASSUME LockIInv, Serial PROVE CrossProcessExclusion
  BY DEF LockIInv, LockTypeOK, SectionState, NoGuest, HolderConsistent,
         CrossProcessExclusion, Inside

\* A process that holds nothing cannot write under an owner's section.
LEMMA OwnerExcludesWriters ==
    ASSUME LockIInv, NEW u \in Task, section[u] = "owner",
           NEW p \in Process, CanMutate(p)
    PROVE  ProcOf[u] = p
  BY DEF LockIInv, LockTypeOK, HolderConsistent, CanMutate
=============================================================================
